------------------------- MODULE SessionCalleeProofs -------------------------
(***************************************************************************)
(* What SessionCallee's runs check on small instances, proved for every    *)
(* number of INVITEs and UPDATEs, every number of intervals, any calls of  *)
(* Terminate() and all faults: no response is repeated on the wrong        *)
(* connection or after its ACK, no INVITE is forgotten, no offer is left   *)
(* open, and no session ends untold.                                       *)
(*                                                                         *)
(* SInv(t, p) is the inductive invariant, of a session t and a peer p.     *)
(* Each handler has a lemma that says that all sessions it may leave       *)
(* satisfy SInv with the same peer; each action puts this together with    *)
(* what it changes of the peer.                                            *)
(***************************************************************************)
EXTENDS SessionCallee, TLAPS

-----------------------------------------------------------------------------
(* Types.                                                                  *)

Msg == [name : Messages, req : Requests \cup {NoReq}]

SessionSet ==
    [state : States, call : CallStates, oa : OaStates,
     pending : BOOLEAN, notif : BOOLEAN, start : Connections,
     upd : [req : Requests \cup {NoReq}, conn : Connections, responded : BOOLEAN],
     task : 0 .. MaxInvites, tracker : 0 .. Intervals,
     queue : Seq(Msg), told : SUBSET Once, bye : {"none", "sent", "done"},
     open : SUBSET Requests, ok : SUBSET (1 .. MaxInvites),
     offers : SUBSET (1 .. MaxInvites)]

PeerSet ==
    [invites : 1 .. MaxInvites, updates : 0 .. MaxUpdates,
     acked : SUBSET (1 .. MaxInvites), cancelled : SUBSET (1 .. MaxInvites),
     bye : BOOLEAN, terminates : 0 .. MaxTerminates,
     dialog : {"confirmed", "terminated"}]

-----------------------------------------------------------------------------
(* The invariant.                                                          *)

(* The names of the messages in a queue, the requests that wait in it, and *)
(* that each of these waits there once.                                    *)
Names(q) == {q[i].name : i \in DOMAIN q}
Delayed(q) == {q[i].req : i \in {j \in DOMAIN q : q[j].name = "DELAYED"}}
DelayedOnce(q) ==
    \A i, j \in DOMAIN q :
        q[i].name = "DELAYED" /\ q[j].name = "DELAYED" /\ q[i].req = q[j].req => i = j

(* Before the application answers, nothing has happened.                   *)
NegotiatingInv(t) ==
    t.state = "NEGOTIATING" =>
        /\ t.call = "INVITE_RECEIVED" /\ t.start = "open" /\ t.ok = {}
        /\ t.upd.req = NoReq /\ t.upd.conn = "closed"
        /\ t.task = 0 /\ t.pending = FALSE /\ Delayed(t.queue) = {}
        /\ t.open \subseteq {FirstInvite}

(* While the first ACK is awaited nobody has used SESSION_UPDATE.          *)
EstablishingInv(t) ==
    t.state = "ESTABLISHING" =>
        /\ t.call = "INVITE_2XX_SENT" /\ t.start = "answered"
        /\ t.upd.req = NoReq /\ t.upd.conn = "closed"

(* The states and the connection of SESSION_UPDATE.  An open one is the    *)
(* application's to answer, unless the refusal for a CANCEL could not be   *)
(* sent.                                                                   *)
UpdateInv(t) ==
    /\ t.state = "REESTABLISHING" =>
          /\ t.upd.req.m = "INVITE" /\ t.upd.conn = "answered"
          /\ t.upd.responded = TRUE /\ t.upd.req.n \in t.ok
    /\ t.state = "RENEGOTIATING" =>
          /\ t.upd.req # NoReq /\ t.upd.conn # "answered"
          /\ t.upd.req.m = "INVITE" => t.upd.conn = "open"
    /\ t.upd.conn = "open" =>
          /\ t.upd.responded = FALSE /\ t.upd.req \in t.open
          /\ t.upd.req \notin Delayed(t.queue)
          /\ \/ t.state \in {"RENEGOTIATING", "TERMINATING", "TERMINATED"}
             \/ t.state = "ESTABLISHED" /\ t.upd.req.m = "INVITE" /\ faults # {}
    /\ t.upd.conn = "answered" => t.upd.responded = TRUE

(* What the peer may have sent, and what has been answered.                *)
OpenInv(t, p) ==
    /\ \A r \in t.open : IF r.m = "INVITE" THEN r.n = p.invites /\ r.n \notin t.ok
                                           ELSE r.n <= p.updates
    /\ \A r, q \in t.open : r.m = "INVITE" /\ q.m = "INVITE" => r = q
    /\ Delayed(t.queue) \subseteq t.open /\ DelayedOnce(t.queue)
    /\ \A n \in t.ok : n <= p.invites
    /\ p.acked \subseteq t.ok /\ t.offers \subseteq t.ok
    /\ t.state \in {"ESTABLISHING", "ESTABLISHED", "RENEGOTIATING", "REESTABLISHING"}
          => 1 \in t.ok
    /\ 1 \in t.ok => t.call # "INVITE_RECEIVED"

(* The retransmission that runs: that of the first INVITE, that of the     *)
(* re-INVITE in REESTABLISHING, or one whose next expiry finds no          *)
(* connection to send on.                                                  *)
TaskInv(t, p) ==
    /\ t.pending => t.task = 0 /\ p.terminates > 0
    /\ \/ t.task = 0
       \/ t.task = 1 /\ t.state = "ESTABLISHING" /\ 1 \notin p.acked
       \/ t.state = "REESTABLISHING" /\ t.task = t.upd.req.n /\ t.task \notin p.acked
       \/ /\ t.task = 1 /\ t.state \in {"RENEGOTIATING", "ESTABLISHED"}
          /\ ~(t.upd.req.m = "INVITE" /\ t.upd.conn = "answered" /\ t.upd.req.n \in t.ok)

(* The end is told or about to be, and a BYE is sent only at the end.      *)
EndInv(t) ==
    /\ t.state = "TERMINATED" =>
          {"TERMINATED", "START_FAILED"} \cap (t.told \cup Names(t.queue)) # {}
    /\ t.bye = "sent" => t.state \in {"TERMINATING", "TERMINATED"}

(* Where the session will find the INVITE r.                               *)
Kept(t, r) ==
    \/ r = FirstInvite /\ t.start = "open" /\ t.state = "NEGOTIATING"
    \/ r = t.upd.req /\ t.upd.conn = "open" /\ t.upd.responded = FALSE
    \/ r \in Delayed(t.queue)

InvitesKept(t, but) ==
    faults = {} => \A r \in t.open \ but : r.m = "INVITE" => Kept(t, r)

OfferInv(t, p) ==
    faults = {} =>
    /\ t.oa = "CHANGE_RECEIVED" =>
          t.state \in {"RENEGOTIATING", "TERMINATING", "TERMINATED"}
    /\ t.oa = "CHANGE_SENT" =>
          \/ t.state = "REESTABLISHING" /\ t.upd.req.n \in t.offers
          \/ t.state \in {"TERMINATING", "TERMINATED"}
          \/ \E n \in t.offers : n < p.invites

(* But is the set of INVITEs that a handler has in hand; Held leaves out   *)
(* what is told of the end, which a handler may be about to post.          *)
Held(t, p, but) ==
    /\ t \in SessionSet
    /\ NegotiatingInv(t) /\ EstablishingInv(t) /\ UpdateInv(t)
    /\ OpenInv(t, p) /\ TaskInv(t, p)
    /\ InvitesKept(t, but) /\ OfferInv(t, p)

SInv(t, p) == Held(t, p, {}) /\ EndInv(t)

(* The request r is in hand: it waits nowhere.                             *)
InHand(t, r) ==
    /\ r \in t.open /\ r \notin Delayed(t.queue)
    /\ t.upd.conn = "open" => t.upd.req # r
    /\ t.state # "NEGOTIATING"

-----------------------------------------------------------------------------
(* Lemmas about queues.                                                    *)

LEMMA AppendQueue ==
    ASSUME NEW q \in Seq(Msg), NEW e \in Msg
    PROVE  /\ Append(q, e) \in Seq(Msg)
           /\ Names(Append(q, e)) = Names(q) \cup {e.name}
           /\ Delayed(Append(q, e)) =
                 IF e.name = "DELAYED" THEN Delayed(q) \cup {e.req} ELSE Delayed(q)
           /\ DelayedOnce(q) /\ (e.name = "DELAYED" => e.req \notin Delayed(q))
                 => DelayedOnce(Append(q, e))
<1> DEFINE a == Append(q, e)
           n == Len(q)
<1>1. n \in Nat /\ DOMAIN q = 1 .. n
  OBVIOUS
<1>2. /\ a \in Seq(Msg) /\ DOMAIN a = 1 .. (n + 1)
      /\ a[n + 1] = e /\ \A i \in 1 .. n : a[i] = q[i]
  OBVIOUS
<1> HIDE DEF a, n
<1>3. DOMAIN a = DOMAIN q \cup {n + 1} /\ n + 1 \notin DOMAIN q
  BY <1>1, <1>2
<1>4. \A i \in DOMAIN q : a[i] = q[i]
  BY <1>1, <1>2
<1>5. Names(a) = Names(q) \cup {e.name}
  BY <1>2, <1>3, <1>4, ZenonT(60) DEF Names
<1>6. Delayed(a) = IF e.name = "DELAYED" THEN Delayed(q) \cup {e.req} ELSE Delayed(q)
  <2>1. {j \in DOMAIN a : a[j].name = "DELAYED"} =
           {j \in DOMAIN q : q[j].name = "DELAYED"}
              \cup IF e.name = "DELAYED" THEN {n + 1} ELSE {}
    BY <1>2, <1>3, <1>4
  <2> QED
    BY <1>2, <1>3, <1>4, <2>1, SMTT(30) DEF Delayed
<1>7. DelayedOnce(q) /\ (e.name = "DELAYED" => e.req \notin Delayed(q))
        => DelayedOnce(a)
  <2> SUFFICES ASSUME DelayedOnce(q), e.name = "DELAYED" => e.req \notin Delayed(q),
                      NEW i \in DOMAIN a, NEW j \in DOMAIN a,
                      a[i].name = "DELAYED", a[j].name = "DELAYED", a[i].req = a[j].req
               PROVE  i = j
    BY DEF DelayedOnce
  <2>1. CASE i \in DOMAIN q /\ j \in DOMAIN q
    BY <2>1, <1>4 DEF DelayedOnce
  <2>2. ASSUME NEW k \in DOMAIN q, q[k].name = "DELAYED", e.name = "DELAYED"
        PROVE  q[k].req # e.req
    BY <2>2 DEF Delayed
  <2>3. CASE i \in DOMAIN q /\ j = n + 1
    BY <2>3, <2>2, <1>2, <1>4
  <2>4. CASE i = n + 1 /\ j \in DOMAIN q
    BY <2>4, <2>2, <1>2, <1>4
  <2> QED
    BY <2>1, <2>3, <2>4, <1>3
<1> QED
  BY <1>2, <1>5, <1>6, <1>7 DEF a

LEMMA TailQueue ==
    ASSUME NEW q \in Seq(Msg), q # << >>
    PROVE  /\ Head(q) \in Msg /\ Tail(q) \in Seq(Msg)
           /\ Names(q) = Names(Tail(q)) \cup {Head(q).name}
           /\ Delayed(q) =
                 IF Head(q).name = "DELAYED" THEN Delayed(Tail(q)) \cup {Head(q).req}
                                             ELSE Delayed(Tail(q))
           /\ DelayedOnce(q) =>
                 /\ DelayedOnce(Tail(q))
                 /\ Head(q).name = "DELAYED" => Head(q).req \notin Delayed(Tail(q))
<1> DEFINE a == Tail(q)
           e == Head(q)
           n == Len(q)
<1>1. n \in Nat /\ n >= 1 /\ DOMAIN q = 1 .. n /\ e = q[1] /\ e \in Msg
  OBVIOUS
<1>2. a \in Seq(Msg) /\ DOMAIN a = 1 .. (n - 1) /\ \A i \in 1 .. (n - 1) : a[i] = q[i + 1]
  OBVIOUS
<1> HIDE DEF a, n, e
<1>3. \A i \in DOMAIN a : i + 1 \in DOMAIN q /\ i + 1 # 1 /\ a[i] = q[i + 1]
  BY <1>1, <1>2
<1>4. \A i \in DOMAIN q : i = 1 \/ (i - 1 \in DOMAIN a /\ a[i - 1] = q[i])
  BY <1>1, <1>2
<1>5. 1 \in DOMAIN q /\ q[1] = e
  BY <1>1
<1>6. Names(q) = Names(a) \cup {e.name}
  BY <1>3, <1>4, <1>5, SMTT(30) DEF Names
<1>7. Delayed(q) = IF e.name = "DELAYED" THEN Delayed(a) \cup {e.req} ELSE Delayed(a)
  BY <1>3, <1>4, <1>5, SMTT(30) DEF Delayed
<1>8. DelayedOnce(q) => DelayedOnce(a)
  BY <1>1, <1>2, <1>3, SMTT(30) DEF DelayedOnce
<1>9. DelayedOnce(q) /\ e.name = "DELAYED" => e.req \notin Delayed(a)
  BY <1>1, <1>2, <1>3, <1>5, SMTT(30) DEF DelayedOnce, Delayed
<1> QED
  BY <1>1, <1>2, <1>6, <1>7, <1>8, <1>9 DEF a, e

-----------------------------------------------------------------------------
(* Lemmas about the parts of the handlers.                                 *)

LEMMA RequestFacts ==
    /\ NoReq \notin Requests /\ NoReq.m = "none" /\ FirstInvite \in Requests
    /\ FirstInvite.m = "INVITE" /\ FirstInvite.n = 1
    /\ \A r \in Requests :
          /\ r.m \in {"INVITE", "UPDATE"} /\ r.sdp \in BOOLEAN /\ r.n \in Nat
          /\ r.m = "INVITE" => r.n \in 1 .. MaxInvites
          /\ r.m = "UPDATE" => r.n \in 1 .. MaxUpdates
  BY SessionBoundsAssumption DEF Requests, NoReq, FirstInvite

(* A message other than a delayed request is posted.                       *)
LEMMA Posted ==
    ASSUME NEW t \in SessionSet, NEW name \in Messages \ {"DELAYED"}
    PROVE  LET u == PostMessage(t, name) IN
           /\ u \in SessionSet
           /\ Names(u.queue) = Names(t.queue) \cup {name}
           /\ Delayed(u.queue) = Delayed(t.queue)
           /\ DelayedOnce(t.queue) => DelayedOnce(u.queue)
           /\ u.state = t.state /\ u.call = t.call /\ u.oa = t.oa
           /\ u.pending = t.pending /\ u.start = t.start /\ u.upd = t.upd
           /\ u.task = t.task /\ u.told = t.told /\ u.open = t.open
           /\ u.ok = t.ok /\ u.offers = t.offers /\ u.bye = t.bye
<1> DEFINE e == [name |-> name, req |-> NoReq]
<1>1. e \in Msg /\ e.name = name /\ t.queue \in Seq(Msg)
  BY DEF Msg, SessionSet
<1> HIDE DEF e
<1>2. /\ Append(t.queue, e) \in Seq(Msg)
      /\ Names(Append(t.queue, e)) = Names(t.queue) \cup {name}
      /\ Delayed(Append(t.queue, e)) = Delayed(t.queue)
      /\ DelayedOnce(t.queue) => DelayedOnce(Append(t.queue, e))
  BY <1>1, AppendQueue
<1>3. PostMessage(t, name) = [t EXCEPT !.queue = Append(t.queue, e)]
  BY DEF PostMessage, e
<1> QED
  BY <1>2, <1>3 DEF SessionSet

(* ... which keeps the invariant, and reports the end.                     *)
LEMMA PostedInv ==
    ASSUME NEW t, NEW p, NEW name \in Messages \ {"DELAYED"}, Held(t, p, {}),
           t.state = "TERMINATED" => EndInv(t) \/ name \in {"TERMINATED", "START_FAILED"},
           t.bye = "sent" => t.state \in {"TERMINATING", "TERMINATED"}
    PROVE  SInv(PostMessage(t, name), p)
<1> DEFINE u == PostMessage(t, name)
<1>1. t \in SessionSet
  BY DEF Held
<1>2. /\ u \in SessionSet
      /\ Names(u.queue) = Names(t.queue) \cup {name}
      /\ Delayed(u.queue) = Delayed(t.queue)
      /\ DelayedOnce(t.queue) => DelayedOnce(u.queue)
      /\ u.state = t.state /\ u.call = t.call /\ u.oa = t.oa
      /\ u.pending = t.pending /\ u.start = t.start /\ u.upd = t.upd
      /\ u.task = t.task /\ u.told = t.told /\ u.open = t.open
      /\ u.ok = t.ok /\ u.offers = t.offers /\ u.bye = t.bye
  BY <1>1, Posted
<1> HIDE DEF u
<1>3. Held(u, p, {})
  BY <1>2 DEF Held, NegotiatingInv, EstablishingInv, UpdateInv, OpenInv, TaskInv,
              InvitesKept, Kept, OfferInv
<1>4. EndInv(u)
  BY <1>2 DEF EndInv
<1> QED
  BY <1>3, <1>4 DEF SInv, u

(* A session that has not ended, or has ended as before.                   *)
LEMMA EndKept ==
    ASSUME NEW t, NEW u, EndInv(t), u.state # "TERMINATED" \/ u.state = t.state,
           u.told = t.told, u.queue = t.queue, u.bye = t.bye,
           u.bye = "sent" => u.state \in {"TERMINATING", "TERMINATED"}
    PROVE  EndInv(u)
  BY DEF EndInv

(* Messages and states are different by name.                              *)
LEMMA Posts == Messages \ {"DELAYED"} =
    {"STARTED", "START_FAILED", "UPDATE_RECEIVED", "UPDATED", "UPDATE_FAILED",
     "CANCELED_ON_ACCEPTED", "TERMINATED"}
  BY DEF Messages

(* The values the handlers give to the fields.                             *)
LEMMA Values ==
    /\ \A state \in {"NEGOTIATING", "ESTABLISHING", "ESTABLISHED", "RENEGOTIATING",
                     "REESTABLISHING", "TERMINATING", "TERMINATED"} : state \in States
    /\ \A conn \in {"open", "answered", "closed"} : conn \in Connections
    /\ \A oa \in {"IDLE", "OFFER_RECEIVED", "ESTABLISHED", "CHANGE_SENT",
                  "CHANGE_RECEIVED"} : oa \in OaStates
    /\ \A bye \in {"none", "sent", "done"} : bye \in {"none", "sent", "done"}
    /\ 0 \in 0 .. MaxInvites /\ 1 \in 1 .. MaxInvites
    /\ \A n \in 1 .. MaxInvites : n \in 0 .. MaxInvites /\ {n} \in SUBSET (1 .. MaxInvites)
    /\ 0 \in 0 .. Intervals /\ 1 \in 0 .. Intervals
    /\ NoReq \in Requests \cup {NoReq} /\ FirstInvite \in Requests
  BY SessionBoundsAssumption, RequestFacts DEF States, Connections, OaStates

LEMMA CallStatesClosed ==
    \A call \in CallStates :
        /\ CallOnSent2xx(call) \in CallStates /\ CallOnSentFailure(call) \in CallStates
        /\ CallOnAck(call) \in CallStates /\ CallOnInvite(call) \in CallStates
        /\ call # "INVITE_RECEIVED" =>
             /\ CallOnSent2xx(call) # "INVITE_RECEIVED"
             /\ CallOnSentFailure(call) # "INVITE_RECEIVED"
             /\ CallOnAck(call) # "INVITE_RECEIVED" /\ CallOnInvite(call) # "INVITE_RECEIVED"
        /\ CallOnSent2xx(call) # "INVITE_RECEIVED"
        /\ CallOnSentFailure(call) # "INVITE_RECEIVED"
  BY DEF CallStates, CallOnSent2xx, CallOnSentFailure, CallOnAck, CallOnInvite

-----------------------------------------------------------------------------
(* Calls of the application.                                               *)

LEMMA AcceptSessionInv ==
    ASSUME NEW t, NEW p \in PeerSet, SInv(t, p), t.state = "NEGOTIATING",
           NEW u \in AcceptSession(t)
    PROVE  SInv(u, p)
<1> DEFINE a == Start2xxRetransmission(Stop2xxRetransmission(Enter(
                    [Answered(t, FirstInvite) EXCEPT
                        !.start = "answered", !.call = CallOnSent2xx(@),
                        !.oa = "ESTABLISHED", !.ok = @ \cup {1}], "ESTABLISHING")), 1)
           b == Enter([t EXCEPT !.start = "closed"], "TERMINATED")
<1>0. t.bye # "sent"
  BY DEF SInv, EndInv
<1>1. u = a \/ ("respond" \in faults /\ u = PostMessage(b, "START_FAILED"))
  BY DEF AcceptSession, Outcomes
<1>2. /\ t \in SessionSet /\ NegotiatingInv(t) /\ UpdateInv(t) /\ OpenInv(t, p)
      /\ TaskInv(t, p) /\ InvitesKept(t, {}) /\ OfferInv(t, p) /\ EndInv(t)
  BY DEF SInv, Held
<1>3. /\ t.call = "INVITE_RECEIVED" /\ t.ok = {} /\ t.pending = FALSE /\ t.task = 0
      /\ t.upd.req = NoReq /\ t.upd.conn = "closed" /\ Delayed(t.queue) = {}
      /\ CallOnSent2xx("INVITE_RECEIVED") = "INVITE_2XX_SENT" /\ p.acked = {}
      /\ t.open \subseteq {FirstInvite}
  BY <1>2 DEF NegotiatingInv, CallOnSent2xx, OpenInv, PeerSet
<1>4. a \in SessionSet /\ b \in SessionSet
  <2>1. /\ t.open \ {FirstInvite} \in SUBSET Requests
        /\ CallOnSent2xx(t.call) \in CallStates /\ t.ok \cup {1} \in SUBSET (1 .. MaxInvites)
    BY <1>2, <1>3, Values, CallStatesClosed DEF SessionSet
  <2>2. a \in SessionSet
    BY <1>2, <2>1, Values DEF SessionSet, Start2xxRetransmission, Stop2xxRetransmission,
       Enter, Answered
  <2> QED
    BY <1>2, <2>2, Values DEF SessionSet, Enter
<1>5. CASE u = a
  <2>1. /\ a.state = "ESTABLISHING" /\ a.call = "INVITE_2XX_SENT" /\ a.oa = "ESTABLISHED"
        /\ a.pending = FALSE /\ a.start = "answered" /\ a.upd = t.upd /\ a.task = 1
        /\ a.open = t.open \ {FirstInvite} /\ a.ok = {1} /\ a.offers = t.offers
        /\ a.bye = t.bye
        /\ a.queue = t.queue /\ a.told = t.told
    BY <1>2, <1>3 DEF SessionSet, Start2xxRetransmission, Stop2xxRetransmission, Enter,
       Answered
  <2> HIDE DEF a, b
  <2>2. Held(a, p, {})
    <3>1. NegotiatingInv(a) /\ EstablishingInv(a) /\ UpdateInv(a)
      BY <1>2, <1>3, <2>1 DEF NegotiatingInv, EstablishingInv, UpdateInv
    <3>2. OpenInv(a, p)
      BY <1>2, <1>3, <2>1, RequestFacts DEF OpenInv, PeerSet, SessionSet
    <3>3. TaskInv(a, p)
      BY <1>2, <1>3, <2>1 DEF TaskInv
    <3>4. InvitesKept(a, {}) /\ OfferInv(a, p)
      BY <1>2, <1>3, <2>1 DEF InvitesKept, Kept, OfferInv
    <3> QED
      BY <1>4, <3>1, <3>2, <3>3, <3>4 DEF Held
  <2> QED
    BY <1>0, <1>2, <1>5, <2>1, <2>2, EndKept DEF SInv
<1>6. CASE "respond" \in faults /\ u = PostMessage(b, "START_FAILED")
  <2>1. /\ b.state = "TERMINATED" /\ b.call = t.call /\ b.oa = t.oa
        /\ b.pending = FALSE /\ b.start = "closed" /\ b.upd = t.upd /\ b.task = 0
        /\ b.open = t.open /\ b.ok = {} /\ b.offers = t.offers /\ b.bye = t.bye
        /\ b.queue = t.queue /\ b.told = t.told
    BY <1>2, <1>3 DEF SessionSet, Enter
  <2> HIDE DEF a, b
  <2>2. Held(b, p, {})
    <3>1. NegotiatingInv(b) /\ EstablishingInv(b) /\ UpdateInv(b)
      BY <1>2, <1>3, <2>1 DEF NegotiatingInv, EstablishingInv, UpdateInv
    <3>2. OpenInv(b, p)
      BY <1>2, <1>3, <2>1 DEF OpenInv
    <3>3. TaskInv(b, p)
      BY <1>2, <1>3, <2>1 DEF TaskInv
    <3>4. InvitesKept(b, {}) /\ OfferInv(b, p)
      BY <1>2, <1>6, <2>1 DEF InvitesKept, OfferInv
    <3> QED
      BY <1>4, <3>1, <3>2, <3>3, <3>4 DEF Held
  <2> QED
    BY <1>6, <2>1, <2>2, PostedInv, Posts
<1> QED
  BY <1>1, <1>5, <1>6

LEMMA AcceptUpdateInv ==
    ASSUME NEW t, NEW p \in PeerSet, SInv(t, p), t.pending = FALSE,
           t.state = "RENEGOTIATING", t.upd.conn = "open", NEW u \in AcceptUpdate(t)
    PROVE  SInv(u, p)
<1> DEFINE r == t.upd.req
           isInvite == r.m = "INVITE"
           offers == isInvite /\ ~r.sdp /\ t.oa = "ESTABLISHED"
           a == Stop2xxRetransmission(Enter(
                    [Answered(t, r) EXCEPT
                        !.upd.conn = "answered", !.upd.responded = TRUE,
                        !.call = IF isInvite THEN CallOnSent2xx(@) ELSE @,
                        !.oa = IF offers THEN "CHANGE_SENT"
                               ELSE IF @ = "CHANGE_RECEIVED" THEN "ESTABLISHED" ELSE @,
                        !.ok = IF isInvite THEN @ \cup {r.n} ELSE @,
                        !.offers = IF offers THEN @ \cup {r.n} ELSE @],
                    IF isInvite THEN "REESTABLISHING" ELSE "ESTABLISHED"))
           c == Enter(CloseUpdate(t), "ESTABLISHED")
<1>0. t.bye # "sent"
  BY DEF SInv, EndInv
<1>1. \/ isInvite /\ u = Start2xxRetransmission(a, r.n)
      \/ ~isInvite /\ u = a
      \/ "respond" \in faults /\ u = PostMessage(c, "UPDATE_FAILED")
  BY DEF AcceptUpdate, Outcomes
<1>2. /\ t \in SessionSet /\ UpdateInv(t) /\ OpenInv(t, p)
      /\ TaskInv(t, p) /\ InvitesKept(t, {}) /\ OfferInv(t, p) /\ EndInv(t)
  BY DEF SInv, Held
<1>3. /\ r \in t.open /\ r \notin Delayed(t.queue) /\ r \in Requests
      /\ 1 \in t.ok /\ t.call # "INVITE_RECEIVED"
      /\ isInvite => r.n = p.invites /\ r.n \notin t.ok /\ r.n \in 1 .. MaxInvites
  BY <1>2, RequestFacts DEF UpdateInv, OpenInv, SessionSet
<1>4. /\ isInvite => t.ok \cup {r.n} \in SUBSET (1 .. MaxInvites)
      /\ isInvite => t.offers \cup {r.n} \in SUBSET (1 .. MaxInvites)
      /\ isInvite => r.n \in 0 .. MaxInvites
  BY <1>2, <1>3, Values DEF SessionSet
<1>5. /\ t.open \ {r} \in SUBSET Requests
      /\ CallOnSent2xx(t.call) \in CallStates /\ CallOnSent2xx(t.call) # "INVITE_RECEIVED"
  BY <1>2, CallStatesClosed DEF SessionSet
<1>6. a \in SessionSet
  BY <1>2, <1>4, <1>5, Values, ZenonT(60)
     DEF SessionSet, Stop2xxRetransmission, Enter, Answered
<1>7. /\ a.state = IF isInvite THEN "REESTABLISHING" ELSE "ESTABLISHED"
      /\ a.call = IF isInvite THEN CallOnSent2xx(t.call) ELSE t.call
      /\ a.oa = IF offers THEN "CHANGE_SENT"
                ELSE IF t.oa = "CHANGE_RECEIVED" THEN "ESTABLISHED" ELSE t.oa
      /\ a.pending = FALSE /\ a.start = t.start /\ a.task = 0
      /\ a.upd.req = r /\ a.upd.conn = "answered" /\ a.upd.responded = TRUE
      /\ a.open = t.open \ {r} /\ a.ok = IF isInvite THEN t.ok \cup {r.n} ELSE t.ok
      /\ a.offers = IF offers THEN t.offers \cup {r.n} ELSE t.offers
      /\ a.queue = t.queue /\ a.told = t.told /\ a.bye = t.bye
  BY <1>2 DEF SessionSet, Stop2xxRetransmission, Enter, Answered
<1>8. CASE isInvite /\ u = Start2xxRetransmission(a, r.n)
  <2>1. /\ u \in SessionSet /\ u.state = "REESTABLISHING" /\ u.call = CallOnSent2xx(t.call)
        /\ u.oa = a.oa /\ u.pending = FALSE /\ u.start = t.start /\ u.task = r.n
        /\ u.upd = a.upd /\ u.open = a.open /\ u.ok = t.ok \cup {r.n}
        /\ u.offers = a.offers /\ u.bye = a.bye /\ u.queue = t.queue /\ u.told = t.told
    <3> HIDE DEF a
    <3> QED
      BY <1>4, <1>6, <1>7, <1>8, Values, ZenonT(60) DEF SessionSet, Start2xxRetransmission
  <2> HIDE DEF a, c
  <2>2. Held(u, p, {})
    <3>1. NegotiatingInv(u) /\ EstablishingInv(u) /\ UpdateInv(u)
      BY <1>7, <1>8, <2>1 DEF NegotiatingInv, EstablishingInv, UpdateInv
    <3>2. OpenInv(u, p)
      BY <1>2, <1>3, <1>5, <1>7, <1>8, <2>1 DEF OpenInv, PeerSet
    <3>3. TaskInv(u, p)
      BY <1>2, <1>3, <1>7, <1>8, <2>1 DEF OpenInv, TaskInv
    <3>4. InvitesKept(u, {})
      BY <1>2, <1>3, <1>7, <1>8, <2>1 DEF InvitesKept, Kept, OpenInv
    <3>5. OfferInv(u, p)
      BY <1>2, <1>7, <1>8, <2>1 DEF OfferInv
    <3> QED
      BY <2>1, <3>1, <3>2, <3>3, <3>4, <3>5 DEF Held
  <2> QED
    BY <1>0, <1>2, <1>7, <2>1, <2>2, EndKept DEF SInv
<1>9. CASE ~isInvite /\ u = a
  <2> HIDE DEF a, c
  <2>1. Held(a, p, {})
    <3>1. NegotiatingInv(a) /\ EstablishingInv(a) /\ UpdateInv(a)
      BY <1>7, <1>9 DEF NegotiatingInv, EstablishingInv, UpdateInv
    <3>2. OpenInv(a, p)
      BY <1>2, <1>3, <1>5, <1>7, <1>9 DEF OpenInv
    <3>3. TaskInv(a, p)
      BY <1>7 DEF TaskInv
    <3>4. InvitesKept(a, {})
      BY <1>2, <1>3, <1>7, <1>9 DEF InvitesKept, Kept
    <3>5. OfferInv(a, p)
      BY <1>2, <1>7, <1>9 DEF OfferInv
    <3> QED
      BY <1>6, <3>1, <3>2, <3>3, <3>4, <3>5 DEF Held
  <2> QED
    BY <1>0, <1>2, <1>7, <1>9, <2>1, EndKept DEF SInv
<1>10. CASE "respond" \in faults /\ u = PostMessage(c, "UPDATE_FAILED")
  <2>1. /\ c \in SessionSet /\ c.state = "ESTABLISHED" /\ c.call = t.call /\ c.oa = t.oa
        /\ c.pending = FALSE /\ c.start = t.start /\ c.task = t.task
        /\ c.upd.req = r /\ c.upd.conn = "closed"
        /\ c.open = t.open /\ c.ok = t.ok /\ c.offers = t.offers /\ c.bye = t.bye
        /\ c.queue = t.queue /\ c.told = t.told
    BY <1>2, Values DEF SessionSet, Enter, CloseUpdate
  <2> HIDE DEF a, c
  <2>2. Held(c, p, {})
    <3>1. NegotiatingInv(c) /\ EstablishingInv(c) /\ UpdateInv(c)
      BY <2>1 DEF NegotiatingInv, EstablishingInv, UpdateInv
    <3>2. OpenInv(c, p)
      BY <1>2, <1>3, <2>1 DEF OpenInv
    <3>3. TaskInv(c, p)
      BY <1>2, <2>1 DEF TaskInv
    <3>4. InvitesKept(c, {}) /\ OfferInv(c, p)
      BY <1>10 DEF InvitesKept, OfferInv
    <3> QED
      BY <2>1, <3>1, <3>2, <3>3, <3>4 DEF Held
  <2> QED
    BY <1>0, <1>10, <2>1, <2>2, PostedInv, Posts
<1> QED
  BY <1>1, <1>8, <1>9, <1>10

LEMMA RejectSessionInv ==
    ASSUME NEW t, NEW p \in PeerSet, SInv(t, p), t.state = "NEGOTIATING",
           NEW u \in RejectSession(t)
    PROVE  SInv(u, p)
<1> DEFINE x == [Answered(t, FirstInvite) EXCEPT
                    !.call = CallOnSentFailure(@), !.oa = OaOnFailure(@)]
           a == Enter([x EXCEPT !.start = "closed"], "TERMINATED")
           b == Enter([t EXCEPT !.start = "closed"], "TERMINATED")
<1>1. u = PostMessage(a, "START_FAILED")
        \/ ("respond" \in faults /\ u = PostMessage(b, "START_FAILED"))
  BY DEF RejectSession, Outcomes
<1>2. /\ t \in SessionSet /\ NegotiatingInv(t) /\ UpdateInv(t) /\ OpenInv(t, p)
      /\ TaskInv(t, p) /\ InvitesKept(t, {}) /\ OfferInv(t, p) /\ EndInv(t)
  BY DEF SInv, Held
<1>3. /\ t.ok = {} /\ t.pending = FALSE /\ t.task = 0
      /\ t.upd.conn = "closed" /\ Delayed(t.queue) = {} /\ t.open \subseteq {FirstInvite}
  BY <1>2 DEF NegotiatingInv
<1>4. /\ t.open \ {FirstInvite} \in SUBSET Requests
      /\ CallOnSentFailure(t.call) \in CallStates /\ OaOnFailure(t.oa) \in OaStates
      /\ OaOnFailure(t.oa) \notin {"CHANGE_RECEIVED"}
  BY <1>2, CallStatesClosed DEF SessionSet, OaOnFailure, OaStates
<1>5. /\ a \in SessionSet /\ a.state = "TERMINATED" /\ a.upd = t.upd /\ a.task = 0
      /\ a.pending = FALSE /\ a.open = t.open \ {FirstInvite} /\ a.ok = {}
      /\ a.offers = t.offers /\ a.bye = t.bye /\ a.queue = t.queue /\ a.told = t.told
  BY <1>2, <1>3, <1>4, Values DEF SessionSet, Enter, Answered
<1>6. /\ b \in SessionSet /\ b.state = "TERMINATED" /\ b.upd = t.upd /\ b.task = 0
      /\ b.pending = FALSE /\ b.open = t.open /\ b.ok = {}
      /\ b.offers = t.offers /\ b.bye = t.bye /\ b.queue = t.queue /\ b.told = t.told
  BY <1>2, <1>3, Values DEF SessionSet, Enter
<1> HIDE DEF a, b
<1>7. Held(a, p, {})
  <2>1. NegotiatingInv(a) /\ EstablishingInv(a) /\ UpdateInv(a)
    BY <1>3, <1>5 DEF NegotiatingInv, EstablishingInv, UpdateInv
  <2>2. OpenInv(a, p) /\ TaskInv(a, p)
    BY <1>2, <1>3, <1>5 DEF OpenInv, TaskInv
  <2>3. InvitesKept(a, {}) /\ OfferInv(a, p)
    BY <1>3, <1>5 DEF InvitesKept, OfferInv
  <2> QED
    BY <1>5, <2>1, <2>2, <2>3 DEF Held
<1>8. "respond" \in faults => Held(b, p, {})
  <2>1. NegotiatingInv(b) /\ EstablishingInv(b) /\ UpdateInv(b)
    BY <1>3, <1>6 DEF NegotiatingInv, EstablishingInv, UpdateInv
  <2>2. OpenInv(b, p) /\ TaskInv(b, p)
    BY <1>2, <1>3, <1>6 DEF OpenInv, TaskInv
  <2>3. "respond" \in faults => InvitesKept(b, {}) /\ OfferInv(b, p)
    BY DEF InvitesKept, OfferInv
  <2> QED
    BY <1>6, <2>1, <2>2, <2>3 DEF Held
<1> QED
  BY <1>1, <1>5, <1>6, <1>7, <1>8, PostedInv, Posts

LEMMA RejectUpdateInv ==
    ASSUME NEW t, NEW p \in PeerSet, SInv(t, p), t.pending = FALSE,
           t.state = "RENEGOTIATING", t.upd.conn = "open", NEW u \in RejectUpdate(t)
    PROVE  SInv(u, p)
<1> DEFINE r == t.upd.req
           x == [Answered(t, r) EXCEPT
                    !.upd.responded = TRUE, !.oa = OaOnFailure(@),
                    !.call = IF r.m = "INVITE" THEN CallOnSentFailure(@) ELSE @]
           a == Enter(CloseUpdate(x), "ESTABLISHED")
           b == Enter(CloseUpdate(t), "ESTABLISHED")
<1>0. t.bye # "sent"
  BY DEF SInv, EndInv
<1>1. u = PostMessage(a, "UPDATE_FAILED")
        \/ ("respond" \in faults /\ u = PostMessage(b, "UPDATE_FAILED"))
  BY DEF RejectUpdate, Outcomes
<1>2. /\ t \in SessionSet /\ UpdateInv(t) /\ OpenInv(t, p)
      /\ TaskInv(t, p) /\ InvitesKept(t, {}) /\ OfferInv(t, p) /\ EndInv(t)
  BY DEF SInv, Held
<1>3. /\ r \in t.open /\ r \notin Delayed(t.queue)
      /\ 1 \in t.ok /\ t.call # "INVITE_RECEIVED"
  BY <1>2 DEF UpdateInv, OpenInv
<1>4. /\ t.open \ {r} \in SUBSET Requests
      /\ CallOnSentFailure(t.call) \in CallStates
      /\ CallOnSentFailure(t.call) # "INVITE_RECEIVED"
      /\ OaOnFailure(t.oa) \in OaStates /\ OaOnFailure(t.oa) # "CHANGE_RECEIVED"
      /\ OaOnFailure(t.oa) = "CHANGE_SENT" => t.oa = "CHANGE_SENT"
  BY <1>2, CallStatesClosed DEF SessionSet, OaOnFailure, OaStates
<1>5. /\ a \in SessionSet /\ a.state = "ESTABLISHED" /\ a.oa = OaOnFailure(t.oa)
      /\ a.call \in {t.call, CallOnSentFailure(t.call)}
      /\ a.upd.req = r /\ a.upd.conn = "closed" /\ a.task = t.task
      /\ a.pending = FALSE /\ a.open = t.open \ {r} /\ a.ok = t.ok
      /\ a.offers = t.offers /\ a.bye = t.bye /\ a.queue = t.queue /\ a.told = t.told
  BY <1>2, <1>4, Values DEF SessionSet, Enter, Answered, CloseUpdate
<1>6. /\ b \in SessionSet /\ b.state = "ESTABLISHED" /\ b.call = t.call
      /\ b.upd.req = r /\ b.upd.conn = "closed" /\ b.task = t.task
      /\ b.pending = FALSE /\ b.open = t.open /\ b.ok = t.ok
      /\ b.offers = t.offers /\ b.bye = t.bye /\ b.queue = t.queue /\ b.told = t.told
  BY <1>2, Values DEF SessionSet, Enter, CloseUpdate
<1> HIDE DEF a, b
<1>7. Held(a, p, {})
  <2>1. NegotiatingInv(a) /\ EstablishingInv(a) /\ UpdateInv(a)
    BY <1>5 DEF NegotiatingInv, EstablishingInv, UpdateInv
  <2>2. OpenInv(a, p)
    BY <1>2, <1>3, <1>4, <1>5 DEF OpenInv
  <2>3. TaskInv(a, p)
    BY <1>2, <1>5 DEF TaskInv
  <2>4. InvitesKept(a, {})
    BY <1>2, <1>3, <1>5 DEF InvitesKept, Kept, OpenInv
  <2>5. OfferInv(a, p)
    BY <1>2, <1>4, <1>5 DEF OfferInv
  <2> QED
    BY <1>5, <2>1, <2>2, <2>3, <2>4, <2>5 DEF Held
<1>8. "respond" \in faults => Held(b, p, {})
  <2>1. NegotiatingInv(b) /\ EstablishingInv(b) /\ UpdateInv(b)
    BY <1>6 DEF NegotiatingInv, EstablishingInv, UpdateInv
  <2>2. OpenInv(b, p)
    BY <1>2, <1>3, <1>6 DEF OpenInv
  <2>3. TaskInv(b, p)
    BY <1>2, <1>6 DEF TaskInv
  <2>4. "respond" \in faults => InvitesKept(b, {}) /\ OfferInv(b, p)
    BY DEF InvitesKept, OfferInv
  <2> QED
    BY <1>6, <2>1, <2>2, <2>3, <2>4 DEF Held
<1>9. a.state # "TERMINATED" /\ b.state # "TERMINATED"
  BY <1>5, <1>6
<1> QED
  BY <1>0, <1>1, <1>5, <1>6, <1>7, <1>8, <1>9, PostedInv, Posts

-----------------------------------------------------------------------------
(* The end of a session.                                                   *)

(* Fields the invariant does not look at, or that fall back.               *)
LEMMA HeldSame ==
    ASSUME NEW t, NEW p, NEW but, Held(t, p, but), NEW u \in SessionSet,
           u.state = t.state, u.call = t.call, u.oa = t.oa, u.start = t.start,
           u.upd = t.upd, u.queue = t.queue, u.open = t.open, u.ok = t.ok,
           u.offers = t.offers, u.task \in {t.task, 0}, u.pending \in {t.pending, FALSE}
    PROVE  Held(u, p, but)
<1>1. NegotiatingInv(u) /\ EstablishingInv(u) /\ UpdateInv(u)
  BY DEF Held, NegotiatingInv, EstablishingInv, UpdateInv
<1>2. OpenInv(u, p)
  BY DEF Held, OpenInv
<1>3. TaskInv(u, p)
  BY DEF Held, TaskInv
<1>4. InvitesKept(u, but) /\ OfferInv(u, p)
  BY DEF Held, InvitesKept, Kept, OfferInv
<1> QED
  BY <1>1, <1>2, <1>3, <1>4 DEF Held

(* The retransmission is stopped; a pending Terminate() is taken up.       *)
LEMMA StopInv ==
    ASSUME NEW t, NEW p, NEW but, Held(t, p, but)
    PROVE  LET u == Stop2xxRetransmission(t) IN
           /\ Held(u, p, but) /\ u.task = 0
           /\ u.state = t.state /\ u.call = t.call /\ u.oa = t.oa /\ u.pending = t.pending
           /\ u.start = t.start /\ u.upd = t.upd /\ u.queue = t.queue /\ u.told = t.told
           /\ u.open = t.open /\ u.ok = t.ok /\ u.offers = t.offers /\ u.bye = t.bye
<1> DEFINE u == Stop2xxRetransmission(t)
<1>1. t \in SessionSet
  BY DEF Held
<1>2. /\ u \in SessionSet /\ u.task = 0
      /\ u.state = t.state /\ u.call = t.call /\ u.oa = t.oa /\ u.pending = t.pending
      /\ u.start = t.start /\ u.upd = t.upd /\ u.queue = t.queue /\ u.told = t.told
      /\ u.open = t.open /\ u.ok = t.ok /\ u.offers = t.offers /\ u.bye = t.bye
  BY <1>1, Values DEF SessionSet, Stop2xxRetransmission
<1> HIDE DEF u
<1>3. Held(u, p, but)
  BY <1>2, HeldSame
<1> QED
  BY <1>2, <1>3 DEF u

LEMMA ReleaseInv ==
    ASSUME NEW t, NEW p, NEW but, Held(t, p, but)
    PROVE  LET u == [t EXCEPT !.pending = FALSE] IN
           /\ Held(u, p, but) /\ u.pending = FALSE
           /\ u.state = t.state /\ u.call = t.call /\ u.oa = t.oa /\ u.task = t.task
           /\ u.start = t.start /\ u.upd = t.upd /\ u.queue = t.queue /\ u.told = t.told
           /\ u.open = t.open /\ u.ok = t.ok /\ u.offers = t.offers /\ u.bye = t.bye
<1> DEFINE u == [t EXCEPT !.pending = FALSE]
<1>1. t \in SessionSet
  BY DEF Held
<1>2. /\ u \in SessionSet /\ u.pending = FALSE
      /\ u.state = t.state /\ u.call = t.call /\ u.oa = t.oa /\ u.task = t.task
      /\ u.start = t.start /\ u.upd = t.upd /\ u.queue = t.queue /\ u.told = t.told
      /\ u.open = t.open /\ u.ok = t.ok /\ u.offers = t.offers /\ u.bye = t.bye
  BY <1>1 DEF SessionSet
<1> HIDE DEF u
<1>3. Held(u, p, but)
  BY <1>2, HeldSame
<1> QED
  BY <1>2, <1>3 DEF u

(* What a session must satisfy so that it may end.                         *)
MayEnd(t, p) ==
    /\ t \in SessionSet /\ OpenInv(t, p) /\ t.task = 0
    /\ t.pending => p.terminates > 0
    /\ t.upd.conn = "open" =>
          /\ t.upd.responded = FALSE /\ t.upd.req \in t.open
          /\ t.upd.req \notin Delayed(t.queue)
    /\ t.upd.conn = "answered" => t.upd.responded = TRUE
    /\ faults = {} =>
          \A r \in t.open : r.m = "INVITE" =>
              \/ r = t.upd.req /\ t.upd.conn = "open"
              \/ r \in Delayed(t.queue)

LEMMA HeldMayEnd ==
    ASSUME NEW t, NEW p, Held(t, p, {}), t.task = 0,
           t.state # "NEGOTIATING" \/ faults # {}
    PROVE  MayEnd(t, p)
<1>1. faults = {} =>
         \A r \in t.open : r.m = "INVITE" =>
             \/ r = t.upd.req /\ t.upd.conn = "open"
             \/ r \in Delayed(t.queue)
  BY DEF Held, InvitesKept, Kept
<1> QED
  BY <1>1 DEF Held, UpdateInv, TaskInv, MayEnd

LEMMA EnterEnd ==
    ASSUME NEW t, NEW p, MayEnd(t, p), NEW u \in SessionSet,
           u.state \in {"TERMINATING", "TERMINATED"},
           u.call = t.call, u.pending = t.pending, u.upd = t.upd, u.task = 0,
           u.queue = t.queue, u.open = t.open, u.ok = t.ok, u.offers = t.offers
    PROVE  Held(u, p, {})
<1>1. NegotiatingInv(u) /\ EstablishingInv(u) /\ UpdateInv(u)
  BY DEF MayEnd, NegotiatingInv, EstablishingInv, UpdateInv
<1>2. OpenInv(u, p)
  BY DEF MayEnd, OpenInv
<1>3. TaskInv(u, p)
  BY DEF MayEnd, TaskInv
<1>4. InvitesKept(u, {})
  BY DEF MayEnd, InvitesKept, Kept
<1>5. OfferInv(u, p)
  BY DEF OfferInv
<1> QED
  BY <1>1, <1>2, <1>3, <1>4, <1>5 DEF Held

LEMMA TerminatedInv ==
    ASSUME NEW t, NEW p, MayEnd(t, p)
    PROVE  SInv(Terminated(t), p)
<1> DEFINE u == Enter(t, "TERMINATED")
<1>1. /\ u \in SessionSet /\ u.state = "TERMINATED"
      /\ u.call = t.call /\ u.pending = t.pending /\ u.upd = t.upd /\ u.task = 0
      /\ u.queue = t.queue /\ u.open = t.open /\ u.ok = t.ok /\ u.offers = t.offers
  BY Values DEF MayEnd, SessionSet, Enter
<1> HIDE DEF u
<1>2. Held(u, p, {})
  BY <1>1, EnterEnd
<1> QED
  BY <1>1, <1>2, PostedInv, Posts DEF Terminated, u

LEMMA ByeInv ==
    ASSUME NEW t, NEW p, MayEnd(t, p), NEW u \in SendRequestToBye(t)
    PROVE  SInv(u, p)
<1> DEFINE a == Enter([t EXCEPT !.bye = "sent"], "TERMINATING")
<1>1. u = a \/ u = Terminated(t)
  BY DEF SendRequestToBye
<1>2. /\ a \in SessionSet /\ a.state = "TERMINATING"
      /\ a.call = t.call /\ a.pending = t.pending /\ a.upd = t.upd /\ a.task = 0
      /\ a.queue = t.queue /\ a.open = t.open /\ a.ok = t.ok /\ a.offers = t.offers
  BY Values DEF MayEnd, SessionSet, Enter
<1> HIDE DEF a
<1>3. SInv(a, p)
  BY <1>2, EnterEnd DEF SInv, EndInv
<1> QED
  BY <1>1, <1>3, TerminatedInv

LEMMA PeerKept ==
    ASSUME NEW t, NEW p, NEW q, NEW but, Held(t, p, but),
           q.invites = p.invites, q.updates = p.updates, q.acked = p.acked,
           p.terminates > 0 => q.terminates > 0
    PROVE  Held(t, q, but)
<1>1. OpenInv(t, q) /\ TaskInv(t, q) /\ OfferInv(t, q)
  BY DEF Held, OpenInv, TaskInv, OfferInv
<1> QED
  BY <1>1 DEF Held

(* Terminate() on a session whose INVITE has no answer yet.                *)
LEMMA TerminateOnNegotiatingInv ==
    ASSUME NEW t, NEW p \in PeerSet, Held(t, p, {}), t.task = 0, t.state = "NEGOTIATING",
           NEW u \in TerminateOnNegotiating(t)
    PROVE  SInv(u, p)
<1> DEFINE a == Enter([Answered(t, FirstInvite) EXCEPT
                         !.start = "answered", !.call = CallOnSentFailure(@)], "TERMINATING")
<1>1. u = a \/ ("respond" \in faults /\ u = Terminated(t))
  BY DEF TerminateOnNegotiating, Outcomes
<1>2. /\ t \in SessionSet /\ NegotiatingInv(t) /\ OpenInv(t, p) /\ TaskInv(t, p)
  BY DEF Held
<1>3. /\ t.ok = {} /\ t.pending = FALSE /\ t.upd.conn = "closed"
      /\ Delayed(t.queue) = {} /\ t.open \subseteq {FirstInvite}
  BY <1>2 DEF NegotiatingInv
<1>4. /\ t.open \ {FirstInvite} \in SUBSET Requests
      /\ CallOnSentFailure(t.call) \in CallStates
  BY <1>2, CallStatesClosed DEF SessionSet
<1>5. /\ a \in SessionSet /\ a.state = "TERMINATING" /\ a.upd = t.upd /\ a.task = 0
      /\ a.pending = FALSE /\ a.open = {} /\ a.ok = {}
      /\ a.offers = t.offers /\ a.bye = t.bye /\ a.queue = t.queue
  BY <1>2, <1>3, <1>4, Values DEF SessionSet, Enter, Answered
<1> HIDE DEF a
<1>6. Held(a, p, {})
  <2>1. NegotiatingInv(a) /\ EstablishingInv(a) /\ UpdateInv(a)
    BY <1>3, <1>5 DEF NegotiatingInv, EstablishingInv, UpdateInv
  <2>2. OpenInv(a, p) /\ TaskInv(a, p)
    BY <1>2, <1>3, <1>5 DEF OpenInv, TaskInv
  <2>3. InvitesKept(a, {}) /\ OfferInv(a, p)
    BY <1>5 DEF InvitesKept, OfferInv
  <2> QED
    BY <1>5, <2>1, <2>2, <2>3 DEF Held
<1>7. SInv(a, p)
  BY <1>5, <1>6 DEF SInv, EndInv
<1>8. "respond" \in faults => SInv(Terminated(t), p)
  BY HeldMayEnd, TerminatedInv
<1> QED
  BY <1>1, <1>7, <1>8

(* Terminate() while the application is asked about an update.             *)
LEMMA TerminateOnReNegotiatingInv ==
    ASSUME NEW t, NEW p \in PeerSet, Held(t, p, {}), t.task = 0, t.state = "RENEGOTIATING",
           NEW u \in TerminateOnReNegotiating(t)
    PROVE  SInv(u, p)
<1> DEFINE r == t.upd.req
           a == [Answered(t, r) EXCEPT
                    !.upd.conn = "answered", !.upd.responded = TRUE,
                    !.call = IF r.m = "INVITE" THEN CallOnSentFailure(@) ELSE @]
<1>1. u = Terminated(t) \/ (t.upd.conn # "closed" /\ u \in SendRequestToBye(a))
  BY DEF TerminateOnReNegotiating
<1>2. SInv(Terminated(t), p)
  BY HeldMayEnd, TerminatedInv
<1>3. ASSUME t.upd.conn # "closed"
      PROVE  MayEnd(a, p)
  <2>1. /\ t \in SessionSet /\ UpdateInv(t) /\ OpenInv(t, p)
        /\ TaskInv(t, p) /\ InvitesKept(t, {})
    BY DEF Held
  <2>2. t.upd.conn = "open" /\ r \in t.open /\ r \notin Delayed(t.queue)
    BY <1>3, <2>1 DEF UpdateInv, SessionSet, Connections
  <2>3. /\ t.open \ {r} \in SUBSET Requests
        /\ CallOnSentFailure(t.call) \in CallStates
        /\ CallOnSentFailure(t.call) # "INVITE_RECEIVED"
    BY <2>1, CallStatesClosed DEF SessionSet
  <2>4. /\ a \in SessionSet /\ a.state = "RENEGOTIATING" /\ a.task = 0
        /\ a.call \in {t.call, CallOnSentFailure(t.call)}
        /\ a.upd.req = r /\ a.upd.conn = "answered" /\ a.upd.responded = TRUE
        /\ a.pending = t.pending /\ a.open = t.open \ {r} /\ a.ok = t.ok
        /\ a.offers = t.offers /\ a.bye = t.bye /\ a.queue = t.queue
    BY <2>1, <2>3, Values DEF SessionSet, Answered
  <2> HIDE DEF a
  <2>5. OpenInv(a, p)
    BY <2>1, <2>2, <2>3, <2>4 DEF OpenInv
  <2>6. faults = {} => \A q \in a.open : q.m = "INVITE" => q \in Delayed(a.queue)
    BY <2>1, <2>2, <2>4 DEF InvitesKept, Kept
  <2> QED
    BY <2>1, <2>4, <2>5, <2>6 DEF MayEnd, TaskInv
<1> QED
  BY <1>1, <1>2, <1>3, ByeInv

LEMMA TerminateInv ==
    ASSUME NEW t, NEW p \in PeerSet, SInv(t, p), p.terminates > 0, NEW u \in Terminate(t)
    PROVE  SInv(u, p)
<1> DEFINE x == Stop2xxRetransmission(t)
           a == [x EXCEPT !.pending = TRUE]
<1>0. t.bye = "sent" => t.state \in {"TERMINATING", "TERMINATED"}
  BY DEF SInv, EndInv
<1>1. Held(x, p, {}) /\ x.task = 0 /\ x.state = t.state /\ x.bye = t.bye
  BY StopInv DEF SInv
<1>2. \/ x.state = "NEGOTIATING" /\ u \in TerminateOnNegotiating(x)
      \/ x.state = "ESTABLISHED" /\ u \in SendRequestToBye(x)
      \/ x.state = "RENEGOTIATING" /\ u \in TerminateOnReNegotiating(x)
      \/ x.state \in {"ESTABLISHING", "REESTABLISHING"} /\ u = a
  BY DEF Terminate
<1> HIDE DEF x
<1>3. CASE x.state \in {"ESTABLISHING", "REESTABLISHING"} /\ u = a
  <2>1. x \in SessionSet
    BY <1>1 DEF Held
  <2>2. /\ a \in SessionSet /\ a.pending = TRUE
        /\ a.state = x.state /\ a.call = x.call /\ a.oa = x.oa /\ a.task = 0
        /\ a.start = x.start /\ a.upd = x.upd /\ a.queue = x.queue
        /\ a.open = x.open /\ a.ok = x.ok /\ a.offers = x.offers /\ a.bye = x.bye
    BY <1>1, <2>1 DEF SessionSet
  <2> HIDE DEF a
  <2>3. NegotiatingInv(a) /\ EstablishingInv(a) /\ UpdateInv(a)
    BY <1>1, <1>3, <2>2 DEF Held, NegotiatingInv, EstablishingInv, UpdateInv
  <2>4. OpenInv(a, p)
    BY <1>1, <1>3, <2>2 DEF Held, OpenInv
  <2>5. TaskInv(a, p)
    BY <1>1, <2>2 DEF TaskInv
  <2>6. InvitesKept(a, {}) /\ OfferInv(a, p)
    BY <1>1, <2>2 DEF Held, InvitesKept, Kept, OfferInv
  <2>7. EndInv(a)
    BY <1>0, <1>1, <1>3, <2>2 DEF EndInv
  <2> QED
    BY <1>3, <2>2, <2>3, <2>4, <2>5, <2>6, <2>7 DEF Held, SInv
<1> QED
  BY <1>1, <1>2, <1>3, TerminateOnNegotiatingInv, TerminateOnReNegotiatingInv,
     HeldMayEnd, ByeInv

-----------------------------------------------------------------------------
(* Requests of the peer.                                                   *)

(* The request in hand gets a final response that is not a 2xx.            *)
LEMMA RefuseInv ==
    ASSUME NEW t, NEW p, NEW r, Held(t, p, {r}), EndInv(t), InHand(t, r),
           NEW u \in {Answered(t, r), Refuse(t, r)}
    PROVE  SInv(u, p)
<1>1. /\ t \in SessionSet /\ EstablishingInv(t) /\ UpdateInv(t) /\ OpenInv(t, p)
      /\ TaskInv(t, p) /\ InvitesKept(t, {r}) /\ OfferInv(t, p)
  BY DEF Held
<1>2. /\ t.open \ {r} \in SUBSET Requests
      /\ CallOnSentFailure(t.call) \in CallStates
      /\ CallOnSentFailure(t.call) # "INVITE_RECEIVED"
      /\ CallOnSentFailure("INVITE_2XX_SENT") = "INVITE_2XX_SENT"
  BY <1>1, CallStatesClosed DEF SessionSet, CallOnSentFailure
<1>3. /\ u \in SessionSet /\ u.state = t.state /\ u.oa = t.oa
      /\ u.call \in {t.call, CallOnSentFailure(t.call)}
      /\ u.pending = t.pending /\ u.start = t.start /\ u.upd = t.upd /\ u.task = t.task
      /\ u.queue = t.queue /\ u.told = t.told
      /\ u.open = t.open \ {r} /\ u.ok = t.ok /\ u.offers = t.offers /\ u.bye = t.bye
  BY <1>1, <1>2, ZenonT(60) DEF SessionSet, Answered, Refuse
<1>4. NegotiatingInv(u) /\ EstablishingInv(u) /\ UpdateInv(u)
  BY <1>1, <1>2, <1>3 DEF InHand, NegotiatingInv, EstablishingInv, UpdateInv
<1>5. OpenInv(u, p)
  BY <1>1, <1>2, <1>3 DEF InHand, OpenInv
<1>6. TaskInv(u, p)
  BY <1>1, <1>3 DEF TaskInv
<1>7. InvitesKept(u, {})
  BY <1>1, <1>3 DEF InvitesKept, Kept
<1>8. OfferInv(u, p)
  BY <1>1, <1>3 DEF OfferInv
<1>9. EndInv(u)
  BY <1>3 DEF EndInv
<1> QED
  BY <1>3, <1>4, <1>5, <1>6, <1>7, <1>8, <1>9 DEF Held, SInv

(* What is left of the session when the ACK has been overtaken.            *)
LEMMA OvertakeAckFacts ==
    ASSUME NEW t \in SessionSet
    PROVE  LET o == OvertakeAck(t) IN
           /\ o \in SessionSet
           /\ Delayed(o.queue) = Delayed(t.queue)
           /\ DelayedOnce(t.queue) => DelayedOnce(o.queue)
           /\ o.state = t.state /\ o.call = t.call /\ o.oa = t.oa
           /\ o.pending = t.pending /\ o.upd.req = t.upd.req
           /\ o.upd.responded = t.upd.responded
           /\ o.upd.conn \in {t.upd.conn, "closed"} /\ o.task \in {t.task, 0}
           /\ t.state \in {"ESTABLISHED", "RENEGOTIATING"} => o = t
           /\ t.state = "ESTABLISHING" => o.task = 0
           /\ t.state = "REESTABLISHING" /\ t.upd.req.m = "INVITE" =>
                 o.task = 0 /\ o.upd.conn = "closed"
           /\ o.open = t.open /\ o.ok = t.ok /\ o.offers = t.offers /\ o.bye = t.bye
<1> DEFINE o == OvertakeAck(t)
           a == [Stop2xxRetransmission(t) EXCEPT !.start = "closed"]
           b == PostMessage(Stop2xxRetransmission(t), "UPDATED")
           c == CloseUpdate(Stop2xxRetransmission(t))
<1>1. CASE t.state = "ESTABLISHING"
  <2>1. o = PostMessage(a, "STARTED")
    BY <1>1 DEF OvertakeAck
  <2>2. /\ a \in SessionSet /\ a.state = t.state /\ a.call = t.call /\ a.oa = t.oa
        /\ a.pending = t.pending /\ a.upd = t.upd /\ a.task = 0 /\ a.queue = t.queue
        /\ a.open = t.open /\ a.ok = t.ok /\ a.offers = t.offers /\ a.bye = t.bye
    BY Values DEF SessionSet, Stop2xxRetransmission
  <2> HIDE DEF a
  <2> QED
    BY <1>1, <2>1, <2>2, Posted, Posts
<1>2. CASE t.state = "REESTABLISHING" /\ t.upd.req.m = "INVITE"
  <2>1. o = PostMessage(c, "UPDATED")
    BY <1>2 DEF OvertakeAck
  <2>2. /\ c \in SessionSet /\ c.state = t.state /\ c.call = t.call /\ c.oa = t.oa
        /\ c.pending = t.pending /\ c.upd.req = t.upd.req /\ c.upd.conn = "closed"
        /\ c.upd.responded = t.upd.responded /\ c.task = 0 /\ c.queue = t.queue
        /\ c.open = t.open /\ c.ok = t.ok /\ c.offers = t.offers /\ c.bye = t.bye
    BY Values DEF SessionSet, Stop2xxRetransmission, CloseUpdate
  <2> HIDE DEF c
  <2> QED
    BY <1>2, <2>1, <2>2, Posted, Posts
<1>3. CASE ~(t.state = "ESTABLISHING")
             /\ ~(t.state = "REESTABLISHING" /\ t.upd.req.m = "INVITE")
  <2>1. o = t
    BY <1>3 DEF OvertakeAck
  <2> QED
    BY <1>3, <2>1
<1> QED
  BY <1>1, <1>2, <1>3

(* The request in hand goes to the application.  The session o is what     *)
(* OvertakeAck left of t, with the new offer noted.                        *)
LEMMA PutToUserInv ==
    ASSUME NEW t, NEW p \in PeerSet, NEW r \in Requests, Held(t, p, {r}), EndInv(t),
           InHand(t, r), NEW o \in SessionSet,
           Delayed(o.queue) = Delayed(t.queue), DelayedOnce(o.queue),
           o.call # "INVITE_RECEIVED", o.oa \in {t.oa, OaOnOffer(t.oa)},
           o.pending = t.pending, o.open = t.open, o.ok = t.ok,
           o.offers = t.offers, o.bye = t.bye,
           o.upd.req = t.upd.req, o.upd.responded = t.upd.responded,
           o.upd.conn \in {t.upd.conn, "closed"}, o.task \in {t.task, 0},
           t.upd.conn = "open" => o.upd.conn = "open",
           t.state \in {"ESTABLISHING", "ESTABLISHED", "RENEGOTIATING", "REESTABLISHING"},
           r.m = "INVITE" => /\ t.state # "RENEGOTIATING"
                             /\ t.state = "ESTABLISHING" => o.task = 0,
           r.m = "UPDATE" => /\ t.state # "REESTABLISHING"
                             /\ t.upd.req.m = "INVITE" => t.upd.responded = TRUE,
           t.state = "REESTABLISHING" => o.task = 0
    PROVE  SInv(PutToUser(o, r), p)
<1> DEFINE w == Enter(UpdateRequestOnReceived(o, r), "RENEGOTIATING")
           new == [req |-> r, conn |-> "open", responded |-> FALSE]
<1>0. t.bye # "sent"
  BY DEF EndInv
<1>1. /\ t \in SessionSet /\ EstablishingInv(t) /\ UpdateInv(t) /\ OpenInv(t, p)
      /\ TaskInv(t, p) /\ InvitesKept(t, {r}) /\ OfferInv(t, p)
  BY DEF Held
<1>2. /\ new \in [req : Requests \cup {NoReq}, conn : Connections, responded : BOOLEAN]
      /\ new.req = r /\ new.conn = "open" /\ new.responded = FALSE
  BY Values
<1>3. /\ w \in SessionSet /\ w.state = "RENEGOTIATING"
      /\ w.upd = IF o.upd.req # NoReq /\ ~o.upd.responded /\ o.upd.conn # "closed"
                 THEN o.upd ELSE new
      /\ w.call = o.call /\ w.oa = o.oa /\ w.pending = o.pending /\ w.task = o.task
      /\ w.queue = o.queue /\ w.open = o.open /\ w.ok = o.ok /\ w.offers = o.offers
      /\ w.bye = o.bye
  BY <1>2, Values DEF SessionSet, Enter, UpdateRequestOnReceived
<1>4. r \in t.open /\ r \notin Delayed(t.queue) /\ (t.upd.conn = "open" => t.upd.req # r)
  BY DEF InHand
<1>5. \/ w.upd = new /\ t.upd.conn # "open"
      \/ /\ w.upd = o.upd /\ t.upd.conn = "open" /\ o.upd.conn = "open"
         /\ t.upd.responded = FALSE
  <2>1. t.upd.conn \in Connections /\ o.upd.conn \in Connections
    BY <1>1 DEF SessionSet
  <2>2. t.upd.conn = "open" => t.upd.req # NoReq /\ t.upd.responded = FALSE
    BY <1>1, RequestFacts DEF UpdateInv, OpenInv, SessionSet
  <2>3. t.upd.conn = "answered" => t.upd.responded = TRUE
    BY <1>1 DEF UpdateInv
  <2> QED
    BY <1>3, <2>1, <2>2, <2>3 DEF Connections
<1> HIDE DEF w, new
<1>6. r.m \in {"INVITE", "UPDATE"} /\ r # NoReq
  BY RequestFacts
<1>7. Held(w, p, {})
  <2>1. NegotiatingInv(w) /\ EstablishingInv(w)
    BY <1>3 DEF NegotiatingInv, EstablishingInv
  <2>2. UpdateInv(w)
    BY <1>1, <1>2, <1>3, <1>4, <1>5, <1>6, RequestFacts DEF UpdateInv, SessionSet
  <2>3. OpenInv(w, p)
    BY <1>1, <1>3 DEF OpenInv
  <2>4. TaskInv(w, p)
    <3>1. w.pending => w.task = 0 /\ p.terminates > 0
      BY <1>1, <1>3 DEF TaskInv
    <3>2. w.task = 0 \/ w.task = 1
      BY <1>1, <1>3 DEF TaskInv
    <3>3. w.upd.conn = "open"
      BY <1>2, <1>5
    <3> QED
      BY <1>3, <3>1, <3>2, <3>3 DEF TaskInv
  <2>5. InvitesKept(w, {})
    <3> SUFFICES ASSUME faults = {}, NEW q \in w.open, q.m = "INVITE"
                 PROVE  Kept(w, q)
      BY DEF InvitesKept
    <3>1. CASE q = r
      <4>1. t.upd.conn # "open"
        <5>1. ASSUME t.upd.conn = "open"
              PROVE  FALSE
          <6>1. t.upd.req \in t.open /\ t.upd.req # r /\ t.upd.responded = FALSE
            BY <1>1, <1>4, <5>1 DEF UpdateInv
          <6>2. t.upd.req.m # "INVITE"
            BY <1>1, <1>4, <3>1, <6>1 DEF OpenInv
          <6>3. t.state \in {"RENEGOTIATING", "TERMINATING", "TERMINATED"}
            BY <1>1, <5>1, <6>2 DEF UpdateInv
          <6> QED
            BY <3>1, <6>3
        <5> QED
          BY <5>1
      <4> QED
        BY <1>2, <1>5, <3>1, <4>1 DEF Kept
    <3>2. CASE q # r
      <4>1. Kept(t, q)
        BY <1>1, <1>3, <3>2 DEF InvitesKept
      <4> QED
        BY <1>3, <1>5, <4>1 DEF Kept
    <3> QED
      BY <3>1, <3>2
  <2>6. OfferInv(w, p)
    <3> SUFFICES ASSUME faults = {}, w.oa = "CHANGE_SENT"
                 PROVE  \E n \in w.offers : n < p.invites
      BY <1>3 DEF OfferInv
    <3>1. t.oa = "CHANGE_SENT"
      BY <1>3 DEF OaOnOffer
    <3>2. CASE t.state = "REESTABLISHING" /\ t.upd.req.n \in t.offers
      <4>1. r.m = "INVITE" /\ r.n = p.invites /\ r.n \notin t.ok /\ t.upd.req.n \in t.ok
        BY <1>1, <1>4, <1>6, <3>2 DEF OpenInv
      <4>2. t.upd.req.n <= p.invites /\ t.upd.req.n # p.invites
        BY <1>1, <4>1 DEF OpenInv
      <4>3. t.upd.req.n < p.invites
        BY <1>1, <4>1, <4>2 DEF SessionSet, PeerSet
      <4> QED
        BY <1>3, <3>2, <4>3
    <3> QED
      BY <1>1, <1>3, <3>1, <3>2 DEF OfferInv
  <2> QED
    BY <1>3, <2>1, <2>2, <2>3, <2>4, <2>5, <2>6 DEF Held
<1>8. w.state # "TERMINATED"
  BY <1>3
<1> QED
  BY <1>0, <1>3, <1>7, <1>8, PostedInv, Posts DEF PutToUser, w

LEMMA HandleRequestToInviteInv ==
    ASSUME NEW t0, NEW p \in PeerSet, NEW r \in Requests, r.m = "INVITE",
           Held(t0, p, {r}), EndInv(t0), InHand(t0, r),
           NEW u \in HandleRequestToInviteWithinDialog(t0, r)
    PROVE  SInv(u, p)
<1> DEFINE t == [t0 EXCEPT !.call = CallOnInvite(@)]
           x == [t EXCEPT !.oa = IF r.sdp THEN OaOnOffer(@) ELSE @]
           o == OvertakeAck(x)
<1>1. \/ u \in {Answered(t, r), Refuse(t, r)}
      \/ /\ t.state \notin {"TERMINATING", "TERMINATED", "NEGOTIATING", "RENEGOTIATING"}
         /\ u = PutToUser(o, r)
  BY DEF HandleRequestToInviteWithinDialog
<1>2. /\ t0 \in SessionSet /\ EstablishingInv(t0) /\ UpdateInv(t0) /\ OpenInv(t0, p)
      /\ TaskInv(t0, p) /\ InvitesKept(t0, {r}) /\ OfferInv(t0, p)
  BY DEF Held
<1>3. /\ CallOnInvite(t0.call) \in CallStates
      /\ t0.call # "INVITE_RECEIVED" => CallOnInvite(t0.call) # "INVITE_RECEIVED"
      /\ CallOnInvite("INVITE_2XX_SENT") = "INVITE_2XX_SENT"
  BY <1>2, CallStatesClosed DEF SessionSet, CallOnInvite
<1>4. /\ t \in SessionSet /\ t.state = t0.state /\ t.call = CallOnInvite(t0.call)
      /\ t.oa = t0.oa /\ t.pending = t0.pending /\ t.start = t0.start /\ t.upd = t0.upd
      /\ t.task = t0.task /\ t.queue = t0.queue /\ t.told = t0.told
      /\ t.open = t0.open /\ t.ok = t0.ok /\ t.offers = t0.offers /\ t.bye = t0.bye
  BY <1>2, <1>3 DEF SessionSet
<1> HIDE DEF t
<1>5. Held(t, p, {r}) /\ EndInv(t) /\ InHand(t, r)
  <2>1. NegotiatingInv(t) /\ EstablishingInv(t) /\ UpdateInv(t)
    BY <1>2, <1>3, <1>4 DEF InHand, NegotiatingInv, EstablishingInv, UpdateInv
  <2>2. OpenInv(t, p)
    BY <1>2, <1>3, <1>4 DEF OpenInv
  <2>3. TaskInv(t, p) /\ InvitesKept(t, {r}) /\ OfferInv(t, p)
    BY <1>2, <1>4 DEF TaskInv, InvitesKept, Kept, OfferInv
  <2> QED
    BY <1>4, <2>1, <2>2, <2>3 DEF Held, EndInv, InHand
<1>6. ASSUME t.state \notin {"TERMINATING", "TERMINATED", "NEGOTIATING", "RENEGOTIATING"}
      PROVE  SInv(PutToUser(o, r), p)
  <2>1. t.state \in {"ESTABLISHING", "ESTABLISHED", "REESTABLISHING"}
    BY <1>4, <1>6 DEF SessionSet, States
  <2>2. OaOnOffer(t.oa) \in OaStates
    BY <1>4, Values DEF SessionSet, OaOnOffer
  <2>3. /\ x \in SessionSet /\ x.state = t.state /\ x.call = t.call
        /\ x.oa \in {t.oa, OaOnOffer(t.oa)}
        /\ x.pending = t.pending /\ x.upd = t.upd /\ x.task = t.task /\ x.queue = t.queue
        /\ x.open = t.open /\ x.ok = t.ok /\ x.offers = t.offers /\ x.bye = t.bye
    BY <1>4, <2>2 DEF SessionSet
  <2> HIDE DEF x
  <2>4. /\ o \in SessionSet
        /\ Delayed(o.queue) = Delayed(x.queue)
        /\ DelayedOnce(x.queue) => DelayedOnce(o.queue)
        /\ o.call = x.call /\ o.oa = x.oa
        /\ o.pending = x.pending /\ o.upd.req = x.upd.req
        /\ o.upd.responded = x.upd.responded
        /\ o.upd.conn \in {x.upd.conn, "closed"} /\ o.task \in {x.task, 0}
        /\ x.state = "ESTABLISHED" => o = x
        /\ x.state = "ESTABLISHING" => o.task = 0
        /\ x.state = "REESTABLISHING" /\ x.upd.req.m = "INVITE" => o.task = 0
        /\ o.open = x.open /\ o.ok = x.ok /\ o.offers = x.offers /\ o.bye = x.bye
    BY <2>3, OvertakeAckFacts
  <2> HIDE DEF o
  <2>5. UpdateInv(t) /\ EstablishingInv(t) /\ OpenInv(t, p)
    BY <1>5 DEF Held
  <2>6. t.upd.conn = "open" => o.upd.conn = "open"
    BY <2>1, <2>3, <2>4, <2>5 DEF UpdateInv, EstablishingInv
  <2>7. o.call # "INVITE_RECEIVED" /\ DelayedOnce(o.queue)
    BY <2>1, <2>3, <2>4, <2>5 DEF OpenInv
  <2>8. t.state = "REESTABLISHING" => o.task = 0
    BY <2>3, <2>4, <2>5 DEF UpdateInv
  <2>9. t.state \in {"ESTABLISHING", "ESTABLISHED", "RENEGOTIATING", "REESTABLISHING"}
    BY <2>1
  <2>10. t.state # "RENEGOTIATING" /\ (t.state = "ESTABLISHING" => o.task = 0)
    BY <2>1, <2>3, <2>4
  <2>11. r.m # "UPDATE"
    OBVIOUS
  <2> QED
    BY <1>5, <2>3, <2>4, <2>6, <2>7, <2>8, <2>9, <2>10, <2>11, PutToUserInv
<1> QED
  BY <1>1, <1>5, <1>6, RefuseInv

LEMMA HandleRequestToUpdateInv ==
    ASSUME NEW t, NEW p \in PeerSet, NEW r \in Requests, r.m = "UPDATE",
           Held(t, p, {r}), EndInv(t), InHand(t, r),
           NEW u \in HandleRequestToUpdate(t, r)
    PROVE  SInv(u, p)
<1> DEFINE o == [t EXCEPT !.oa = IF r.sdp THEN OaOnOffer(@) ELSE @]
<1>1. \/ u = Answered(t, r)
      \/ /\ t.state \notin {"TERMINATING", "TERMINATED"}
         /\ t.upd.req.m = "INVITE" => t.upd.responded /\ t.state # "REESTABLISHING"
         /\ u = PutToUser(o, r)
  BY DEF HandleRequestToUpdate
<1>2. /\ t \in SessionSet /\ UpdateInv(t) /\ OpenInv(t, p) /\ t.state # "NEGOTIATING"
  BY DEF Held, InHand
<1>3. ASSUME t.state \notin {"TERMINATING", "TERMINATED"},
             t.upd.req.m = "INVITE" => t.upd.responded /\ t.state # "REESTABLISHING"
      PROVE  SInv(PutToUser(o, r), p)
  <2>1. OaOnOffer(t.oa) \in OaStates
    BY <1>2, Values DEF SessionSet, OaOnOffer
  <2>2. /\ o \in SessionSet /\ o.state = t.state /\ o.call = t.call
        /\ o.oa \in {t.oa, OaOnOffer(t.oa)}
        /\ o.pending = t.pending /\ o.upd = t.upd /\ o.task = t.task /\ o.queue = t.queue
        /\ o.open = t.open /\ o.ok = t.ok /\ o.offers = t.offers /\ o.bye = t.bye
    BY <1>2, <2>1 DEF SessionSet
  <2> HIDE DEF o
  <2>3. t.state \in {"ESTABLISHING", "ESTABLISHED", "RENEGOTIATING"}
    BY <1>2, <1>3 DEF SessionSet, States, UpdateInv
  <2>4. /\ t.state \in {"ESTABLISHING", "ESTABLISHED", "RENEGOTIATING", "REESTABLISHING"}
        /\ t.state # "REESTABLISHING"
    BY <2>3
  <2>5. o.call # "INVITE_RECEIVED" /\ DelayedOnce(o.queue)
    BY <1>2, <2>2, <2>3 DEF OpenInv
  <2>6. t.upd.req.m = "INVITE" => t.upd.responded = TRUE
    BY <1>2, <1>3 DEF SessionSet
  <2>7. r.m # "INVITE"
    OBVIOUS
  <2> QED
    BY <2>2, <2>4, <2>5, <2>6, <2>7, PutToUserInv
<1> QED
  BY <1>1, <1>3, RefuseInv

(* A request that arrives or was delayed is handled, or waits in the queue.*)
LEMMA NotifyRequestInv ==
    ASSUME NEW t, NEW p \in PeerSet, NEW r \in Requests,
           Held(t, p, {r}), EndInv(t), InHand(t, r),
           NEW u \in Dialog_NotifyRequest(t, r)
    PROVE  SInv(u, p)
<1> DEFINE e == [name |-> "DELAYED", req |-> r]
           q == Append(t.queue, e)
           a == [t EXCEPT !.queue = Append(@, e)]
<1>1. \/ u = a
      \/ r.m = "INVITE" /\ u \in HandleRequestToInviteWithinDialog(t, r)
      \/ r.m # "INVITE" /\ u \in HandleRequestToUpdate(t, r)
  BY DEF Dialog_NotifyRequest
<1>2. r.m \in {"INVITE", "UPDATE"}
  BY RequestFacts
<1>3. /\ t \in SessionSet /\ EstablishingInv(t) /\ UpdateInv(t) /\ OpenInv(t, p)
      /\ TaskInv(t, p) /\ InvitesKept(t, {r}) /\ OfferInv(t, p)
  BY DEF Held
<1>4. e \in Msg /\ t.queue \in Seq(Msg)
  BY <1>3 DEF Msg, Messages, SessionSet
<1>5. /\ q \in Seq(Msg) /\ Names(q) = Names(t.queue) \cup {"DELAYED"}
      /\ Delayed(q) = Delayed(t.queue) \cup {r} /\ DelayedOnce(q)
  <2>1. e.name = "DELAYED" /\ e.req = r /\ r \notin Delayed(t.queue)
        /\ DelayedOnce(t.queue)
    BY <1>3 DEF InHand, OpenInv
  <2> HIDE DEF e
  <2> QED
    BY <1>4, <2>1, AppendQueue
<1>6. /\ a \in SessionSet /\ a.state = t.state /\ a.call = t.call /\ a.oa = t.oa
      /\ a.pending = t.pending /\ a.start = t.start /\ a.upd = t.upd /\ a.task = t.task
      /\ a.queue = q /\ a.told = t.told
      /\ a.open = t.open /\ a.ok = t.ok /\ a.offers = t.offers /\ a.bye = t.bye
  BY <1>3, <1>5 DEF SessionSet
<1> HIDE DEF a, q, e
<1>7. SInv(a, p)
  <2>1. NegotiatingInv(a) /\ EstablishingInv(a) /\ UpdateInv(a)
    BY <1>3, <1>5, <1>6 DEF InHand, NegotiatingInv, EstablishingInv, UpdateInv
  <2>2. OpenInv(a, p)
    BY <1>3, <1>5, <1>6 DEF InHand, OpenInv
  <2>3. TaskInv(a, p) /\ OfferInv(a, p)
    BY <1>3, <1>6 DEF TaskInv, OfferInv
  <2>4. InvitesKept(a, {})
    BY <1>3, <1>5, <1>6 DEF InvitesKept, Kept
  <2>5. EndInv(a)
    BY <1>5, <1>6 DEF EndInv
  <2> QED
    BY <1>6, <2>1, <2>2, <2>3, <2>4, <2>5 DEF Held, SInv
<1> QED
  BY <1>1, <1>2, <1>7, HandleRequestToInviteInv, HandleRequestToUpdateInv

(* The ACK of the INVITE n arrives: q is the peer that has sent it.        *)
LEMMA HandleRequestToAckInv ==
    ASSUME NEW t0, NEW p \in PeerSet, SInv(t0, p), NEW n \in t0.ok \ p.acked,
           NEW q \in PeerSet, q.acked = p.acked \cup {n}, q.invites = p.invites,
           q.updates = p.updates, q.terminates = p.terminates,
           NEW u \in HandleRequestToAck(t0, n, n \in t0.offers)
    PROVE  SInv(u, q)
<1> DEFINE sdp == n \in t0.offers
           t == [t0 EXCEPT !.call = CallOnAck(@)]
           a == [t EXCEPT !.oa = IF sdp /\ @ = "CHANGE_SENT" THEN "ESTABLISHED" ELSE @]
           b == [a EXCEPT !.pending = FALSE]
           x(state) == [Stop2xxRetransmission(a) EXCEPT !.state = state, !.notif = TRUE]
           updated(state) == CloseUpdate(PostMessage(x(state), "UPDATED"))
           y(state) == [Stop2xxRetransmission(a) EXCEPT !.state = state, !.start = "closed"]
           started(state) == PostMessage(y(state), "STARTED")
<1>0. t0.bye = "sent" => t0.state \in {"TERMINATING", "TERMINATED"}
  BY DEF SInv, EndInv
<1>1. /\ t0 \in SessionSet /\ NegotiatingInv(t0) /\ EstablishingInv(t0) /\ UpdateInv(t0)
      /\ OpenInv(t0, p) /\ TaskInv(t0, p) /\ InvitesKept(t0, {}) /\ OfferInv(t0, p)
      /\ EndInv(t0)
  BY DEF SInv, Held
<1>2. /\ t0.state # "NEGOTIATING" /\ n \in t0.ok
      /\ t0.call # "INVITE_RECEIVED" \/ 1 \notin t0.ok
  BY <1>1 DEF NegotiatingInv, OpenInv
<1>3. /\ CallOnAck(t0.call) \in CallStates
      /\ t0.call # "INVITE_RECEIVED" => CallOnAck(t0.call) # "INVITE_RECEIVED"
  BY <1>1, CallStatesClosed DEF SessionSet
<1>4. /\ t \in SessionSet /\ t.state = t0.state /\ t.call = CallOnAck(t0.call)
      /\ t.oa = t0.oa /\ t.pending = t0.pending /\ t.start = t0.start /\ t.upd = t0.upd
      /\ t.task = t0.task /\ t.queue = t0.queue /\ t.told = t0.told
      /\ t.open = t0.open /\ t.ok = t0.ok /\ t.offers = t0.offers /\ t.bye = t0.bye
  BY <1>1, <1>3 DEF SessionSet
<1>5. /\ a \in SessionSet /\ a.state = t0.state /\ a.call = CallOnAck(t0.call)
      /\ a.oa = IF sdp /\ t0.oa = "CHANGE_SENT" THEN "ESTABLISHED" ELSE t0.oa
      /\ a.pending = t0.pending /\ a.start = t0.start /\ a.upd = t0.upd
      /\ a.task = t0.task /\ a.queue = t0.queue /\ a.told = t0.told
      /\ a.open = t0.open /\ a.ok = t0.ok /\ a.offers = t0.offers /\ a.bye = t0.bye
  <2> HIDE DEF t
  <2> QED
    BY <1>4, Values DEF SessionSet
<1>6. \/ IsStrayAck(t, n) /\ u = t
      \/ a.pending /\ u \in SendRequestToBye(b)
      \/ ~a.pending /\ a.state = "ESTABLISHING" /\ u = started("ESTABLISHED")
      \/ ~IsStrayAck(t, n) /\ ~a.pending /\ a.state = "REESTABLISHING"
            /\ u = updated("ESTABLISHED")
      \/ /\ ~IsStrayAck(t, n) /\ ~a.pending /\ a.state = "RENEGOTIATING"
         /\ u = updated(a.state) \/ u = started(a.state)
      \/ a.state = "TERMINATING" /\ u = Terminated(a)
      \/ a.state \notin {"ESTABLISHING", "REESTABLISHING", "RENEGOTIATING", "TERMINATING"}
            /\ u = a
  BY <1>5 DEF HandleRequestToAck
<1> HIDE DEF t, a
<1>7. OpenInv(t, q) /\ OpenInv(a, q)
  BY <1>1, <1>3, <1>4, <1>5 DEF OpenInv
<1>8. OfferInv(t, q) /\ InvitesKept(t, {}) /\ InvitesKept(a, {})
  BY <1>1, <1>4, <1>5 DEF OfferInv, InvitesKept, Kept
<1>9. CASE IsStrayAck(t, n) /\ u = t
  <2>1. NegotiatingInv(t) /\ EstablishingInv(t) /\ UpdateInv(t)
    BY <1>1, <1>4, <1>9 DEF NegotiatingInv, EstablishingInv, UpdateInv, IsStrayAck
  <2>2. TaskInv(t, q)
    BY <1>1, <1>4, <1>9 DEF TaskInv, IsStrayAck
  <2> QED
    BY <1>1, <1>4, <1>7, <1>8, <1>9, <2>1, <2>2 DEF Held, SInv, EndInv
<1>10. a.task = 0 => MayEnd(a, q)
  BY <1>1, <1>2, <1>5, <1>7, <1>8 DEF MayEnd, UpdateInv, TaskInv, InvitesKept, Kept
<1>11. CASE a.pending /\ u \in SendRequestToBye(b)
  <2>1. a.task = 0
    BY <1>1, <1>5, <1>11 DEF TaskInv
  <2>2. /\ b \in SessionSet /\ b.state = a.state /\ b.call = a.call /\ b.pending = FALSE
        /\ b.upd = a.upd /\ b.task = a.task /\ b.queue = a.queue
        /\ b.open = a.open /\ b.ok = a.ok /\ b.offers = a.offers /\ b.bye = a.bye
    BY <1>5 DEF SessionSet
  <2> HIDE DEF b
  <2>3. MayEnd(b, q)
    BY <1>10, <2>1, <2>2 DEF MayEnd, OpenInv
  <2> QED
    BY <1>11, <2>3, ByeInv
<1>12. CASE a.state = "TERMINATING" /\ u = Terminated(a)
  <2>1. a.task = 0
    BY <1>1, <1>5, <1>12 DEF TaskInv
  <2> QED
    BY <1>10, <1>12, <2>1, TerminatedInv
<1>13. CASE a.state \notin {"ESTABLISHING", "REESTABLISHING", "RENEGOTIATING", "TERMINATING"}
              /\ u = a
  <2>1. NegotiatingInv(a) /\ EstablishingInv(a) /\ UpdateInv(a)
    BY <1>1, <1>2, <1>5, <1>13 DEF NegotiatingInv, EstablishingInv, UpdateInv
  <2>2. TaskInv(a, q)
    BY <1>1, <1>5, <1>13 DEF TaskInv
  <2>3. OfferInv(a, q)
    BY <1>1, <1>5 DEF OfferInv
  <2> QED
    BY <1>1, <1>5, <1>7, <1>8, <1>13, <2>1, <2>2, <2>3 DEF Held, SInv, EndInv
<1>14. ASSUME NEW state \in {"ESTABLISHED", "RENEGOTIATING"},
              state = "ESTABLISHED" => a.state = "ESTABLISHING",
              state = "RENEGOTIATING" => a.state = "RENEGOTIATING"
       PROVE  SInv(started(state), q)
  <2> DEFINE w == y(state)
  <2>1. /\ w \in SessionSet /\ w.state = state /\ w.call = a.call /\ w.oa = a.oa
        /\ w.pending = a.pending /\ w.start = "closed" /\ w.upd = a.upd /\ w.task = 0
        /\ w.queue = a.queue /\ w.open = a.open /\ w.ok = a.ok /\ w.offers = a.offers
        /\ w.bye = a.bye
    BY <1>5, Values DEF SessionSet, Stop2xxRetransmission
  <2> HIDE DEF w
  <2>2. Held(w, q, {})
    <3>1. NegotiatingInv(w) /\ EstablishingInv(w) /\ UpdateInv(w)
      BY <1>1, <1>5, <1>14, <2>1 DEF NegotiatingInv, EstablishingInv, UpdateInv
    <3>2. OpenInv(w, q)
      BY <1>7, <1>14, <2>1 DEF OpenInv
    <3>3. TaskInv(w, q)
      BY <1>1, <1>5, <2>1 DEF TaskInv
    <3>4. InvitesKept(w, {})
      BY <1>8, <1>14, <2>1 DEF InvitesKept, Kept
    <3>5. OfferInv(w, q)
      BY <1>1, <1>5, <1>14, <2>1 DEF OfferInv
    <3> QED
      BY <2>1, <3>1, <3>2, <3>3, <3>4, <3>5 DEF Held
  <2>3. SInv(PostMessage(w, "STARTED"), q)
    BY <1>0, <1>5, <1>14, <2>1, <2>2, PostedInv, Posts
  <2> QED
    BY <2>3 DEF w
<1>15. ASSUME ~IsStrayAck(t, n), NEW state \in {"ESTABLISHED", "RENEGOTIATING"},
              state = "ESTABLISHED" => a.state = "REESTABLISHING",
              state = "RENEGOTIATING" => a.state = "RENEGOTIATING"
       PROVE  SInv(updated(state), q)
  <2> DEFINE v == CloseUpdate(x(state))
             w == PostMessage(x(state), "UPDATED")
             z == CloseUpdate(w)
  <2>1. /\ x(state) \in SessionSet /\ x(state).state = state /\ x(state).call = a.call
        /\ x(state).oa = a.oa
        /\ x(state).pending = a.pending /\ x(state).start = a.start
        /\ x(state).upd = a.upd /\ x(state).task = 0
        /\ x(state).queue = a.queue /\ x(state).open = a.open /\ x(state).ok = a.ok
        /\ x(state).offers = a.offers /\ x(state).bye = a.bye
    BY <1>5, Values DEF SessionSet, Stop2xxRetransmission
  <2> HIDE DEF x
  <2>2. /\ v \in SessionSet /\ v.state = state /\ v.call = a.call /\ v.oa = a.oa
        /\ v.pending = a.pending /\ v.start = a.start /\ v.upd.req = a.upd.req
        /\ v.upd.conn = "closed" /\ v.task = 0
        /\ v.queue = a.queue /\ v.open = a.open /\ v.ok = a.ok /\ v.offers = a.offers
        /\ v.bye = a.bye
    BY <2>1, Values DEF SessionSet, CloseUpdate
  <2>3. z = PostMessage(v, "UPDATED")
    BY <2>1 DEF SessionSet, CloseUpdate, PostMessage
  <2> HIDE DEF v
  <2>4. a.state = "RENEGOTIATING" => a.upd.req.m # "INVITE"
    BY <1>1, <1>4, <1>5, <1>15 DEF UpdateInv, OpenInv, IsStrayAck
  <2>5. a.state = "REESTABLISHING" => a.upd.req.n = n
    BY <1>1, <1>4, <1>5, <1>15 DEF UpdateInv, IsStrayAck
  <2>6. Held(v, q, {})
    <3>1. NegotiatingInv(v) /\ EstablishingInv(v) /\ UpdateInv(v)
      BY <1>1, <1>5, <1>15, <2>2, <2>4 DEF NegotiatingInv, EstablishingInv, UpdateInv
    <3>2. OpenInv(v, q)
      BY <1>7, <1>15, <2>2 DEF OpenInv
    <3>3. TaskInv(v, q)
      BY <1>1, <1>5, <2>2 DEF TaskInv
    <3>4. InvitesKept(v, {})
      BY <1>1, <1>5, <1>8, <1>15, <2>2, <2>4 DEF InvitesKept, Kept, UpdateInv
    <3>5. OfferInv(v, q)
      BY <1>1, <1>5, <1>15, <2>2, <2>5 DEF OfferInv
    <3> QED
      BY <2>2, <3>1, <3>2, <3>3, <3>4, <3>5 DEF Held
  <2>7. SInv(PostMessage(v, "UPDATED"), q)
    BY <1>0, <1>5, <1>15, <2>2, <2>6, PostedInv, Posts
  <2> QED
    BY <2>3, <2>7
<1> HIDE DEF started, updated
<1> QED
  BY <1>6, <1>9, <1>11, <1>12, <1>13, <1>14, <1>15

LEMMA HandleRequestToByeInv ==
    ASSUME NEW t, NEW p, SInv(t, p), t.state # "NEGOTIATING"
    PROVE  SInv(HandleRequestToBye(t), p)
<1> DEFINE x == Stop2xxRetransmission(t)
           e == [x EXCEPT !.pending = FALSE]
<1>1. /\ Held(x, p, {}) /\ x.task = 0 /\ x.state = t.state
      /\ x.queue = t.queue /\ x.told = t.told /\ x.bye = t.bye
  BY StopInv DEF SInv
<1> HIDE DEF x
<1>2. /\ Held(e, p, {}) /\ e.task = 0 /\ e.state = t.state
      /\ e.queue = t.queue /\ e.told = t.told /\ e.bye = t.bye
  BY <1>1, ReleaseInv
<1> HIDE DEF e
<1>3. CASE t.state = "TERMINATED"
  BY <1>2, <1>3 DEF SInv, EndInv, HandleRequestToBye, e, x
<1>4. CASE t.state # "TERMINATED"
  <2>1. SInv(Terminated(e), p)
    BY <1>2, HeldMayEnd, TerminatedInv
  <2> QED
    BY <1>4, <2>1 DEF HandleRequestToBye, e, x
<1> QED
  BY <1>3, <1>4

LEMMA HandleResponseToByeInv ==
    ASSUME NEW t, NEW p, SInv(t, p), t.bye = "sent"
    PROVE  SInv(HandleResponseToBye(t), p)
<1> DEFINE x == IF t.state = "TERMINATED" THEN t ELSE Terminated(t)
           u == [x EXCEPT !.bye = "done"]
<1>1. SInv(x, p)
  <2>1. t.state \in {"TERMINATING", "TERMINATED"} /\ t.task = 0 /\ Held(t, p, {})
    BY DEF SInv, Held, EndInv, TaskInv
  <2>2. SInv(Terminated(t), p)
    BY <2>1, HeldMayEnd, TerminatedInv
  <2> QED
    BY <2>2
<1> HIDE DEF x
<1>2. x \in SessionSet
  BY <1>1 DEF SInv, Held
<1>3. /\ u \in SessionSet /\ u.bye = "done"
      /\ u.state = x.state /\ u.call = x.call /\ u.oa = x.oa /\ u.task = x.task
      /\ u.start = x.start /\ u.upd = x.upd /\ u.queue = x.queue /\ u.told = x.told
      /\ u.open = x.open /\ u.ok = x.ok /\ u.offers = x.offers /\ u.pending = x.pending
  BY <1>2 DEF SessionSet
<1> HIDE DEF u
<1>4. Held(u, p, {})
  BY <1>1, <1>3, HeldSame DEF SInv
<1>5. EndInv(u)
  BY <1>1, <1>3 DEF SInv, EndInv
<1> QED
  BY <1>4, <1>5 DEF SInv, HandleResponseToBye, u, x

LEMMA RestoreFacts ==
    ASSUME NEW t \in SessionSet
    PROVE  LET u == RestoreOfferAnswerState(t) IN
           /\ u \in SessionSet /\ u.oa \notin {"CHANGE_SENT", "CHANGE_RECEIVED"}
           /\ u.state = t.state /\ u.call = t.call /\ u.pending = t.pending
           /\ u.start = t.start /\ u.upd = t.upd /\ u.task = t.task
           /\ u.queue = t.queue /\ u.told = t.told /\ u.bye = t.bye
           /\ u.open = t.open /\ u.ok = t.ok /\ u.offers = t.offers
<1> DEFINE oa == IF t.oa \in {"CHANGE_SENT", "CHANGE_RECEIVED"} THEN "ESTABLISHED"
                 ELSE IF t.oa = "OFFER_RECEIVED" THEN "IDLE" ELSE t.oa
<1>1. oa \in OaStates /\ oa \notin {"CHANGE_SENT", "CHANGE_RECEIVED"}
  BY DEF SessionSet, OaStates
<1>2. RestoreOfferAnswerState(t) = [t EXCEPT !.oa = oa]
  BY DEF RestoreOfferAnswerState
<1> HIDE DEF oa
<1> QED
  BY <1>1, <1>2 DEF SessionSet

(* The CANCEL of an INVITE that has no final response.                     *)
LEMMA HandleRequestToCancelInv ==
    ASSUME NEW t0, NEW p \in PeerSet, SInv(t0, p), NEW n, Cancellable_Compare(t0, n),
           t0.call \in {"INVITE_RECEIVED", "REINVITE_RECEIVED"},
           NEW u \in HandleRequestToCancel(t0)
    PROVE  SInv(u, p)
<1> DEFINE t == [t0 EXCEPT !.pending = FALSE]
           r == IF t.call = "INVITE_RECEIVED" THEN FirstInvite ELSE t.upd.req
           refused == [Answered(t, r) EXCEPT
                          !.call = CallOnSentFailure(@),
                          !.start = IF r = FirstInvite THEN "answered" ELSE @,
                          !.upd = IF r = FirstInvite THEN @
                                  ELSE [@ EXCEPT !.conn = "answered", !.responded = TRUE]]
           back(x) == Enter(RestoreOfferAnswerState(x), "ESTABLISHED")
           ends(x) == IF t.state = "NEGOTIATING" THEN Terminated(x)
                      ELSE PostMessage(back(x), "UPDATE_FAILED")
<1>1. \/ u = ends(refused)
      \/ "respond" \in faults /\ (u = ends(t) \/ u = t)
  BY DEF HandleRequestToCancel, Outcomes
<1>2. /\ Held(t, p, {}) /\ t.pending = FALSE
      /\ t.state = t0.state /\ t.call = t0.call /\ t.oa = t0.oa /\ t.task = t0.task
      /\ t.start = t0.start /\ t.upd = t0.upd /\ t.queue = t0.queue /\ t.told = t0.told
      /\ t.open = t0.open /\ t.ok = t0.ok /\ t.offers = t0.offers /\ t.bye = t0.bye
  BY ReleaseInv DEF SInv
<1> HIDE DEF t
<1>3. /\ t \in SessionSet /\ NegotiatingInv(t) /\ EstablishingInv(t) /\ UpdateInv(t)
      /\ OpenInv(t, p) /\ TaskInv(t, p) /\ InvitesKept(t, {}) /\ OfferInv(t, p)
      /\ EndInv(t)
  BY <1>2 DEF SInv, Held, EndInv
<1>4. \/ t.state = "NEGOTIATING" /\ r = FirstInvite
      \/ /\ t.state = "RENEGOTIATING" /\ r = t.upd.req /\ r.m = "INVITE" /\ r # FirstInvite
         /\ t.upd.conn = "open" /\ r \in t.open /\ r.n \notin t.ok /\ 1 \in t.ok
  BY <1>2, <1>3 DEF Cancellable_Compare, NegotiatingInv, EstablishingInv, UpdateInv,
     OpenInv, FirstInvite
<1>5. /\ t.open \ {r} \in SUBSET Requests
      /\ CallOnSentFailure(t.call) \in CallStates
      /\ CallOnSentFailure(t.call) # "INVITE_RECEIVED"
  BY <1>3, CallStatesClosed DEF SessionSet
<1>6. /\ refused \in SessionSet /\ refused.state = t.state
      /\ refused.call = CallOnSentFailure(t.call) /\ refused.task = t.task
      /\ refused.upd.req = t.upd.req
      /\ r = FirstInvite => refused.upd = t.upd
      /\ r # FirstInvite =>
            refused.upd.conn = "answered" /\ refused.upd.responded = TRUE
      /\ refused.pending = FALSE /\ refused.open = t.open \ {r} /\ refused.ok = t.ok
      /\ refused.offers = t.offers /\ refused.queue = t.queue /\ refused.bye = t.bye
  <2>1. /\ [t.upd EXCEPT !.conn = "answered", !.responded = TRUE] \in
              [req : Requests \cup {NoReq}, conn : Connections, responded : BOOLEAN]
        /\ [t.upd EXCEPT !.conn = "answered", !.responded = TRUE].req = t.upd.req
        /\ [t.upd EXCEPT !.conn = "answered", !.responded = TRUE].conn = "answered"
        /\ [t.upd EXCEPT !.conn = "answered", !.responded = TRUE].responded = TRUE
    BY <1>3, Values DEF SessionSet
  <2> HIDE DEF r
  <2> QED
    BY <1>2, <1>3, <1>5, <2>1, Values DEF SessionSet, Answered
<1> HIDE DEF refused
<1>7. CASE t.state = "NEGOTIATING"
  <2>1. /\ t.task = 0 /\ t.ok = {} /\ t.upd.conn = "closed" /\ Delayed(t.queue) = {}
        /\ t.open \subseteq {FirstInvite} /\ r = FirstInvite
    BY <1>3, <1>4, <1>7 DEF NegotiatingInv
  <2>2. OpenInv(refused, p)
    BY <1>3, <1>6, <1>7, <2>1 DEF OpenInv
  <2>3. MayEnd(refused, p)
    BY <1>6, <2>1, <2>2 DEF MayEnd
  <2>4. "respond" \in faults => MayEnd(t, p)
    BY <1>2, <2>1, HeldMayEnd
  <2> QED
    BY <1>1, <1>2, <1>3, <1>7, <2>3, <2>4, TerminatedInv DEF SInv
<1>8. CASE t.state = "RENEGOTIATING"
  <2>1. /\ r = t.upd.req /\ r.m = "INVITE" /\ r # FirstInvite
        /\ t.upd.conn = "open" /\ r \in t.open /\ r.n \notin t.ok /\ 1 \in t.ok
        /\ t.bye # "sent" /\ t.call # "INVITE_RECEIVED"
    BY <1>3, <1>4, <1>8 DEF EndInv, OpenInv
  <2> HIDE DEF r
  <2>2. ASSUME NEW x \in SessionSet, x.call # "INVITE_RECEIVED",
               x.upd.req = r, x.task = t.task, x.pending = FALSE, x.ok = t.ok,
               x.offers = t.offers, x.queue = t.queue, x.bye = t.bye,
               \/ /\ x.open = t.open \ {r}
                  /\ x.upd.conn = "answered" /\ x.upd.responded = TRUE
               \/ x.open = t.open /\ x.upd = t.upd /\ faults # {}
        PROVE  SInv(PostMessage(back(x), "UPDATE_FAILED"), p)
    <3> DEFINE y == RestoreOfferAnswerState(x)
               w == Enter(y, "ESTABLISHED")
    <3>1. /\ y \in SessionSet /\ y.oa \notin {"CHANGE_SENT", "CHANGE_RECEIVED"}
          /\ y.call = x.call /\ y.pending = x.pending /\ y.upd = x.upd /\ y.task = x.task
          /\ y.queue = x.queue /\ y.bye = x.bye
          /\ y.open = x.open /\ y.ok = x.ok /\ y.offers = x.offers
      BY <2>2, RestoreFacts
    <3> HIDE DEF y
    <3>2. /\ w \in SessionSet /\ w.state = "ESTABLISHED"
          /\ w.oa \notin {"CHANGE_SENT", "CHANGE_RECEIVED"}
          /\ w.call = x.call /\ w.pending = x.pending /\ w.upd = x.upd /\ w.task = x.task
          /\ w.queue = x.queue /\ w.bye = x.bye
          /\ w.open = x.open /\ w.ok = x.ok /\ w.offers = x.offers
      BY <3>1, Values DEF SessionSet, Enter
    <3> HIDE DEF w
    <3>3. NegotiatingInv(w) /\ EstablishingInv(w)
      BY <3>2 DEF NegotiatingInv, EstablishingInv
    <3>4. UpdateInv(w)
      BY <1>3, <2>1, <2>2, <3>2 DEF UpdateInv
    <3>5. OpenInv(w, p)
      BY <1>3, <2>1, <2>2, <3>2 DEF OpenInv, UpdateInv
    <3>6. TaskInv(w, p)
      BY <1>3, <1>8, <2>1, <2>2, <3>2 DEF TaskInv
    <3>7. InvitesKept(w, {})
      BY <1>3, <1>8, <2>1, <2>2, <3>2 DEF InvitesKept, Kept
    <3>8. OfferInv(w, p)
      BY <3>2 DEF OfferInv
    <3>9. Held(w, p, {})
      BY <3>2, <3>3, <3>4, <3>5, <3>6, <3>7, <3>8 DEF Held
    <3>10. SInv(PostMessage(w, "UPDATE_FAILED"), p)
      BY <2>1, <2>2, <3>2, <3>9, PostedInv, Posts
    <3> QED
      BY <3>10 DEF w, y
  <2>3. SInv(PostMessage(back(refused), "UPDATE_FAILED"), p)
    BY <1>5, <1>6, <2>1, <2>2
  <2>4. "respond" \in faults => SInv(PostMessage(back(t), "UPDATE_FAILED"), p)
    <3>1. "respond" \in faults => faults # {}
      OBVIOUS
    <3> HIDE DEF back
    <3> QED
      BY <1>2, <1>3, <2>1, <2>2, <3>1
  <2> QED
    BY <1>1, <1>2, <1>3, <1>8, <2>3, <2>4 DEF SInv
<1> QED
  BY <1>4, <1>7, <1>8

-----------------------------------------------------------------------------
(* The end of the retransmission, and the messages to the application.     *)

LEMMA RetryTaskInv ==
    ASSUME NEW t0, NEW p, SInv(t0, p), NEW u \in RetryTaskHelper_OnCompleted(t0)
    PROVE  SInv(u, p)
<1> DEFINE t == Stop2xxRetransmission(t0)
           a == [t EXCEPT !.pending = FALSE]
           b == Enter(t, "ESTABLISHED")
           c == RestoreOfferAnswerState(CloseUpdate(t))
           d == [c EXCEPT !.pending = FALSE]
           e == Enter(c, "ESTABLISHED")
<1>1. \/ /\ t.state = "ESTABLISHING"
         /\ \/ u \in SendRequestToBye(a)
            \/ t.pending # TRUE /\ u = PostMessage(b, "START_FAILED")
      \/ /\ t.state = "REESTABLISHING"
         /\ u \in SendRequestToBye(d) \/ u = PostMessage(e, "UPDATE_FAILED")
      \/ t.state \notin {"ESTABLISHING", "REESTABLISHING"} /\ u = t
  BY DEF RetryTaskHelper_OnCompleted
<1>2. /\ Held(t, p, {}) /\ t.task = 0 /\ t.state = t0.state
      /\ t.queue = t0.queue /\ t.told = t0.told /\ t.bye = t0.bye
  BY StopInv DEF SInv
<1> HIDE DEF t
<1>3. /\ t \in SessionSet /\ EstablishingInv(t) /\ UpdateInv(t) /\ OpenInv(t, p)
      /\ TaskInv(t, p) /\ InvitesKept(t, {}) /\ OfferInv(t, p) /\ EndInv(t)
  BY <1>2 DEF SInv, Held, EndInv
<1>4. CASE t.state = "ESTABLISHING"
  <2>1. MayEnd(a, p)
    <3>1. Held(a, p, {}) /\ a.task = 0 /\ a.state = "ESTABLISHING"
      BY <1>2, <1>4, ReleaseInv
    <3> HIDE DEF a
    <3> QED
      BY <3>1, HeldMayEnd
  <2>2. SInv(PostMessage(b, "START_FAILED"), p)
    <3>1. /\ b \in SessionSet /\ b.state = "ESTABLISHED" /\ b.call = t.call /\ b.oa = t.oa
          /\ b.pending = t.pending /\ b.start = t.start /\ b.upd = t.upd /\ b.task = 0
          /\ b.queue = t.queue /\ b.bye = t.bye
          /\ b.open = t.open /\ b.ok = t.ok /\ b.offers = t.offers
      BY <1>2, <1>3, Values DEF SessionSet, Enter
    <3> HIDE DEF b
    <3>2. NegotiatingInv(b) /\ EstablishingInv(b) /\ UpdateInv(b)
      BY <1>3, <1>4, <3>1 DEF NegotiatingInv, EstablishingInv, UpdateInv
    <3>3. OpenInv(b, p) /\ TaskInv(b, p)
      BY <1>3, <1>4, <3>1 DEF OpenInv, TaskInv
    <3>4. InvitesKept(b, {}) /\ OfferInv(b, p)
      BY <1>3, <1>4, <3>1 DEF InvitesKept, Kept, OfferInv
    <3>5. Held(b, p, {}) /\ b.bye # "sent"
      BY <1>3, <1>4, <3>1, <3>2, <3>3, <3>4 DEF Held, EndInv
    <3> QED
      BY <3>1, <3>5, PostedInv, Posts
  <2> QED
    BY <1>1, <1>4, <2>1, <2>2, ByeInv
<1>5. CASE t.state = "REESTABLISHING"
  <2> DEFINE x == CloseUpdate(t)
  <2>1. /\ x \in SessionSet /\ x.state = t.state /\ x.call = t.call
        /\ x.pending = t.pending /\ x.start = t.start /\ x.task = 0
        /\ x.upd.req = t.upd.req /\ x.upd.conn = "closed"
        /\ x.queue = t.queue /\ x.bye = t.bye
        /\ x.open = t.open /\ x.ok = t.ok /\ x.offers = t.offers
    BY <1>2, <1>3, Values DEF SessionSet, CloseUpdate
  <2> HIDE DEF x
  <2>2. /\ c \in SessionSet /\ c.oa \notin {"CHANGE_SENT", "CHANGE_RECEIVED"}
        /\ c.state = x.state /\ c.call = x.call /\ c.pending = x.pending
        /\ c.start = x.start /\ c.upd = x.upd /\ c.task = x.task
        /\ c.queue = x.queue /\ c.bye = x.bye
        /\ c.open = x.open /\ c.ok = x.ok /\ c.offers = x.offers
    BY <2>1, RestoreFacts DEF x
  <2> HIDE DEF c
  <2>3. /\ t.upd.conn = "answered" /\ t.upd.req.n \in t.ok
    BY <1>3, <1>5 DEF UpdateInv
  <2>4. faults = {} => \A r \in t.open : r.m = "INVITE" => r \in Delayed(t.queue)
    BY <1>3, <1>5, <2>3 DEF InvitesKept, Kept
  <2>5. MayEnd(d, p)
    <3>1. /\ d \in SessionSet /\ d.state = t.state /\ d.call = t.call /\ d.pending = FALSE
          /\ d.upd.conn = "closed" /\ d.task = 0 /\ d.queue = t.queue
          /\ d.open = t.open /\ d.ok = t.ok /\ d.offers = t.offers
      BY <2>1, <2>2, ZenonT(60) DEF SessionSet
    <3> HIDE DEF d
    <3>2. OpenInv(d, p)
      BY <1>3, <3>1 DEF OpenInv
    <3> QED
      BY <2>4, <3>1, <3>2 DEF MayEnd
  <2>6. SInv(PostMessage(e, "UPDATE_FAILED"), p)
    <3>1. /\ e \in SessionSet /\ e.state = "ESTABLISHED" /\ e.call = t.call
          /\ e.oa \notin {"CHANGE_SENT", "CHANGE_RECEIVED"}
          /\ e.pending = t.pending /\ e.upd.conn = "closed" /\ e.task = 0
          /\ e.queue = t.queue /\ e.bye = t.bye
          /\ e.open = t.open /\ e.ok = t.ok /\ e.offers = t.offers
      BY <2>1, <2>2, Values DEF SessionSet, Enter
    <3> HIDE DEF e
    <3>2. NegotiatingInv(e) /\ EstablishingInv(e) /\ UpdateInv(e)
      BY <3>1 DEF NegotiatingInv, EstablishingInv, UpdateInv
    <3>3. OpenInv(e, p) /\ TaskInv(e, p)
      BY <1>3, <1>5, <3>1 DEF OpenInv, TaskInv
    <3>4. InvitesKept(e, {}) /\ OfferInv(e, p)
      BY <2>4, <3>1 DEF InvitesKept, Kept, OfferInv
    <3>5. Held(e, p, {}) /\ e.bye # "sent"
      BY <1>3, <1>5, <3>1, <3>2, <3>3, <3>4 DEF Held, EndInv
    <3> QED
      BY <3>1, <3>5, PostedInv, Posts
  <2> QED
    BY <1>1, <1>5, <2>5, <2>6, ByeInv
<1> QED
  BY <1>1, <1>2, <1>3, <1>4, <1>5 DEF SInv

LEMMA DispatchInv ==
    ASSUME NEW t0, NEW p \in PeerSet, SInv(t0, p), t0.queue # << >>,
           NEW u, LET msg == Head(t0.queue)
                      t == [t0 EXCEPT !.queue = Tail(@)] IN
                  u \in IF msg.name = "DELAYED" THEN Dialog_NotifyRequest(t, msg.req)
                        ELSE {Told(t, msg.name)}
    PROVE  SInv(u, p)
<1> DEFINE msg == Head(t0.queue)
           q == Tail(t0.queue)
           t == [t0 EXCEPT !.queue = Tail(@)]
<1>1. /\ t0 \in SessionSet /\ NegotiatingInv(t0) /\ EstablishingInv(t0) /\ UpdateInv(t0)
      /\ OpenInv(t0, p) /\ TaskInv(t0, p) /\ InvitesKept(t0, {}) /\ OfferInv(t0, p)
      /\ EndInv(t0)
  BY DEF SInv, Held
<1>2. t0.queue \in Seq(Msg)
  BY <1>1 DEF SessionSet
<1>3. /\ msg \in Msg /\ q \in Seq(Msg) /\ Names(t0.queue) = Names(q) \cup {msg.name}
      /\ Delayed(t0.queue) = IF msg.name = "DELAYED" THEN Delayed(q) \cup {msg.req}
                                                      ELSE Delayed(q)
      /\ DelayedOnce(q)
      /\ msg.name = "DELAYED" => msg.req \notin Delayed(q)
  BY <1>1, <1>2, TailQueue DEF OpenInv
<1>4. /\ t \in SessionSet /\ t.state = t0.state /\ t.call = t0.call /\ t.oa = t0.oa
      /\ t.pending = t0.pending /\ t.start = t0.start /\ t.upd = t0.upd
      /\ t.task = t0.task /\ t.queue = q /\ t.told = t0.told /\ t.bye = t0.bye
      /\ t.open = t0.open /\ t.ok = t0.ok /\ t.offers = t0.offers
  BY <1>1, <1>3 DEF SessionSet
<1>5. u \in IF msg.name = "DELAYED" THEN Dialog_NotifyRequest(t, msg.req)
            ELSE {Told(t, msg.name)}
  OBVIOUS
<1> HIDE DEF t, q, msg
<1>6. NegotiatingInv(t) /\ EstablishingInv(t) /\ UpdateInv(t)
  BY <1>1, <1>3, <1>4 DEF NegotiatingInv, EstablishingInv, UpdateInv
<1>7. OpenInv(t, p) /\ TaskInv(t, p) /\ OfferInv(t, p)
  BY <1>1, <1>3, <1>4 DEF OpenInv, TaskInv, OfferInv
<1>8. CASE msg.name = "DELAYED"
  <2>1. msg.req \in t0.open /\ msg.req \in Requests /\ msg.req \in Delayed(t0.queue)
    BY <1>1, <1>3, <1>8 DEF OpenInv, SessionSet
  <2>2. InvitesKept(t, {msg.req})
    BY <1>1, <1>3, <1>4, <1>8 DEF InvitesKept, Kept
  <2>3. EndInv(t)
    BY <1>1, <1>3, <1>4, <1>8 DEF EndInv
  <2>4. InHand(t, msg.req)
    BY <1>1, <1>3, <1>4, <1>8, <2>1 DEF InHand, UpdateInv, NegotiatingInv
  <2>5. Held(t, p, {msg.req})
    BY <1>4, <1>6, <1>7, <2>2 DEF Held
  <2> QED
    BY <1>5, <1>8, <2>1, <2>3, <2>4, <2>5, NotifyRequestInv
<1>9. CASE msg.name # "DELAYED"
  <2>1. u = Told(t, msg.name)
    BY <1>5, <1>9
  <2>2. /\ u \in SessionSet /\ u.state = t.state /\ u.call = t.call /\ u.oa = t.oa
        /\ u.pending = t.pending /\ u.start = t.start /\ u.upd = t.upd
        /\ u.task = t.task /\ u.queue = t.queue /\ u.bye = t.bye
        /\ u.told = t.told \cup ({msg.name} \cap Once)
        /\ u.open = t.open /\ u.ok = t.ok /\ u.offers = t.offers
    BY <1>4, <2>1 DEF SessionSet, Told
  <2>3. InvitesKept(t, {})
    BY <1>1, <1>3, <1>4, <1>9 DEF InvitesKept, Kept
  <2>4. Held(t, p, {})
    BY <1>4, <1>6, <1>7, <2>3 DEF Held
  <2>5. Held(u, p, {})
    BY <2>2, <2>4, HeldSame
  <2>6. EndInv(u)
    BY <1>1, <1>3, <1>4, <2>2 DEF EndInv, Once
  <2> QED
    BY <2>5, <2>6 DEF SInv
<1> QED
  BY <1>8, <1>9

-----------------------------------------------------------------------------
(* The steps.                                                              *)

IInv ==
    /\ SInv(s, peer)
    /\ peer \in PeerSet
    /\ again \in 0 .. MaxInvites

LEMMA InitInv == Init => IInv
<1> SUFFICES ASSUME Init
             PROVE  IInv
  OBVIOUS
<1>1. /\ s.state = "NEGOTIATING" /\ s.call = "INVITE_RECEIVED" /\ s.oa = "OFFER_RECEIVED"
      /\ s.pending = FALSE /\ s.start = "open" /\ s.upd.req = NoReq
      /\ s.upd.conn = "closed" /\ s.task = 0 /\ s.queue = << >> /\ s.bye = "none"
      /\ s.open = {FirstInvite} /\ s.ok = {} /\ s.offers = {}
  BY DEF Init
<1>2. s \in SessionSet
  <2>1. /\ "INVITE_RECEIVED" \in CallStates /\ << >> \in Seq(Msg)
        /\ [req |-> NoReq, conn |-> "closed", responded |-> FALSE] \in
              [req : Requests \cup {NoReq}, conn : Connections, responded : BOOLEAN]
    BY Values DEF CallStates
  <2>2. {FirstInvite} \in SUBSET Requests
    BY RequestFacts
  <2> QED
    BY <2>1, <2>2, Values DEF Init, SessionSet
<1>3. /\ peer \in PeerSet /\ peer.invites = 1 /\ peer.acked = {}
  BY SessionBoundsAssumption DEF Init, PeerSet
<1>4. Names(s.queue) = {} /\ Delayed(s.queue) = {} /\ DelayedOnce(s.queue)
  BY <1>1 DEF Names, Delayed, DelayedOnce
<1>5. NegotiatingInv(s) /\ EstablishingInv(s) /\ UpdateInv(s)
  BY <1>1, <1>4 DEF NegotiatingInv, EstablishingInv, UpdateInv
<1>6. OpenInv(s, peer) /\ TaskInv(s, peer)
  BY <1>1, <1>3, <1>4, RequestFacts DEF OpenInv, TaskInv
<1>7. InvitesKept(s, {}) /\ OfferInv(s, peer) /\ EndInv(s)
  BY <1>1 DEF InvitesKept, Kept, OfferInv, EndInv
<1>8. again \in 0 .. MaxInvites
  BY Values DEF Init
<1> QED
  BY <1>2, <1>3, <1>5, <1>6, <1>7, <1>8 DEF IInv, SInv, Held

(* The faults of a behaviour do not change.                                *)
LEMMA NextInv ==
    ASSUME SInv(s', peer'), peer' \in PeerSet, again' \in 0 .. MaxInvites,
           faults' = faults
    PROVE  IInv'
<1>1. /\ s' \in SessionSet /\ peer' \in PeerSet
      /\ NegotiatingInv(s') /\ EstablishingInv(s') /\ UpdateInv(s')
      /\ OpenInv(s', peer') /\ TaskInv(s', peer')
      /\ InvitesKept(s', {}) /\ OfferInv(s', peer') /\ EndInv(s')
  BY DEF SInv, Held
<1>2. NegotiatingInv(s)' /\ EstablishingInv(s)' /\ EndInv(s)'
  BY <1>1 DEF NegotiatingInv, EstablishingInv, EndInv
<1>3. OpenInv(s, peer)' /\ TaskInv(s, peer)'
  BY <1>1 DEF OpenInv, TaskInv
<1>4. UpdateInv(s)' /\ OfferInv(s, peer)'
  BY <1>1 DEF UpdateInv, OfferInv
<1>5. InvitesKept(s, {})'
  BY <1>1 DEF InvitesKept, Kept
<1>6. (s \in SessionSet)' /\ (peer \in PeerSet)' /\ (again \in 0 .. MaxInvites)'
  BY <1>1
<1> QED
  BY <1>2, <1>3, <1>4, <1>5, <1>6 DEF IInv, SInv, Held

LEMMA AppInv ==
    ASSUME IInv, AppAccept \/ AppReject
    PROVE  IInv'
<1>1. /\ SInv(s, peer) /\ peer \in PeerSet /\ peer.terminates = 0
      /\ s' \in Accept(s) \cup Reject(s) /\ again' = 0 /\ faults' = faults /\ peer' = peer
  BY DEF IInv, AppAccept, AppReject, MayAnswer, Step
<1>2. s.pending = FALSE
  BY <1>1 DEF SInv, Held, TaskInv, SessionSet
<1>3. \/ /\ s.state = "NEGOTIATING"
         /\ s' \in AcceptSession(s) \cup RejectSession(s)
      \/ /\ s.state = "RENEGOTIATING" /\ s.upd.conn = "open"
         /\ s' \in AcceptUpdate(s) \cup RejectUpdate(s)
  BY <1>1 DEF Accept, Reject
<1>4. SInv(s', peer)
  BY <1>1, <1>2, <1>3, AcceptSessionInv, RejectSessionInv, AcceptUpdateInv, RejectUpdateInv
<1> QED
  BY <1>1, <1>4, NextInv, Values

LEMMA AppTerminateInv ==
    ASSUME IInv, AppTerminate
    PROVE  IInv'
<1>1. /\ SInv(s, peer) /\ peer \in PeerSet /\ peer.terminates < MaxTerminates
      /\ s' \in Terminate(s) /\ again' = 0 /\ faults' = faults
      /\ peer' = [peer EXCEPT !.terminates = @ + 1]
  BY DEF IInv, AppTerminate, Step
<1>2. /\ peer' \in PeerSet /\ peer'.terminates > 0
      /\ peer'.invites = peer.invites /\ peer'.updates = peer.updates
      /\ peer'.acked = peer.acked
  BY <1>1, SessionBoundsAssumption DEF PeerSet
<1>3. SInv(s, peer')
  BY <1>1, <1>2, PeerKept DEF SInv
<1>4. SInv(s', peer')
  BY <1>1, <1>2, <1>3, TerminateInv
<1> QED
  BY <1>1, <1>2, <1>4, NextInv, Values

(* A request that the peer has just sent: q is the peer after it.          *)
LEMMA RecvRequestInv ==
    ASSUME IInv, NEW r \in Requests, NEW q \in PeerSet,
           q.acked = peer.acked, q.terminates = peer.terminates,
           \/ /\ r.m = "INVITE" /\ OpenInvites = {} /\ r.n = peer.invites + 1
              /\ q.invites = r.n /\ q.updates = peer.updates
           \/ /\ r.m = "UPDATE" /\ r.n = peer.updates + 1
              /\ q.updates = r.n /\ q.invites = peer.invites,
           RecvRequest(r)
    PROVE  SInv(s', q) /\ again' = 0 /\ faults' = faults
<1> DEFINE t == [s EXCEPT !.open = @ \cup {r}]
<1>1. 1 \in s.ok /\ s' \in Dialog_NotifyRequest(t, r) /\ again' = 0 /\ faults' = faults
  BY DEF RecvRequest, Step
<1>2. /\ s \in SessionSet /\ peer \in PeerSet
      /\ NegotiatingInv(s) /\ EstablishingInv(s) /\ UpdateInv(s)
      /\ OpenInv(s, peer) /\ TaskInv(s, peer) /\ InvitesKept(s, {}) /\ OfferInv(s, peer)
      /\ EndInv(s)
  BY DEF IInv, SInv, Held
<1>3. /\ peer.invites \in Nat /\ peer.updates \in Nat /\ peer.invites <= q.invites
      /\ peer.updates <= q.updates
  BY <1>2, SessionBoundsAssumption DEF PeerSet
<1>4. /\ t \in SessionSet /\ t.open = s.open \cup {r}
      /\ t.state = s.state /\ t.call = s.call /\ t.oa = s.oa
      /\ t.pending = s.pending /\ t.start = s.start /\ t.upd = s.upd
      /\ t.task = s.task /\ t.queue = s.queue /\ t.told = s.told /\ t.bye = s.bye
      /\ t.ok = s.ok /\ t.offers = s.offers
  BY <1>2 DEF SessionSet
<1> HIDE DEF t
<1>5. s.state # "NEGOTIATING" /\ r.m \in {"INVITE", "UPDATE"}
  BY <1>1, <1>2, RequestFacts DEF NegotiatingInv
<1>6. \A x \in s.open : /\ x \in Requests /\ x.n \in Nat
                        /\ x.m = "INVITE" => x.n = peer.invites /\ x.n \notin s.ok
                        /\ x.m # "INVITE" => x.n <= peer.updates
  BY <1>2, RequestFacts DEF SessionSet, OpenInv
<1>7. \A n \in s.ok : n \in Nat /\ n <= peer.invites
  BY <1>2 DEF SessionSet, OpenInv
<1>8. r \notin s.open
  <2>1. CASE r.m = "INVITE"
    BY <2>1 DEF OpenInvites
  <2>2. CASE r.m = "UPDATE"
    <3>1. r.n = peer.updates + 1
      BY <2>2
    <3> QED
      BY <1>3, <1>6, <2>2, <3>1
  <2> QED
    BY <1>5, <2>1, <2>2
<1>9. OpenInv(t, q)
  <2>1. ASSUME NEW x \in t.open
        PROVE  IF x.m = "INVITE" THEN x.n = q.invites /\ x.n \notin t.ok
                                 ELSE x.n <= q.updates
    <3>1. CASE x = r
      <4>1. r.m = "INVITE" => r.n = q.invites /\ r.n \notin s.ok
        BY <1>3, <1>7
      <4>2. r.m = "UPDATE" => r.n <= q.updates
        BY <1>3
      <4> QED
        BY <1>4, <1>5, <3>1, <4>1, <4>2
    <3>2. CASE x # r
      <4>1. x \in s.open
        BY <1>4, <3>2
      <4>2. x.m = "INVITE" => r.m = "UPDATE"
        BY <1>5, <4>1 DEF OpenInvites
      <4>3. q.updates \in Nat
        BY SessionBoundsAssumption DEF PeerSet
      <4> QED
        BY <1>3, <1>4, <1>6, <4>1, <4>2, <4>3
    <3> QED
      BY <3>1, <3>2
  <2>2. \A x, y \in t.open : x.m = "INVITE" /\ y.m = "INVITE" => x = y
    BY <1>2, <1>4 DEF OpenInv, OpenInvites
  <2>3. \A n \in t.ok : n <= q.invites
    <3>1. q.invites \in Nat
      BY DEF PeerSet
    <3> QED
      BY <1>3, <1>4, <1>7, <3>1
  <2> QED
    BY <1>2, <1>4, <2>1, <2>2, <2>3 DEF OpenInv
<1>10. NegotiatingInv(t) /\ EstablishingInv(t) /\ UpdateInv(t) /\ EndInv(t)
  BY <1>2, <1>4, <1>5 DEF NegotiatingInv, EstablishingInv, UpdateInv, EndInv
<1>11. TaskInv(t, q) /\ InvitesKept(t, {r})
  BY <1>2, <1>4 DEF TaskInv, InvitesKept, Kept
<1>12. OfferInv(t, q)
  <2>1. \A n \in s.offers : n \in Nat /\ (n < peer.invites => n < q.invites)
    <3>1. q.invites \in Nat
      BY DEF PeerSet
    <3> QED
      BY <1>2, <1>3, <3>1 DEF SessionSet
  <2> QED
    BY <1>2, <1>4, <2>1 DEF OfferInv
<1>13. Held(t, q, {r})
  BY <1>4, <1>9, <1>10, <1>11, <1>12 DEF Held
<1>14. InHand(t, r)
  BY <1>2, <1>4, <1>5, <1>8 DEF InHand, OpenInv, UpdateInv
<1> QED
  BY <1>1, <1>10, <1>13, <1>14, NotifyRequestInv

LEMMA RecvInviteInv ==
    ASSUME IInv, RecvInvite
    PROVE  IInv'
<1>1. PICK sdp \in BOOLEAN :
         RecvRequest([m |-> "INVITE", n |-> peer.invites + 1, sdp |-> sdp])
  BY DEF RecvInvite
<1> DEFINE r == [m |-> "INVITE", n |-> peer.invites + 1, sdp |-> sdp]
<1>2. /\ peer \in PeerSet /\ OpenInvites = {}
      /\ peer' = [peer EXCEPT !.invites = @ + 1]
      /\ peer.invites < MaxInvites
  BY SessionBoundsAssumption DEF IInv, RecvInvite, PeerSet
<1>3. /\ peer' \in PeerSet /\ peer'.invites = peer.invites + 1
      /\ peer'.updates = peer.updates /\ peer'.acked = peer.acked
      /\ peer'.terminates = peer.terminates
  BY <1>2, SessionBoundsAssumption DEF PeerSet
<1>4. /\ r \in Requests /\ r.m = "INVITE" /\ r.n = peer.invites + 1
  <2>1. peer.invites + 1 \in 1 .. MaxInvites
    BY <1>2, SessionBoundsAssumption DEF PeerSet
  <2> QED
    BY <2>1 DEF Requests
<1>5. RecvRequest(r)
  BY <1>1
<1> HIDE DEF r
<1>6. SInv(s', peer') /\ again' = 0 /\ faults' = faults
  BY <1>2, <1>3, <1>4, <1>5, RecvRequestInv
<1> QED
  BY <1>3, <1>6, NextInv, Values

LEMMA RecvUpdateInv ==
    ASSUME IInv, RecvUpdate
    PROVE  IInv'
<1>1. PICK sdp \in BOOLEAN :
         RecvRequest([m |-> "UPDATE", n |-> peer.updates + 1, sdp |-> sdp])
  BY DEF RecvUpdate
<1> DEFINE r == [m |-> "UPDATE", n |-> peer.updates + 1, sdp |-> sdp]
<1>2. /\ peer \in PeerSet /\ peer' = [peer EXCEPT !.updates = @ + 1]
      /\ peer.updates < MaxUpdates
  BY DEF IInv, RecvUpdate
<1>3. /\ peer' \in PeerSet /\ peer'.updates = peer.updates + 1
      /\ peer'.invites = peer.invites /\ peer'.acked = peer.acked
      /\ peer'.terminates = peer.terminates
  BY <1>2, SessionBoundsAssumption DEF PeerSet
<1>4. /\ r \in Requests /\ r.m = "UPDATE" /\ r.n = peer.updates + 1
  <2>1. peer.updates + 1 \in 1 .. MaxUpdates
    BY <1>2, SessionBoundsAssumption DEF PeerSet
  <2> QED
    BY <2>1 DEF Requests
<1>5. RecvRequest(r)
  BY <1>1
<1> HIDE DEF r
<1>6. SInv(s', peer') /\ again' = 0 /\ faults' = faults
  BY <1>3, <1>4, <1>5, RecvRequestInv
<1> QED
  BY <1>3, <1>6, NextInv, Values

LEMMA RecvAckInv ==
    ASSUME IInv, RecvAck
    PROVE  IInv'
<1>1. PICK n \in s.ok \ peer.acked :
         /\ Step(HandleRequestToAck(s, n, n \in s.offers))
         /\ peer' = [peer EXCEPT !.acked = @ \cup {n}]
  BY DEF RecvAck
<1>2. /\ SInv(s, peer) /\ peer \in PeerSet /\ s.ok \subseteq 1 .. MaxInvites
      /\ s' \in HandleRequestToAck(s, n, n \in s.offers)
      /\ again' = 0 /\ faults' = faults
  BY <1>1 DEF IInv, SInv, Held, SessionSet, Step
<1>3. /\ peer' \in PeerSet /\ peer'.acked = peer.acked \cup {n}
      /\ peer'.invites = peer.invites /\ peer'.updates = peer.updates
      /\ peer'.terminates = peer.terminates
  BY <1>1, <1>2 DEF PeerSet
<1>4. SInv(s', peer')
  BY <1>2, <1>3, HandleRequestToAckInv
<1> QED
  BY <1>2, <1>3, <1>4, NextInv, Values

LEMMA RecvCancelInv ==
    ASSUME IInv, RecvCancel
    PROVE  IInv'
<1> DEFINE n == peer.invites
<1>1. /\ SInv(s, peer) /\ peer \in PeerSet
      /\ s' \in IF Cancellable_Compare(s, n) THEN Cancellable_NotifyRequest(s) ELSE {s}
      /\ again' = 0 /\ faults' = faults
      /\ peer' = [peer EXCEPT !.cancelled = @ \cup {n}]
  BY DEF IInv, RecvCancel, Step
<1>2. /\ peer' \in PeerSet /\ peer'.acked = peer.acked
      /\ peer'.invites = peer.invites /\ peer'.updates = peer.updates
      /\ peer'.terminates = peer.terminates
  BY <1>1 DEF PeerSet
<1>3. SInv(s, peer')
  BY <1>1, <1>2, PeerKept DEF SInv
<1>4. SInv(PostMessage(s, "CANCELED_ON_ACCEPTED"), peer')
  BY <1>3, PostedInv, Posts DEF SInv, EndInv
<1> HIDE DEF n
<1>5. SInv(s', peer')
  BY <1>1, <1>2, <1>3, <1>4, HandleRequestToCancelInv DEF Cancellable_NotifyRequest
<1> QED
  BY <1>1, <1>2, <1>5, NextInv, Values

LEMMA RecvByeInv ==
    ASSUME IInv, RecvBye
    PROVE  IInv'
<1>1. /\ SInv(s, peer) /\ peer \in PeerSet /\ 1 \in s.ok
      /\ s' = HandleRequestToBye(s) /\ again' = 0 /\ faults' = faults
  BY DEF IInv, RecvBye, Step
<1>2. PICK sent \in BOOLEAN :
         peer' = [peer EXCEPT !.bye = TRUE, !.dialog = IF sent THEN "terminated" ELSE @]
  BY DEF RecvBye, Outcomes
<1>3. /\ peer' \in PeerSet /\ peer'.acked = peer.acked
      /\ peer'.invites = peer.invites /\ peer'.updates = peer.updates
      /\ peer'.terminates = peer.terminates
  BY <1>1, <1>2 DEF PeerSet
<1>4. SInv(s, peer')
  BY <1>1, <1>3, PeerKept DEF SInv
<1>5. s.state # "NEGOTIATING"
  BY <1>1 DEF SInv, Held, NegotiatingInv
<1>6. SInv(s', peer')
  BY <1>1, <1>4, <1>5, HandleRequestToByeInv
<1> QED
  BY <1>1, <1>3, <1>6, NextInv, Values

LEMMA ByeOutcomeInv ==
    ASSUME IInv, ByeOutcome
    PROVE  IInv'
<1>1. /\ SInv(s, peer) /\ peer \in PeerSet /\ s.bye = "sent"
      /\ s' = HandleResponseToBye(s) /\ again' = 0 /\ faults' = faults
  BY DEF IInv, ByeOutcome, Step
<1>2. PICK dialog \in {peer.dialog, "terminated"} :
         peer' = [peer EXCEPT !.dialog = dialog]
  BY DEF ByeOutcome
<1>3. /\ peer' \in PeerSet /\ peer'.acked = peer.acked
      /\ peer'.invites = peer.invites /\ peer'.updates = peer.updates
      /\ peer'.terminates = peer.terminates
  BY <1>1, <1>2 DEF PeerSet
<1>4. SInv(s, peer')
  BY <1>1, <1>3, PeerKept DEF SInv
<1>5. SInv(s', peer')
  BY <1>1, <1>4, HandleResponseToByeInv
<1> QED
  BY <1>1, <1>3, <1>5, NextInv, Values

(* What may be sent again is the INVITE of the task, and has no ACK yet.   *)
LEMMA RetransmitFacts ==
    ASSUME IInv, s.task # 0, InviteToRetransmit(s) # 0
    PROVE  InviteToRetransmit(s) = s.task /\ s.task \notin peer.acked
           /\ s.task \in 0 .. MaxInvites
<1>1. /\ TaskInv(s, peer) /\ UpdateInv(s) /\ EstablishingInv(s) /\ s.task \in 0 .. MaxInvites
  BY DEF IInv, SInv, Held, SessionSet
<1> QED
  BY <1>1 DEF TaskInv, UpdateInv, EstablishingInv, InviteToRetransmit

LEMMA TaskExpiresInv ==
    ASSUME IInv, TaskExpires
    PROVE  IInv'
<1>1. SInv(s, peer) /\ peer \in PeerSet /\ s \in SessionSet
  BY DEF IInv, SInv, Held
<1>2. CASE InterimExpired
  <2>1. /\ s.tracker < Intervals /\ s' = [s EXCEPT !.tracker = @ + 1]
        /\ again' = InviteToRetransmit(s) /\ s.task # 0 /\ InviteToRetransmit(s) # 0
        /\ peer' = peer /\ faults' = faults
    BY <1>2 DEF InterimExpired
  <2>2. s.tracker + 1 \in 0 .. Intervals
    BY <1>1, <2>1, SessionBoundsAssumption DEF SessionSet
  <2>3. /\ s' \in SessionSet
        /\ s'.state = s.state /\ s'.call = s.call /\ s'.oa = s.oa /\ s'.task = s.task
        /\ s'.start = s.start /\ s'.upd = s.upd /\ s'.queue = s.queue /\ s'.told = s.told
        /\ s'.open = s.open /\ s'.ok = s.ok /\ s'.offers = s.offers /\ s'.bye = s.bye
        /\ s'.pending = s.pending
    BY <1>1, <2>1, <2>2 DEF SessionSet
  <2>4. SInv(s', peer)
    BY <1>1, <2>3, HeldSame DEF SInv, EndInv
  <2> QED
    BY <1>1, <2>1, <2>4, RetransmitFacts, NextInv
<1>3. CASE TaskEnds
  <2>1. /\ s' \in RetryTaskHelper_OnCompleted(s) /\ again' = 0
        /\ peer' = peer /\ faults' = faults
    BY <1>3 DEF TaskEnds, Step
  <2>2. SInv(s', peer)
    BY <1>1, <2>1, RetryTaskInv
  <2> QED
    BY <1>1, <2>1, <2>2, NextInv, Values
<1> QED
  BY <1>2, <1>3 DEF TaskExpires

LEMMA DispatchStepInv ==
    ASSUME IInv, Dispatch
    PROVE  IInv'
<1>1. /\ SInv(s, peer) /\ peer \in PeerSet /\ s.queue # << >>
      /\ LET msg == Head(s.queue)
             t == [s EXCEPT !.queue = Tail(@)] IN
         s' \in IF msg.name = "DELAYED" THEN Dialog_NotifyRequest(t, msg.req)
                ELSE {Told(t, msg.name)}
      /\ again' = 0 /\ faults' = faults /\ peer' = peer
  BY DEF IInv, Dispatch, Step
<1>2. SInv(s', peer)
  BY <1>1, DispatchInv
<1> QED
  BY <1>1, <1>2, NextInv, Values

(* Nothing but an interim expiry sends a 2xx again.                        *)
LEMMA OnlyInterimExpired ==
    ASSUME Next, again' # 0
    PROVE  InterimExpired
  BY DEF Next, AppAccept, AppReject, AppTerminate, RecvInvite, RecvUpdate, RecvRequest,
     RecvAck, RecvCancel, RecvBye, ByeOutcome, TaskExpires, TaskEnds, Dispatch, Step

LEMMA StutterInv ==
    ASSUME IInv, UNCHANGED vars
    PROVE  IInv'
<1>1. /\ SInv(s, peer) /\ s' = s /\ peer' = peer /\ again' = again /\ faults' = faults
      /\ peer \in PeerSet /\ again \in 0 .. MaxInvites
  BY DEF IInv, vars
<1> QED
  BY <1>1, NextInv

-----------------------------------------------------------------------------
(* The theorems.                                                           *)

(* Every reachable session and peer satisfies the invariant.               *)
THEOREM SessionInvariant == Spec => []IInv
<1>1. IInv /\ [Next]_vars => IInv'
  <2> SUFFICES ASSUME IInv, [Next]_vars
               PROVE  IInv'
    OBVIOUS
  <2> QED
    BY AppInv, AppTerminateInv, RecvInviteInv, RecvUpdateInv, RecvAckInv, RecvCancelInv,
       RecvByeInv, ByeOutcomeInv, TaskExpiresInv, DispatchStepInv, StutterInv DEF Next
<1> QED
  BY InitInv, <1>1, PTL DEF Spec

(* The fields keep their types, and only a 2xx that was sent made an offer.*)
THEOREM SessionTypeCorrect == Spec => []SessionTypeOK
<1>1. IInv => SessionTypeOK
  BY DEF IInv, SInv, Held, OpenInv, SessionSet, SessionTypeOK, Msg
<1> QED
  BY SessionInvariant, <1>1, PTL

(* An INVITE without a final response is always where the session will     *)
(* find it, if every response can be sent: on the connection of            *)
(* SESSION_START or SESSION_UPDATE, or in a message of Dialog_NotifyRequest.*)
THEOREM InvitesAreKept == Spec => []NoInviteForgotten
<1>1. ASSUME IInv
      PROVE  NoInviteForgotten
  <2>1. s \in SessionSet /\ InvitesKept(s, {})
    BY <1>1 DEF IInv, SInv, Held
  <2>2. ASSUME NEW r \in Delayed(s.queue)
        PROVE  \E i \in DOMAIN s.queue : s.queue[i] = [name |-> "DELAYED", req |-> r]
    <3>1. PICK i \in DOMAIN s.queue : s.queue[i].name = "DELAYED" /\ s.queue[i].req = r
      BY <2>2 DEF Delayed
    <3>2. s.queue[i] \in Msg
      BY <2>1, <3>1 DEF SessionSet
    <3>3. s.queue[i] = [name |-> "DELAYED", req |-> r]
      BY <3>1, <3>2 DEF Msg
    <3> QED
      BY <3>3
  <2> QED
    BY <2>1, <2>2 DEF NoInviteForgotten, OpenInvites, InvitesKept, Kept
<1> QED
  BY SessionInvariant, <1>1, PTL

(* The state of offer and answer never shows an open offer that no answer, *)
(* no ACK and no end of the session is going to close, if every response   *)
(* can be sent and no re-INVITE has overtaken the ACK (RestoreState and    *)
(* the tables of SdpOaState).                                              *)
THEOREM OffersAreClosed == Spec => []OfferIsOpen
<1>1. IInv => OfferIsOpen
  BY DEF IInv, SInv, Held, OfferInv, OfferIsOpen
<1> QED
  BY SessionInvariant, <1>1, PTL

(* No handler ends the session without a message to the application.       *)
THEOREM EndsAreReported == Spec => []EndIsReported
<1>1. ASSUME IInv
      PROVE  EndIsReported
  <2>1. s \in SessionSet /\ EndInv(s)
    BY <1>1 DEF IInv, SInv, Held
  <2>2. ASSUME NEW name \in Names(s.queue), name \in {"TERMINATED", "START_FAILED"}
        PROVE  Queued({"TERMINATED", "START_FAILED"})
    BY <2>2 DEF Names, Queued
  <2> QED
    BY <2>1, <2>2 DEF EndInv, EndIsReported
<1> QED
  BY SessionInvariant, <1>1, PTL

(* ExecuteCmd chooses the connection by the state of the session, and yet  *)
(* it is that of the INVITE the task was started for.                      *)
THEOREM TaskSendsItsOwn == Spec => RetransmitsItsOwn
<1>1. IInv /\ [Next]_vars => [again' # 0 => again' = s.task]_vars
  <2> SUFFICES ASSUME IInv, Next, again' # 0
               PROVE  again' = s.task
    OBVIOUS
  <2>1. InterimExpired
    BY OnlyInterimExpired
  <2> QED
    BY <2>1, RetransmitFacts DEF InterimExpired
<1> QED
  BY SessionInvariant, <1>1, PTL DEF Spec, RetransmitsItsOwn

(* The ACK that ends a wait ends its retransmission: no 2xx is sent again  *)
(* once its ACK has arrived, whatever requests came in between.            *)
THEOREM NoRetransmissionAfterAck == Spec => AckEndsRetransmission
<1>1. IInv /\ [Next]_vars => [again' # 0 => again' \notin peer.acked]_vars
  <2> SUFFICES ASSUME IInv, Next, again' # 0
               PROVE  again' \notin peer.acked
    OBVIOUS
  <2>1. InterimExpired
    BY OnlyInterimExpired
  <2> QED
    BY <2>1, RetransmitFacts DEF InterimExpired
<1> QED
  BY SessionInvariant, <1>1, PTL DEF Spec, AckEndsRetransmission
=============================================================================
