--------------------------- MODULE SipTxnContract ---------------------------
(***************************************************************************)
(* What a client transaction promises its transaction user, whatever the   *)
(* state machine, the transport and the faults: after a request was sent   *)
(* the user sees provisional responses, then at most one outcome, and the  *)
(* outcome never changes.                                                  *)
(***************************************************************************)
CONSTANTS
    Outcomes,     \* what a final response may be to the user
    TimeoutFrom   \* the views from which a timeout may be reported

VARIABLE user

Pending == {"waiting", "proceeding"}
Init == user = "idle"

Send        == user = "idle" /\ user' \in {"waiting", "aborted"}
Provisional == user \in Pending /\ user' = "proceeding"
Final       == user \in Pending /\ user' \in Outcomes
Timeout     == user \in TimeoutFrom /\ user' = "timedOut"
Abort       == user \in Pending /\ user' = "aborted"

Next == Send \/ Provisional \/ Final \/ Timeout \/ Abort

Spec == Init /\ [][Next]_user
=============================================================================
