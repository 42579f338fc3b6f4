----------------------------- MODULE MCInviteNet -----------------------------
(* The instance of SipInviteTxnNet that TLC checks.                        *)
EXTENDS SipInviteTxnNet

CONSTANT a
=============================================================================
