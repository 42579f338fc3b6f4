--------------------------- MODULE MCNonInviteNet ---------------------------
(* The instance of SipNonInviteTxnNet that TLC checks.                     *)
EXTENDS SipNonInviteTxnNet
=============================================================================
