--------------------------- MODULE MCInviteServer ---------------------------
(* The instance of SipInviteServerTxn that TLC checks.                     *)
EXTENDS SipInviteServerTxn
=============================================================================
