--------------------------- MODULE MCInviteClient ---------------------------
(* The instance of SipInviteClientTxn that TLC checks.                     *)
EXTENDS SipInviteClientTxn, TLC

CONSTANTS a, b
=============================================================================
