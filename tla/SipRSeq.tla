------------------------------- MODULE SipRSeq -------------------------------
(***************************************************************************)
(* The numbers of reliable provisional responses, which both ends of an    *)
(* INVITE compare.  ReliableProvResponseHelper counts them from 1 on; 0    *)
(* stands for none.                                                        *)
(***************************************************************************)
EXTENDS SipTxn

CONSTANT MaxRSeq  \* bound on RSeq values

ASSUME RSeqAssumption == MaxRSeq \in Nat
=============================================================================
