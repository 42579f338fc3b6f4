-------------------------- MODULE MCAosApplication --------------------------
(* The instances of AosApplication that TLC checks: with whatever may come  *)
(* from outside, and with nothing.                                          *)
EXTENDS AosApplication

MCEvents == EventKinds
MCQuiet == {}
=============================================================================
