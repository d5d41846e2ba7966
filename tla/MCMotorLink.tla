----------------------------- MODULE MCMotorLink -----------------------------
(***************************************************************************)
(* MotorLink for TLC: the constants are given in the cfg files.            *)
(***************************************************************************)
EXTENDS MotorLink
=============================================================================
