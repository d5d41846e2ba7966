----------------------------- MODULE MCTimTask -----------------------------
(***************************************************************************)
(* TimTask for TLC: the callers are given in the cfg file.                 *)
(***************************************************************************)
EXTENDS TimTask
=============================================================================
