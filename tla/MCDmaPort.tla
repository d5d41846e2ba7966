----------------------------- MODULE MCDmaPort -----------------------------
(***************************************************************************)
(* DmaPort for TLC: the constants are given in the cfg file.               *)
(***************************************************************************)
EXTENDS DmaPort
=============================================================================
