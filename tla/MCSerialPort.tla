---------------------------- MODULE MCSerialPort ----------------------------
(***************************************************************************)
(* A ring of four slots.                                                   *)
(***************************************************************************)
EXTENDS SerialPort
=============================================================================
