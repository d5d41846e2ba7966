---------------------------- MODULE MCBootloader ----------------------------
(***************************************************************************)
(* A firmware region of two chunks; a good image, an image of the same     *)
(* size whose vector table is out of range, an empty file.                 *)
(***************************************************************************)
EXTENDS Bootloader

CONSTANTS good, corrupt, empty

MCImages == {good, corrupt, empty}
MCLen == [i \in MCImages |-> IF i = empty THEN 0 ELSE 2]
MCGoodVector == {good}
=============================================================================
