------------------------------- MODULE MCRing -------------------------------
(* Model checking instance of Ring.                                        *)
EXTENDS Ring

\* A relative and an absolute control; a REPLAY follows every failed upload.
MCControls == {[type |-> "PREVIOUS"], [type |-> "PLAY_INDEX", index |-> 1]}
=============================================================================
