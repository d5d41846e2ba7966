---------------------------- MODULE AbstractLink ----------------------------
(***************************************************************************)
(* What a serial link promises: a one-message mailbox at the sender and a  *)
(* stream of bytes at the receiver.  A message enters the stream whole and *)
(* in order, with one byte corrupted, or not at all; the stream never      *)
(* holds more than Capacity bytes.                                         *)
(***************************************************************************)
EXTENDS Integers, Sequences

CONSTANTS Capacity, MaxBase

VARIABLES mailbox, stream, out

Init == mailbox = << >> /\ stream = << >> /\ out = << >>

Corrupted(m, k) == [m EXCEPT ![k] = -m[k]]

Submit ==
  /\ mailbox = << >>
  /\ \E n \in 1..Capacity, base \in 0..MaxBase : mailbox' = [k \in 1..n |-> base + k]
  /\ UNCHANGED <<stream, out>>

Carry ==
  /\ mailbox # << >>
  /\ Len(stream) + Len(mailbox) <= Capacity
  /\ \/ stream' = stream \o mailbox
     \/ \E k \in 1..Len(mailbox) : stream' = stream \o Corrupted(mailbox, k)
  /\ mailbox' = << >>
  /\ UNCHANGED out

Lose ==
  /\ mailbox # << >>
  /\ mailbox' = << >>
  /\ UNCHANGED <<stream, out>>

Take ==
  /\ stream # << >>
  /\ out' = Append(out, Head(stream))
  /\ stream' = Tail(stream)
  /\ UNCHANGED mailbox

Next == Submit \/ Carry \/ Lose \/ Take

Spec == Init /\ [][Next]_<<mailbox, stream, out>>
=============================================================================
