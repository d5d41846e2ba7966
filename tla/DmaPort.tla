------------------------------ MODULE DmaPort ------------------------------
(***************************************************************************)
(* The receiving side of a serial port on the boards: a circular DMA fills *)
(* rx_buffer, the interrupts of interface.c publish its position, and the  *)
(* main loop drains the ring with drivers/kinetis/serial-port.c.  The DMA  *)
(* neither knows nor respects the consumer index.  An interrupt is one     *)
(* step; it may come between any two steps of the main loop.               *)
(*                                                                         *)
(* Byte n is the n-th byte on the line; 0 is a cleared slot.  The model    *)
(* starts when the application switches the receiver on.                   *)
(***************************************************************************)
EXTENDS Integers, Sequences

CONSTANTS
  N,          \* SERIAL_PORT_BUFFER_SIZE
  Watermark,  \* SERIAL_PORT_BUFFER_SIZE * 95 / 100
  MaxBytes,   \* bound: bytes on the line
  MaxErrors,  \* bound: calls of HAL_UART_ErrorCallback
  MaxFlushes  \* bound: calls of serial_port_clear_rx

ASSUME SizesAssumption ==
  /\ N \in Nat \ {0}
  /\ Watermark \in 0..(N - 1)
  /\ MaxBytes \in Nat

VARIABLES
  rx_buffer, producer, consumer, overflow, received_size,
  re,         \* USART_CR1_RE: the receiver is on
  dma,        \* where the DMA writes next
  burst,      \* bytes since the last idle line
  r_pc, r,    \* the main loop in serial_port_receive_bytes or _clear_rx
  transfer,   \* the port is inside an lrzsz transfer
  sent, line, taken,  \* history: bytes on the line, in the ring, read
  long,       \* history: a burst did not fit above the watermark
  errors, flushes

ring == <<rx_buffer, producer, consumer, overflow>>
uart == <<re, dma, burst>>
reader == <<received_size, r_pc, r, transfer>>
history == <<sent, line, taken, long>>
vars == <<ring, uart, reader, history, errors, flushes>>

Slot == 0..(N - 1)
rx_used(p, c) == IF p >= c THEN p - c ELSE N - (c - p)

Init ==
  /\ rx_buffer = [k \in Slot |-> 0]
  /\ producer = 0 /\ consumer = 0
  /\ overflow = FALSE
  /\ received_size = 0
  /\ re = TRUE
  /\ dma = 0
  /\ burst = 0
  /\ r_pc = "idle" /\ r = 0
  /\ transfer = FALSE
  /\ sent = 0 /\ line = << >> /\ taken = << >>
  /\ long = FALSE
  /\ errors = 0 /\ flushes = 0

-----------------------------------------------------------------------------
\* A byte on the line; without RE it is gone.
Arrive ==
  /\ sent < MaxBytes
  /\ sent' = sent + 1
  /\ IF re THEN /\ rx_buffer' = [rx_buffer EXCEPT ![dma] = sent + 1]
                /\ dma' = (dma + 1) % N
                /\ burst' = burst + 1
                /\ line' = Append(line, sent + 1)
                /\ long' = (long \/ burst + 1 > N - 1 - Watermark)
           ELSE UNCHANGED <<rx_buffer, dma, burst, line, long>>
  /\ UNCHANGED <<producer, consumer, overflow, re, reader, taken, errors, flushes>>

\* Mutant: no overflow protection.
RxEvent_NoProtection ==
  /\ burst > 0
  /\ burst' = 0
  /\ producer' = dma
  /\ UNCHANGED <<rx_buffer, consumer, overflow, re, dma, reader, history, errors, flushes>>

\* Mutant: the receiver goes off and the flag is forgotten.
RxEvent_NotFlagged ==
  /\ burst > 0
  /\ burst' = 0
  /\ producer' = dma
  /\ re' = (re /\ rx_used(dma, consumer) <= Watermark)
  /\ UNCHANGED <<rx_buffer, consumer, overflow, dma, reader, history, errors, flushes>>

\* HAL_UARTEx_RxEventCallback on an idle line; TC and HT are masked.
RxEvent ==
  /\ burst > 0
  /\ burst' = 0
  /\ producer' = dma
  /\ IF rx_used(dma, consumer) > Watermark
     THEN re' = FALSE /\ overflow' = TRUE
     ELSE UNCHANGED <<re, overflow>>
  /\ UNCHANGED <<rx_buffer, consumer, dma, reader, history, errors, flushes>>

\* HAL_UART_ErrorCallback: reception starts over at slot 0, and both indices
\* stay where they are.
UartError ==
  /\ re
  /\ errors < MaxErrors
  /\ errors' = errors + 1
  /\ dma' = 0
  /\ burst' = 0
  /\ UNCHANGED <<ring, re, reader, history, flushes>>

-----------------------------------------------------------------------------
\* serial_port_receive_bytes, and serial_port_clear_rx which ends differently.
ExtractData ==
  /\ r_pc = "idle"
  /\ rx_used(producer, consumer) > 0
  /\ received_size' = rx_used(producer, consumer)
  /\ r' = 0
  /\ r_pc' = "take"
  /\ UNCHANGED <<ring, uart, transfer, history, errors, flushes>>

\* zreadline_flushline, inside a transfer.
ClearRx ==
  /\ r_pc = "idle"
  /\ transfer
  /\ flushes < MaxFlushes
  /\ flushes' = flushes + 1
  /\ received_size' = rx_used(producer, consumer)
  /\ r' = 0
  /\ r_pc' = IF rx_used(producer, consumer) > 0 THEN "clear" ELSE "idle"
  /\ UNCHANGED <<ring, uart, transfer, history, errors>>

\* One round of the copy loop; a flush only clears.
TakeByte ==
  /\ r_pc \in {"take", "clear"}
  /\ taken' = Append(taken, rx_buffer[consumer])
  /\ rx_buffer' = [rx_buffer EXCEPT ![consumer] = 0]
  /\ r_pc' = IF r_pc = "take" THEN "advance" ELSE "clear_advance"
  /\ UNCHANGED <<producer, consumer, overflow, uart, received_size, r, transfer,
                 sent, line, long, errors, flushes>>

AdvanceConsumer ==
  /\ r_pc \in {"advance", "clear_advance"}
  /\ consumer' = (consumer + 1) % N
  /\ \/ /\ r + 1 < received_size
        /\ r' = r + 1
        /\ r_pc' = IF r_pc = "advance" THEN "take" ELSE "clear"
        /\ UNCHANGED received_size
     \/ /\ r + 1 = received_size
        /\ r' = 0
        /\ r_pc' = IF r_pc = "advance" THEN "overflow" ELSE "idle"
        /\ received_size' = IF r_pc = "advance" THEN received_size ELSE 0
  /\ UNCHANGED <<rx_buffer, producer, overflow, uart, transfer, history, errors, flushes>>

\* Mutant: the comparison with the mark is the wrong way round.
Enable_Above ==
  /\ r_pc = "overflow"
  /\ IF overflow /\ rx_used(producer, consumer) > Watermark
     THEN re' = TRUE /\ r_pc' = "enabled"
     ELSE r_pc' = "idle" /\ UNCHANGED re
  /\ UNCHANGED <<ring, dma, burst, received_size, r, transfer, history, errors, flushes>>

\* The end of serial_port_receive_bytes: ops->enable() ...
Enable ==
  /\ r_pc = "overflow"
  /\ IF overflow /\ rx_used(producer, consumer) <= Watermark
     THEN re' = TRUE /\ r_pc' = "enabled"
     ELSE r_pc' = "idle" /\ UNCHANGED re
  /\ UNCHANGED <<ring, dma, burst, received_size, r, transfer, history, errors, flushes>>

\* ... and overflow = 0.
ClearOverflow ==
  /\ r_pc = "enabled"
  /\ overflow' = FALSE
  /\ r_pc' = "idle"
  /\ UNCHANGED <<rx_buffer, producer, consumer, uart, received_size, r, transfer,
                 history, errors, flushes>>

Unread == {(consumer + k) % N : k \in 0..(rx_used(producer, consumer) - 1)}

\* Mutant: the indices keep their values while the DMA starts over.
Config_KeepsIndices ==
  /\ r_pc = "idle"
  /\ transfer' = ~transfer
  /\ received_size' = 0 /\ r' = 0
  /\ re' = TRUE
  /\ dma' = 0 /\ burst' = 0
  /\ taken' = << >> /\ line' = << >>
  /\ UNCHANGED <<ring, r_pc, sent, long, errors, flushes>>

\* io_mode: serial_port_config at both ends of a transfer, after a flush at the
\* end.  It restarts the DMA and resets both indices; HAL_UART_Init switches
\* the receiver on.  The overflow flag keeps its value.
Config ==
  /\ r_pc = "idle"
  /\ transfer' = ~transfer
  /\ rx_buffer' = [k \in Slot |-> IF transfer /\ k \in Unread THEN 0 ELSE rx_buffer[k]]
  /\ producer' = 0 /\ consumer' = 0
  /\ received_size' = 0 /\ r' = 0
  /\ re' = TRUE
  /\ dma' = 0 /\ burst' = 0
  /\ taken' = << >> /\ line' = << >>
  /\ UNCHANGED <<overflow, r_pc, sent, long, errors, flushes>>

Reader == ExtractData \/ TakeByte \/ AdvanceConsumer \/ Enable \/ ClearOverflow

Next == Arrive \/ RxEvent \/ UartError \/ Reader \/ ClearRx \/ Config

Spec == Init /\ [][Next]_vars

\* The main loop keeps polling the port, and a transfer has an end.
FairSpec == Spec /\ WF_vars(Reader) /\ WF_vars(transfer /\ Config)

-----------------------------------------------------------------------------
\* Every variable has its type; indices stay inside the ring, and without
\* errors the DMA stands behind the published bytes.
TypeOK ==
  /\ rx_buffer \in [Slot -> 0..MaxBytes]
  /\ producer \in Slot /\ consumer \in Slot /\ dma \in Slot
  /\ overflow \in BOOLEAN /\ re \in BOOLEAN /\ transfer \in BOOLEAN /\ long \in BOOLEAN
  /\ received_size \in Slot /\ r \in 0..received_size
  /\ r_pc \in {"idle", "take", "advance", "clear", "clear_advance", "overflow", "enabled"}
  /\ sent \in 0..MaxBytes
  /\ line \in Seq(0..MaxBytes) /\ taken \in Seq(0..MaxBytes)
  /\ burst \in 0..Len(line)
  /\ errors \in Nat /\ flushes \in Nat
  /\ errors = 0 => dma = (producer + burst) % N

\* What the main loop reads is, in order, what the DMA wrote: as long as no burst
\* is longer than the room above the 95 percent mark of RxEventCallback, the
\* receiver is off before an unread slot is overwritten.
TakenInOrder ==
  errors = 0 /\ ~long =>
    /\ Len(taken) <= Len(line)
    /\ \A k \in 1..Len(taken) : taken[k] = line[k]

\* The overflow protection of RxEventCallback is undone by the main loop, or by
\* the end of the transfer when serial_port_clear_rx has emptied the ring.  It
\* may also lose its flag, in the gap that OffIsFlagged names.
DeafnessEnds == (~re /\ overflow) ~> (re \/ ~overflow)

\* A receiver that RxEventCallback has switched off is flagged, or nobody would
\* switch it on again.  The one place that loses the flag is between enable()
\* and overflow = 0 in serial_port_receive_bytes.
OffIsFlagged ==
  [][re \/ overflow => re' \/ overflow' \/ r_pc = "enabled"]_vars

=============================================================================
