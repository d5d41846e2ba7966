----------------------------- MODULE SerialPort -----------------------------
(***************************************************************************)
(* The serial link of drivers/kinetis/serial-port.c between two ports in   *)
(* the KINETIS_FAKE_SIM build, one direction of it.  Three threads share   *)
(* it without a lock: the application on the sending port (serial_boy),    *)
(* its thread serial_port_copy_to_others, and the application that drains  *)
(* the receive ring of the other port (serial_girl).                       *)
(*                                                                         *)
(* Every LOAD and STORE of a shared field is a step of its own, as is      *)
(* every byte moved in or out of the ring.  Data: byte n is the n-th byte  *)
(* ever transmitted; a corrupted byte is its negation; 0 is an empty slot. *)
(***************************************************************************)
EXTENDS Integers, Sequences

CONSTANTS
  N,          \* SERIAL_PORT_BUFFER_SIZE
  MaxBytes,   \* bound: bytes transmitted
  MaxFaults,  \* bound: communication_fault_state.remaining
  MaxStops    \* bound: calls of serial_port_stop_thread

ASSUME BoundsAssumption ==
  /\ N \in Nat /\ N >= 2
  /\ MaxBytes \in Nat
  /\ MaxFaults \in Nat
  /\ MaxStops \in Nat

VARIABLES
  \* the sending port
  tx_buffer, transmitted_size, thread_switch, remaining,
  \* locals of serial_port_copy_to_others
  t_pc, size, pos, i, fault_mode,
  \* the receiving port
  rx_buffer, producer, consumer, received_size,
  \* locals of the receiving application
  r_pc, r,
  \* history and bounds
  sent,       \* bytes transmitted so far
  line,       \* bytes the thread put into the ring, in order
  taken,      \* bytes the application took out of the ring, in order
  stops

port == <<tx_buffer, transmitted_size, thread_switch, remaining>>
thread == <<t_pc, size, pos, i, fault_mode>>
ring == <<rx_buffer, producer, consumer>>
reader == <<received_size, r_pc, r>>
history == <<sent, line, taken, stops>>
vars == <<port, thread, ring, reader, history>>

-----------------------------------------------------------------------------
serial_port_available_space == (consumer + N - producer - 1) % N
extracted_size == (producer + N - consumer) % N

Init ==
  /\ tx_buffer = << >>
  /\ transmitted_size = 0
  /\ thread_switch = TRUE
  /\ remaining = MaxFaults
  /\ t_pc = "poll"
  /\ size = 0
  /\ pos = 0
  /\ i = 0
  /\ fault_mode = "none"
  /\ rx_buffer = [k \in 0..(N - 1) |-> 0]
  /\ producer = 0
  /\ consumer = 0
  /\ received_size = 0
  /\ r_pc = "idle"
  /\ r = 0
  /\ sent = 0
  /\ line = << >>
  /\ taken = << >>
  /\ stops = 0

\* serial_port_transmit_bytes: too long a message is cut to what fits, and the
\* call spins until the thread has taken the message before.
TruncatedSize_None(n) == n
TruncatedSize(n) == IF n >= N THEN N - 1 ELSE n
TransmitBytes(n) ==
  /\ transmitted_size = 0
  /\ sent + TruncatedSize(n) <= MaxBytes
  /\ tx_buffer' = [k \in 1..TruncatedSize(n) |-> sent + k]
  /\ transmitted_size' = TruncatedSize(n)
  /\ sent' = sent + TruncatedSize(n)
  /\ UNCHANGED <<thread_switch, remaining, thread, ring, reader, line, taken, stops>>

-----------------------------------------------------------------------------
(***************************************************************************)
(* serial_port_copy_to_others.                                             *)
(***************************************************************************)
\* The head of the loop: take the size, pick a fault.  A dropped message is
\* acknowledged to the sender at once.
ThreadPoll ==
  /\ t_pc = "poll"
  /\ thread_switch
  /\ transmitted_size > 0
  /\ \/ /\ size' = transmitted_size
        /\ t_pc' = "wait"
        /\ \/ fault_mode' = "none" /\ UNCHANGED remaining
           \/ fault_mode' = "corrupt" /\ remaining > 0 /\ remaining' = remaining - 1
        /\ UNCHANGED transmitted_size
     \/ /\ remaining > 0
        /\ remaining' = remaining - 1
        /\ transmitted_size' = 0
        /\ UNCHANGED <<size, t_pc, fault_mode>>
  /\ UNCHANGED <<tx_buffer, thread_switch, pos, i, ring, reader, history>>

\* The loop around usleep: wait until the whole message fits.
SpaceFor_Strict(n) == serial_port_available_space > n
SpaceFor(n) == serial_port_available_space >= n
ThreadWait_PublishFirst ==
  /\ t_pc = "wait"
  /\ thread_switch
  /\ SpaceFor(size)
  /\ pos' = producer
  /\ producer' = (producer + size) % N
  /\ i' = 0
  /\ t_pc' = "copy"
  /\ UNCHANGED <<port, size, fault_mode, rx_buffer, consumer, reader, history>>
ThreadWait ==
  /\ t_pc = "wait"
  /\ thread_switch
  /\ SpaceFor(size)
  /\ pos' = producer
  /\ i' = 0
  /\ t_pc' = "copy"
  /\ UNCHANGED <<port, size, fault_mode, ring, reader, history>>

\* The two memcpy calls, a byte at a time.
ThreadCopy_PublishEach ==
  /\ t_pc = "copy"
  /\ i < size
  /\ rx_buffer' = [rx_buffer EXCEPT ![(pos + i) % N] = tx_buffer[i + 1]]
  /\ line' = Append(line, tx_buffer[i + 1])
  /\ i' = i + 1
  /\ producer' = (pos + i + 1) % N
  /\ UNCHANGED <<port, t_pc, size, pos, fault_mode, consumer, reader, sent,
                 taken, stops>>
ThreadCopy ==
  /\ t_pc = "copy"
  /\ i < size
  /\ rx_buffer' = [rx_buffer EXCEPT ![(pos + i) % N] = tx_buffer[i + 1]]
  /\ line' = Append(line, tx_buffer[i + 1])
  /\ i' = i + 1
  /\ UNCHANGED <<port, t_pc, size, pos, fault_mode, producer, consumer, reader,
                 sent, taken, stops>>

\* COMMUNICATION_FAULT_CORRUPT flips a bit of one byte before it is published.
ThreadCorrupt(offset) ==
  /\ t_pc = "copy"
  /\ i = size
  /\ fault_mode = "corrupt"
  /\ rx_buffer' = [rx_buffer EXCEPT ![(pos + offset) % N] = -tx_buffer[offset + 1]]
  /\ line' = [line EXCEPT ![Len(line) - size + offset + 1] = -tx_buffer[offset + 1]]
  /\ fault_mode' = "none"
  /\ UNCHANGED <<port, t_pc, size, pos, i, producer, consumer, reader, sent,
                 taken, stops>>

\* STORE(producer): the message becomes visible.
ThreadPublish ==
  /\ t_pc = "copy"
  /\ i = size
  /\ fault_mode = "none"
  /\ producer' = (pos + size) % N
  /\ t_pc' = "done"
  /\ UNCHANGED <<port, size, pos, i, fault_mode, rx_buffer, consumer, reader,
                 history>>

\* STORE(transmitted_size, 0): the sender may go on.
ThreadDone ==
  /\ t_pc = "done"
  /\ transmitted_size' = 0
  /\ i' = 0
  /\ t_pc' = "poll"
  /\ UNCHANGED <<tx_buffer, thread_switch, remaining, size, pos, fault_mode,
                 ring, reader, history>>

\* thread_switch is looked at in the two waiting loops only.
ThreadExit ==
  /\ t_pc \in {"poll", "wait"}
  /\ ~thread_switch
  /\ t_pc' = "stopped"
  /\ UNCHANGED <<port, size, pos, i, fault_mode, ring, reader, history>>

\* serial_port_stop_thread and, once pthread_join returned, a new
\* serial_port_start_thread.
StopThread ==
  /\ thread_switch
  /\ stops < MaxStops
  /\ thread_switch' = FALSE
  /\ stops' = stops + 1
  /\ UNCHANGED <<tx_buffer, transmitted_size, remaining, thread, ring, reader,
                 sent, line, taken>>

StartThread ==
  /\ t_pc = "stopped"
  /\ thread_switch' = TRUE
  /\ t_pc' = "poll"
  /\ UNCHANGED <<tx_buffer, transmitted_size, remaining, size, pos, i,
                 fault_mode, ring, reader, history>>

-----------------------------------------------------------------------------
(***************************************************************************)
(* serial_port_receive_bytes and serial_port_clear_rx.                     *)
(***************************************************************************)
\* serial_port_extract_data: LOAD(producer) decides how much is read.
ExtractData_LastByteKept ==
  /\ r_pc = "idle"
  /\ extracted_size > 1
  /\ received_size' = extracted_size - 1
  /\ r' = 0
  /\ r_pc' = "take"
  /\ UNCHANGED <<port, thread, ring, history>>
ExtractData ==
  /\ r_pc = "idle"
  /\ extracted_size > 0
  /\ received_size' = extracted_size
  /\ r' = 0
  /\ r_pc' = "take"
  /\ UNCHANGED <<port, thread, ring, history>>

\* No data before the timeout.
ReceiveTimeout ==
  /\ r_pc = "idle"
  /\ extracted_size = 0
  /\ received_size' = 0
  /\ r' = 0
  /\ UNCHANGED <<port, thread, ring, r_pc, history>>


\* One round of the copy loop: read the slot and clear it ...
TakeByte ==
  /\ r_pc = "take"
  /\ taken' = Append(taken, rx_buffer[consumer])
  /\ rx_buffer' = [rx_buffer EXCEPT ![consumer] = 0]
  /\ r_pc' = "advance"
  /\ UNCHANGED <<port, thread, producer, consumer, received_size, r, sent, line,
                 stops>>

\* ... then STORE(consumer), which gives the slot back to the sender.
AdvanceConsumer ==
  /\ r_pc = "advance"
  /\ consumer' = (consumer + 1) % N
  /\ r' = r + 1
  /\ r_pc' = IF r + 1 = received_size THEN "idle" ELSE "take"
  /\ UNCHANGED <<port, thread, rx_buffer, producer, received_size, history>>

-----------------------------------------------------------------------------
Thread ==
  \/ ThreadPoll
  \/ ThreadWait
  \/ ThreadCopy
  \/ \E offset \in 0..(size - 1) : ThreadCorrupt(offset)
  \/ ThreadPublish
  \/ ThreadDone
  \/ ThreadExit

Reader ==
  \/ ExtractData
  \/ TakeByte
  \/ AdvanceConsumer

Next ==
  \/ \E n \in 1..(N + 1) : TransmitBytes(n)
  \/ Thread
  \/ StopThread
  \/ StartThread
  \/ Reader
  \/ ReceiveTimeout

Spec == Init /\ [][Next]_vars

\* The scheduler runs every thread; the receiving application keeps polling its
\* port, as the loops of the rotor, the stator and the bootloader do; a stopped
\* link is started again.
FairSpec ==
  /\ Spec
  /\ WF_vars(Thread)
  /\ WF_vars(Reader)
  /\ WF_vars(StartThread)

-----------------------------------------------------------------------------
\* Indices stay inside the buffers they index.
TypeOK ==
  /\ tx_buffer \in Seq(Int)
  /\ transmitted_size \in 0..(N - 1)
  /\ Len(tx_buffer) < N
  /\ thread_switch \in BOOLEAN
  /\ remaining \in 0..MaxFaults
  /\ t_pc \in {"poll", "wait", "copy", "done", "stopped"}
  /\ size \in 0..(N - 1)
  /\ pos \in 0..(N - 1)
  /\ i \in 0..size
  /\ fault_mode \in {"none", "corrupt"}
  /\ rx_buffer \in [0..(N - 1) -> Int]
  /\ producer \in 0..(N - 1)
  /\ consumer \in 0..(N - 1)
  /\ received_size \in 0..(N - 1)
  /\ r_pc \in {"idle", "take", "advance"}
  /\ r \in 0..received_size
  /\ sent \in Nat
  /\ line \in Seq(Int)
  /\ taken \in Seq(Int)
  /\ stops \in 0..MaxStops

\* What the application reads from the ring is, byte for byte and in order,
\* what the thread copied into it: no byte is lost to an overwritten slot, read
\* twice, read before it was written or read as the '\0' of a cleared slot.
TakenInOrder ==
  /\ Len(taken) <= Len(line)
  /\ \A k \in 1..Len(taken) : taken[k] = line[k]

\* serial_port_transmit_bytes does not spin for ever on transmitted_size.
TransmitReturns == (transmitted_size > 0) ~> (transmitted_size = 0)

\* Whatever the thread has put on the line reaches the receiving application.
LineIsDrained ==
  \A k \in 1..MaxBytes : (Len(line) >= k) ~> (Len(taken) >= k)

-----------------------------------------------------------------------------
(***************************************************************************)
(* The refinement mapping to AbstractLink.  A message leaves the mailbox   *)
(* when the producer index is stored; the sender learns of it later, when  *)
(* transmitted_size is cleared.                                            *)
(***************************************************************************)
Mailbox == IF transmitted_size > 0 /\ t_pc # "done" THEN tx_buffer ELSE << >>

\* The byte TakeByte has read and AdvanceConsumer has not yet released.
Released == IF r_pc = "advance" THEN 1 ELSE 0

Stream ==
  [k \in 1..(extracted_size - Released) |-> rx_buffer[(consumer + Released + k - 1) % N]]

Link == INSTANCE AbstractLink WITH
  Capacity <- N - 1,
  MaxBase <- MaxBytes,
  mailbox <- Mailbox,
  stream <- Stream,
  out <- taken

\* The threads of serial-port.c implement the abstract link: messages appear at
\* the receiver whole, in order and within the ring's capacity.
ImplementsLink == Link!Spec
=============================================================================
