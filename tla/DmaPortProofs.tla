--------------------------- MODULE DmaPortProofs ---------------------------
(***************************************************************************)
(* For every ring size, watermark and number of bytes: the indices stay in *)
(* the ring, the main loop reads what the DMA wrote, in order, as long as  *)
(* no burst is longer than the room above the watermark, and the receiver  *)
(* is off without a flag only through the gap behind enable().             *)
(*                                                                         *)
(* TakenInOrder is not inductive.  InOrder adds what makes it so: the      *)
(* three indices are the counts of bytes written, published and consumed   *)
(* modulo N, these differ by less than N, and the slots of the bytes not   *)
(* yet taken hold them.                                                    *)
(***************************************************************************)
EXTENDS DmaPort, TLAPS

-----------------------------------------------------------------------------
(* Counting modulo the ring size. *)

\* The index (n % SERIAL_PORT_BUFFER_SIZE) of a count is in the ring.
LEMMA ModRange ==
  ASSUME NEW n \in Nat, NEW m \in Nat \ {0}
  PROVE  n % m \in 0..(m - 1)
  OBVIOUS

\* An index within the ring is its own remainder.
LEMMA ModSmall ==
  ASSUME NEW m \in Nat \ {0}, NEW n \in 0..(m - 1)
  PROVE  n % m = n
  OBVIOUS

\* The index of a count given by its laps around the ring.
LEMMA ModIs ==
  ASSUME NEW m \in Nat \ {0}, NEW q \in Nat, NEW a \in 0..(m - 1)
  PROVE  ((q * m) + a) % m = a
<1> DEFINE n == (q * m) + a
           p == n \div m
           b == n % m
<1>1. n \in Nat
  OBVIOUS
<1>2. p \in Nat /\ b \in 0..(m - 1) /\ n = (p * m) + b
  BY <1>1
<1>3. (p - q) * m = a - b
  BY <1>2
<1> HIDE DEF p, b
<1>4. CASE p > q
  <2>1. (p - q) * m >= m
    BY <1>2, <1>4
  <2> QED
    BY <1>2, <1>3, <2>1
<1>5. CASE q > p
  <2>1. (q - p) * m >= m
    BY <1>2, <1>5
  <2> QED
    BY <1>2, <1>3, <2>1
<1> QED
  BY <1>2, <1>3, <1>4, <1>5 DEF b

\* A count that is less than a lap ahead is on the same lap or on the next.
LEMMA ModAhead ==
  ASSUME NEW m \in Nat \ {0}, NEW c \in Nat, NEW d \in 0..(m - 1)
  PROVE  (c + d) % m = IF (c % m) + d < m THEN (c % m) + d ELSE (c % m) + d - m
<1> DEFINE q == c \div m
           a == c % m
<1>1. q \in Nat /\ a \in 0..(m - 1) /\ c = (q * m) + a
  OBVIOUS
<1> HIDE DEF q, a
<1>2. CASE a + d < m
  <2>1. c + d = (q * m) + (a + d) /\ a + d \in 0..(m - 1)
    BY <1>1, <1>2
  <2> QED
    BY <1>1, <1>2, <2>1, ModIs DEF a
<1>3. CASE a + d >= m
  <2>1. c + d = ((q + 1) * m) + (a + d - m) /\ a + d - m \in 0..(m - 1) /\ q + 1 \in Nat
    BY <1>1, <1>3
  <2>2. (c + d) % m = a + d - m
    BY <2>1, ModIs
  <2> QED
    BY <1>1, <1>3, <2>2 DEF a
<1> QED
  BY <1>1, <1>2, <1>3

\* An index that is advanced as AdvanceConsumer does follows its count.
LEMMA ModStep ==
  ASSUME NEW n \in Nat, NEW m \in Nat \ {0}
  PROVE  ((n % m) + 1) % m = (n + 1) % m
<1>1. CASE m = 1
  BY <1>1
<1>2. CASE m # 1
  <2>1. 1 \in 0..(m - 1)
    BY <1>2
  <2>2. (n + 1) % m = IF (n % m) + 1 < m THEN (n % m) + 1 ELSE (n % m) + 1 - m
    BY <2>1, ModAhead
  <2> DEFINE a == n % m
  <2>3. a \in 0..(m - 1) /\ (n + 1) % m = IF a + 1 < m THEN a + 1 ELSE a + 1 - m
    BY <2>2
  <2> HIDE DEF a
  <2>4. CASE a + 1 < m
    BY <2>3, <2>4 DEF a
  <2>5. CASE a + 1 = m
    <3>1. m % m = 0
      OBVIOUS
    <3> QED
      BY <2>3, <2>5, <3>1 DEF a
  <2> QED
    BY <2>3, <2>4, <2>5
<1> QED
  BY <1>1, <1>2

\* Counts less than a lap apart have different indices.
LEMMA ModApart ==
  ASSUME NEW m \in Nat \ {0}, NEW a \in Nat, NEW b \in Nat, a < b, b - a < m
  PROVE  a % m # b % m
<1> DEFINE d == b - a
<1>1. d \in 0..(m - 1) /\ d # 0 /\ a + d = b /\ a % m \in 0..(m - 1)
  OBVIOUS
<1> HIDE DEF d
<1>2. (a + d) % m = IF (a % m) + d < m THEN (a % m) + d ELSE (a % m) + d - m
  BY <1>1, ModAhead
<1> QED
  BY <1>1, <1>2

-----------------------------------------------------------------------------
(* The bytes in the ring. *)

\* serial_port_rx_used on the indices of two counts less than a lap apart is
\* their difference.
LEMMA UsedExact ==
  ASSUME N \in Nat \ {0}, NEW c \in Nat, NEW p \in Nat, c <= p, p - c < N
  PROVE  rx_used(p % N, c % N) = p - c
<1> DEFINE a == p % N
           b == c % N
<1>1. a \in 0..(N - 1) /\ b \in 0..(N - 1)
  BY ModRange
<1>2. p - c = a - b \/ p - c = N + (a - b)
  <2> DEFINE d == p - c
  <2>1. d \in 0..(N - 1) /\ c + d = p
    OBVIOUS
  <2> HIDE DEF d
  <2>2. (c + d) % N = IF (c % N) + d < N THEN (c % N) + d ELSE (c % N) + d - N
    BY <2>1, ModAhead
  <2> QED
    BY <1>1, <2>1, <2>2
<1> SUFFICES rx_used(a, b) = p - c
  OBVIOUS
<1> HIDE DEF a, b
<1> QED
  BY <1>1, <1>2 DEF rx_used

\* serial_port_rx_used of two indices is less than the ring.
LEMMA UsedRange ==
  ASSUME N \in Nat \ {0}, NEW p \in Slot, NEW c \in Slot
  PROVE  rx_used(p, c) \in Slot
  BY DEF rx_used, Slot

-----------------------------------------------------------------------------
(* Types. *)

\* Every step of the port keeps its types.
LEMMA TypeStep ==
  ASSUME TypeOK, [Next]_vars
  PROVE  TypeOK'
<1> USE SizesAssumption
<1>1. CASE Arrive
  <2>1. CASE re
    <3>1. errors = 0 => (dma + 1) % N = (producer + burst + 1) % N
      <4> SUFFICES ASSUME errors = 0
                   PROVE  (dma + 1) % N = (producer + burst + 1) % N
        OBVIOUS
      <4>1. producer + burst \in Nat /\ dma = (producer + burst) % N
        BY DEF TypeOK, Slot
      <4> QED
        BY <4>1, ModStep
    <3>2. (dma + 1) % N \in Slot
      BY ModRange DEF TypeOK, Slot
    <3>3. sent + 1 \in 0..MaxBytes
      BY <1>1 DEF Arrive, TypeOK
    <3>4. Len(line') = Len(line) + 1
      BY <1>1, <2>1, <3>3 DEF Arrive, TypeOK
    <3>5. rx_buffer' = [rx_buffer EXCEPT ![dma] = sent + 1] /\ line' = Append(line, sent + 1)
      BY <1>1, <2>1 DEF Arrive
    <3>6. rx_buffer' \in [Slot -> 0..MaxBytes]
      BY <3>3, <3>5 DEF TypeOK
    <3>7. line' \in Seq(0..MaxBytes)
      BY <3>3, <3>5 DEF TypeOK
    <3>8. long' \in BOOLEAN
      BY <1>1, <2>1 DEF Arrive
    <3>9. dma' \in Slot /\ (errors' = 0 => dma' = (producer' + burst') % N)
      <4>1. /\ dma' = (dma + 1) % N /\ burst' = burst + 1
            /\ producer' = producer /\ errors' = errors
        BY <1>1, <2>1 DEF Arrive
      <4>2. producer + (burst + 1) = producer + burst + 1
        BY DEF TypeOK, Slot
      <4> QED
        BY <3>1, <3>2, <4>1, <4>2
    <3>10. sent' \in 0..MaxBytes /\ burst' \in 0..Len(line')
      BY <1>1, <2>1, <3>3, <3>4 DEF Arrive, TypeOK
    <3>11. UNCHANGED <<producer, consumer, overflow, re, received_size, r_pc, r,
                       transfer, taken, errors, flushes>>
      BY <1>1 DEF Arrive, reader
    <3> QED
      BY <3>6, <3>7, <3>8, <3>9, <3>10, <3>11 DEF TypeOK
  <2>2. CASE ~re
    BY <1>1, <2>2 DEF Arrive, TypeOK, reader
  <2> QED
    BY <2>1, <2>2
<1>2. CASE RxEvent
  <2>1. dma % N = dma
    BY ModSmall DEF TypeOK, Slot
  <2>2. re' \in BOOLEAN /\ overflow' \in BOOLEAN
    BY <1>2 DEF RxEvent, TypeOK
  <2>3. producer' \in Slot /\ dma' = (producer' + burst') % N /\ burst' \in 0..Len(line')
    BY <1>2, <2>1 DEF RxEvent, TypeOK, history, Slot
  <2> QED
    BY <1>2, <2>2, <2>3 DEF RxEvent, TypeOK, reader, history
<1>3. CASE UartError
  BY <1>3 DEF UartError, TypeOK, ring, reader, history, Slot
<1>4. CASE ExtractData
  <2>1. rx_used(producer, consumer) \in Slot
    BY UsedRange DEF TypeOK
  <2> QED
    BY <1>4, <2>1 DEF ExtractData, TypeOK, ring, uart, history, Slot
<1>5. CASE TakeByte
  <2>1. rx_buffer[consumer] \in 0..MaxBytes
    BY DEF TypeOK
  <2>2. rx_buffer' \in [Slot -> 0..MaxBytes] /\ taken' \in Seq(0..MaxBytes)
    BY <1>5, <2>1 DEF TakeByte, TypeOK
  <2> QED
    BY <1>5, <2>2 DEF TakeByte, TypeOK, uart
<1>6. CASE AdvanceConsumer
  <2>1. (consumer + 1) % N \in Slot
    BY ModRange DEF TypeOK, Slot
  <2>2. received_size' \in Slot /\ r' \in 0..received_size'
    BY <1>6, SMTT(30) DEF AdvanceConsumer, TypeOK, Slot
  <2>3. r_pc' \in {"take", "clear", "overflow", "idle"}
    BY <1>6 DEF AdvanceConsumer
  <2> QED
    BY <1>6, <2>1, <2>2, <2>3 DEF AdvanceConsumer, TypeOK, uart, history
<1>7. CASE Enable
  BY <1>7 DEF Enable, TypeOK, ring, history
<1>8. CASE ClearOverflow
  BY <1>8 DEF ClearOverflow, TypeOK, uart, history
<1>9. CASE ClearRx
  <2>1. rx_used(producer, consumer) \in Slot
    BY UsedRange DEF TypeOK
  <2> QED
    BY <1>9, <2>1, SMTT(30) DEF ClearRx, TypeOK, ring, uart, history, Slot
<1>10. CASE Config
  <2>1. rx_buffer' \in [Slot -> 0..MaxBytes]
    BY <1>10 DEF Config, TypeOK
  <2>2. 0 % N = 0
    BY ModSmall
  <2> QED
    BY <1>10, <2>1, <2>2 DEF Config, TypeOK, Slot
<1>11. CASE UNCHANGED vars
  BY <1>11 DEF vars, ring, uart, reader, history, TypeOK
<1> QED
  BY <1>1, <1>2, <1>3, <1>4, <1>5, <1>6, <1>7, <1>8, <1>9, <1>10, <1>11 DEF Next, Reader

\* The indices of the receive ring stay inside it and the DMA stands behind the
\* published bytes, in every behaviour of the callbacks and the main loop.
THEOREM TypeCorrect == Spec => []TypeOK
<1>1. Init => TypeOK
  <2>1. 0 % N = 0
    BY SizesAssumption, ModSmall
  <2> QED
    BY SizesAssumption, <2>1 DEF Init, TypeOK, Slot
<1> QED
  BY <1>1, TypeStep, PTL DEF Spec

\* RxEventCallback never leaves the receiver off without the flag that has it
\* switched on again, except in the gap between enable() and overflow = 0.
THEOREM FlaggedWhenOff == Spec => OffIsFlagged
<1>1. ASSUME [Next]_vars
      PROVE  [re \/ overflow => re' \/ overflow' \/ r_pc = "enabled"]_vars
  BY <1>1 DEF Next, Reader, Arrive, RxEvent, UartError, ExtractData, TakeByte,
     AdvanceConsumer, Enable, ClearOverflow, ClearRx, Config, vars, ring, uart, reader
<1> QED
  BY <1>1, PTL DEF Spec, OffIsFlagged

-----------------------------------------------------------------------------
(* Order. *)

Busy == {"take", "advance", "clear", "clear_advance"}
Behind == {"advance", "clear_advance"}  \* a byte taken, its index not advanced

Consumed == Len(taken) - (IF r_pc \in Behind THEN 1 ELSE 0)
Published == Len(line) - burst

Counted ==
  /\ dma = Len(line) % N
  /\ producer = Published % N
  /\ consumer = Consumed % N
  /\ Consumed \in Nat
  /\ Len(taken) <= Published
  /\ r_pc \in Busy =>
       r < received_size /\ Consumed + (received_size - r) <= Published

Bounded ==
  /\ burst <= N - 1 - Watermark
  /\ re => Published - Consumed <= Watermark
  /\ Len(line) - Consumed < N

Held ==
  /\ \A k \in (Len(taken) + 1)..Len(line) : rx_buffer[(k - 1) % N] = line[k]
  /\ \A k \in 1..Len(taken) : taken[k] = line[k]

InOrder == errors = 0 /\ ~long => Counted /\ Bounded /\ Held

\* Every step keeps the order: an interrupt publishes or stops in time, and the
\* main loop consumes only what is published.
LEMMA OrderStep ==
  ASSUME TypeOK, InOrder, [Next]_vars
  PROVE  InOrder'
<1> USE SizesAssumption
<1> SUFFICES ASSUME errors' = 0, ~long'
             PROVE  (Counted /\ Bounded /\ Held)'
  BY DEF InOrder
<1>0. errors = 0 /\ ~long
  <2>1. errors = 0
    BY DEF Next, Reader, Arrive, RxEvent, UartError, ExtractData, TakeByte,
       AdvanceConsumer, Enable, ClearOverflow, ClearRx, Config, vars, TypeOK
  <2>2. ~long
    BY Zenon DEF Next, Reader, Arrive, RxEvent, UartError, ExtractData, TakeByte,
       AdvanceConsumer, Enable, ClearOverflow, ClearRx, Config, vars, history
  <2> QED
    BY <2>1, <2>2
<1>a. Counted /\ Bounded /\ Held
  BY <1>0 DEF InOrder
<1>b. /\ Len(line) \in Nat /\ Len(taken) \in Nat /\ burst \in Nat
      /\ received_size \in Nat /\ r \in Nat /\ Consumed \in Nat /\ Published \in Nat
  <2>1. /\ Len(line) \in Nat /\ Len(taken) \in Nat /\ burst \in Nat
        /\ received_size \in Nat /\ r \in Nat
    BY DEF TypeOK, Slot
  <2>2. Consumed \in Nat /\ Len(taken) <= Published
    BY <1>a DEF Counted
  <2>3. Published \in Int
    BY <2>1 DEF Published
  <2> QED
    BY <2>1, <2>2, <2>3
<1>c. rx_used(producer, consumer) = Published - Consumed
  <2>1. Consumed <= Published
    BY <1>a, <1>b DEF Counted, Consumed
  <2>2. Published - Consumed < N
    BY <1>a, <1>b DEF Bounded, Published
  <2> QED
    BY <1>a, <1>b, <2>1, <2>2, UsedExact DEF Counted
<1>1. CASE Arrive
  <2>1. CASE ~re
    <3>1. UNCHANGED <<rx_buffer, producer, consumer, re, dma, burst, received_size,
                      r_pc, r, line, taken>>
      BY <1>1, <2>1 DEF Arrive, reader
    <3> QED
      BY <1>a, <3>1 DEF Counted, Bounded, Held, Consumed, Published
  <2>2. CASE re
    <3>1. /\ rx_buffer' = [rx_buffer EXCEPT ![dma] = sent + 1]
          /\ dma' = (dma + 1) % N /\ burst' = burst + 1
          /\ line' = Append(line, sent + 1)
          /\ UNCHANGED <<producer, consumer, re, received_size, r_pc, r, taken>>
      BY <1>1, <2>2 DEF Arrive, reader
    <3>2. burst + 1 <= N - 1 - Watermark
      <4>1. long' = (long \/ burst + 1 > N - 1 - Watermark)
        BY <1>1, <2>2 DEF Arrive
      <4>2. ~(burst + 1 > N - 1 - Watermark)
        BY <4>1
      <4> QED
        BY <1>b, <4>2
    <3>3. /\ Len(line') = Len(line) + 1
          /\ \A k \in 1..Len(line) : line'[k] = line[k]
          /\ line'[Len(line) + 1] = sent + 1
      BY <3>1 DEF TypeOK
    <3>4. Published' = Published /\ Consumed' = Consumed
      BY <1>b, <3>1, <3>3 DEF Published, Consumed
    <3>5. Counted'
      <4>0. ((Len(line) % N) + 1) % N = (Len(line) + 1) % N
        BY <1>b, ModStep
      <4>1. dma' = Len(line') % N
        BY <1>a, <3>1, <3>3, <4>0 DEF Counted
      <4> QED
        BY <1>a, <3>1, <3>4, <4>1 DEF Counted
    <3>6. Bounded'
      BY <1>a, <1>b, <2>2, <3>1, <3>2, <3>3, <3>4 DEF Bounded, Published
    <3>7. Held'
      <4>1. ASSUME NEW k \in (Len(taken) + 1)..Len(line)
            PROVE  rx_buffer'[(k - 1) % N] = line'[k]
        <5>1. k - 1 \in Nat /\ k - 1 < Len(line) /\ Len(line) - (k - 1) < N
          BY <1>a, <1>b DEF Bounded, Consumed
        <5>2. (k - 1) % N # dma
          BY <1>a, <1>b, <5>1, ModApart DEF Counted
        <5>3. (k - 1) % N \in Slot
          BY <5>1, ModRange DEF Slot
        <5> QED
          BY <1>a, <1>b, <3>1, <3>3, <5>2, <5>3 DEF Held, TypeOK
      <4>2. rx_buffer'[Len(line) % N] = line'[Len(line) + 1]
        BY <1>a, <3>1, <3>3 DEF Counted, TypeOK
      <4>3. \A k \in (Len(taken') + 1)..Len(line') : rx_buffer'[(k - 1) % N] = line'[k]
        <5> SUFFICES ASSUME NEW k \in (Len(taken) + 1)..(Len(line) + 1)
                     PROVE  rx_buffer'[(k - 1) % N] = line'[k]
          BY <3>1, <3>3
        <5>1. CASE k = Len(line) + 1
          BY <1>b, <4>2, <5>1
        <5>2. CASE k # Len(line) + 1
          BY <1>b, <4>1, <5>2
        <5> QED
          BY <5>1, <5>2
      <4>4. \A k \in 1..Len(taken') : taken'[k] = line'[k]
        <5>1. Len(taken) <= Len(line)
          BY <1>a, <1>b DEF Counted, Published
        <5> QED
          BY <1>a, <1>b, <3>1, <3>3, <5>1 DEF Held
      <4> QED
        BY <4>3, <4>4 DEF Held
    <3> QED
      BY <3>5, <3>6, <3>7
  <2> QED
    BY <2>1, <2>2
<1>2. CASE RxEvent
  <2>1. /\ burst' = 0 /\ producer' = dma
        /\ UNCHANGED <<rx_buffer, consumer, dma, received_size, r_pc, r, line, taken>>
    BY <1>2 DEF RxEvent, reader, history
  <2>2. Published' = Len(line) /\ Consumed' = Consumed
    BY <1>b, <2>1 DEF Published, Consumed
  <2>3. rx_used(dma, consumer) = Len(line) - Consumed
    <3>1. Consumed <= Len(line) /\ Len(line) - Consumed < N
      BY <1>a, <1>b DEF Counted, Bounded, Consumed, Published
    <3> QED
      BY <1>a, <1>b, <3>1, UsedExact DEF Counted
  <2>4. re' => Len(line) - Consumed <= Watermark
    <3>1. CASE rx_used(dma, consumer) > Watermark
      BY <1>2, <3>1 DEF RxEvent
    <3>2. CASE ~(rx_used(dma, consumer) > Watermark)
      BY <1>b, <2>3, <3>2
    <3> QED
      BY <3>1, <3>2
  <2>5. Counted'
    BY <1>a, <1>b, <2>1, <2>2 DEF Counted, Published
  <2>6. Bounded'
    BY <1>a, <1>b, <2>1, <2>2, <2>4 DEF Bounded
  <2>7. Held'
    BY <1>a, <2>1 DEF Held
  <2> QED
    BY <2>5, <2>6, <2>7
<1>3. CASE UartError
  BY <1>0, <1>3 DEF UartError
<1>4. CASE ExtractData
  <2>1. /\ r_pc = "idle" /\ r_pc' = "take" /\ r' = 0
        /\ rx_used(producer, consumer) > 0
        /\ received_size' = rx_used(producer, consumer)
        /\ UNCHANGED <<rx_buffer, producer, consumer, re, dma, burst, line, taken>>
    BY <1>4 DEF ExtractData, ring, uart, history
  <2>2. Published' = Published /\ Consumed' = Consumed
    BY <2>1 DEF Published, Consumed, Behind
  <2>3. Counted'
    BY <1>a, <1>b, <1>c, <2>1, <2>2 DEF Counted
  <2> QED
    BY <1>a, <2>1, <2>2, <2>3 DEF Bounded, Held
<1>5. CASE TakeByte
  <2>1. /\ r_pc \in {"take", "clear"} /\ r_pc' \in Behind
        /\ taken' = Append(taken, rx_buffer[consumer])
        /\ rx_buffer' = [rx_buffer EXCEPT ![consumer] = 0]
        /\ UNCHANGED <<producer, consumer, re, dma, burst, received_size, r, line>>
    BY <1>5 DEF TakeByte, uart, Behind
  <2>2. Consumed = Len(taken)
    BY <1>b, <2>1 DEF Consumed, Behind
  <2>3. rx_buffer[consumer] \in 0..MaxBytes
    BY DEF TypeOK
  <2>4. /\ Len(taken') = Len(taken) + 1
        /\ \A k \in 1..Len(taken) : taken'[k] = taken[k]
        /\ taken'[Len(taken) + 1] = rx_buffer[consumer]
    BY <2>1, <2>3 DEF TypeOK
  <2>5. Published' = Published /\ Consumed' = Consumed
    BY <1>b, <2>1, <2>2, <2>4 DEF Published, Consumed
  <2>6. r < received_size /\ Len(taken) + (received_size - r) <= Published
    BY <1>a, <2>1, <2>2 DEF Counted, Busy
  <2>7. Len(taken) + 1 <= Published /\ Published <= Len(line)
    BY <1>b, <2>6 DEF Published
  <2>8. Counted'
    BY <1>a, <2>1, <2>2, <2>4, <2>5, <2>6, <2>7 DEF Counted
  <2>9. Bounded'
    BY <1>a, <2>1, <2>5 DEF Bounded
  <2>10. Held'
    <3>1. rx_buffer[consumer] = line[Len(taken) + 1]
      <4>1. Len(taken) + 1 \in (Len(taken) + 1)..Len(line) /\ (Len(taken) + 1) - 1 = Len(taken)
        BY <1>b, <2>7
      <4>2. rx_buffer[Len(taken) % N] = line[Len(taken) + 1]
        BY <1>a, <4>1 DEF Held
      <4> QED
        BY <1>a, <2>2, <4>2 DEF Counted
    <3>2. ASSUME NEW k \in (Len(taken) + 2)..Len(line)
          PROVE  rx_buffer'[(k - 1) % N] = line[k]
      <4>1. k - 1 \in Nat /\ Len(taken) < k - 1 /\ (k - 1) - Len(taken) < N
        BY <1>a, <1>b, <2>2 DEF Bounded
      <4>2. (k - 1) % N # consumer
        BY <1>a, <1>b, <2>2, <4>1, ModApart DEF Counted
      <4>3. (k - 1) % N \in Slot
        BY <4>1, ModRange DEF Slot
      <4>4. rx_buffer[(k - 1) % N] = line[k]
        BY <1>a, <1>b DEF Held
      <4> QED
        BY <2>1, <4>2, <4>3, <4>4 DEF TypeOK
    <3>3. ASSUME NEW k \in 1..(Len(taken) + 1)
          PROVE  taken'[k] = line[k]
      <4>1. CASE k = Len(taken) + 1
        BY <2>4, <3>1, <4>1
      <4>2. CASE k # Len(taken) + 1
        BY <1>a, <1>b, <2>4, <4>2 DEF Held
      <4> QED
        BY <4>1, <4>2
    <3>4. (Len(taken') + 1)..Len(line') = (Len(taken) + 2)..Len(line)
      BY <1>b, <2>1, <2>4
    <3> QED
      BY <2>1, <2>4, <3>2, <3>3, <3>4 DEF Held
  <2> QED
    BY <2>8, <2>9, <2>10
<1>6. CASE AdvanceConsumer
  <2>1. /\ r_pc \in Behind /\ consumer' = (consumer + 1) % N
        /\ UNCHANGED <<rx_buffer, producer, re, dma, burst, line, taken>>
    BY <1>6 DEF AdvanceConsumer, uart, history, Behind
  <2>2. \/ r_pc' \in {"take", "clear"} /\ r' = r + 1 /\ r + 1 < received_size
           /\ received_size' = received_size
        \/ r_pc' \in {"overflow", "idle"}
    BY <1>6 DEF AdvanceConsumer
  <2>3. Consumed = Len(taken) - 1
    BY <2>1 DEF Consumed
  <2>4. Published' = Published /\ Consumed' = Consumed + 1
    <3>1. r_pc' \notin Behind
      BY <2>2 DEF Behind
    <3> QED
      BY <1>b, <2>1, <2>3, <3>1 DEF Published, Consumed
  <2>5. Counted'
    <3>1. ((Consumed % N) + 1) % N = (Consumed + 1) % N
      BY <1>b, ModStep
    <3>2. consumer' = Consumed' % N
      BY <1>a, <2>1, <2>4, <3>1 DEF Counted
    <3>3. r_pc' \in Busy =>
            r' < received_size' /\ Consumed' + (received_size' - r') <= Published'
      <4> SUFFICES ASSUME r_pc' \in Busy
                   PROVE  r' < received_size' /\ Consumed' + (received_size' - r') <= Published'
        OBVIOUS
      <4>1. r' = r + 1 /\ r + 1 < received_size /\ received_size' = received_size
        BY <2>2 DEF Busy
      <4>2. Consumed + (received_size - r) <= Published
        BY <1>a, <2>1 DEF Counted, Busy, Behind
      <4> QED
        BY <1>b, <2>4, <4>1, <4>2
    <3>4. Consumed' \in Nat
      BY <1>b, <2>4
    <3> QED
      BY <1>a, <2>1, <2>4, <3>2, <3>3, <3>4 DEF Counted
  <2>6. Bounded'
    BY <1>a, <1>b, <2>1, <2>4 DEF Bounded
  <2>7. Held'
    BY <1>a, <2>1 DEF Held
  <2> QED
    BY <2>5, <2>6, <2>7
<1>7. CASE Enable
  <2>1. /\ r_pc = "overflow" /\ r_pc' \in {"enabled", "idle"}
        /\ UNCHANGED <<rx_buffer, producer, consumer, dma, burst, received_size, r, line, taken>>
    BY <1>7 DEF Enable, ring, history
  <2>2. Published' = Published /\ Consumed' = Consumed
    BY <2>1 DEF Published, Consumed, Behind
  <2>3. re' => Published - Consumed <= Watermark
    <3>1. CASE overflow /\ rx_used(producer, consumer) <= Watermark
      BY <1>c, <3>1
    <3>2. CASE ~(overflow /\ rx_used(producer, consumer) <= Watermark)
      <4>1. re' = re
        BY <1>7, <3>2 DEF Enable
      <4> QED
        BY <1>a, <4>1 DEF Bounded
    <3> QED
      BY <3>1, <3>2
  <2>4. Counted'
    BY <1>a, <2>1, <2>2 DEF Counted, Busy
  <2> QED
    BY <1>a, <2>1, <2>2, <2>3, <2>4 DEF Bounded, Held
<1>8. CASE ClearOverflow
  <2>1. /\ r_pc = "enabled" /\ r_pc' = "idle"
        /\ UNCHANGED <<rx_buffer, producer, consumer, re, dma, burst, received_size, r,
                       line, taken>>
    BY <1>8 DEF ClearOverflow, uart, history
  <2>2. Published' = Published /\ Consumed' = Consumed
    BY <2>1 DEF Published, Consumed, Behind
  <2> QED
    BY <1>a, <2>1, <2>2 DEF Counted, Bounded, Held, Busy
<1>9. CASE ClearRx
  <2>1. /\ r_pc = "idle" /\ r' = 0
        /\ r_pc' = IF rx_used(producer, consumer) > 0 THEN "clear" ELSE "idle"
        /\ received_size' = rx_used(producer, consumer)
        /\ UNCHANGED <<rx_buffer, producer, consumer, re, dma, burst, line, taken>>
    BY <1>9 DEF ClearRx, ring, uart, history
  <2>2. Published' = Published /\ Consumed' = Consumed
    BY <2>1 DEF Published, Consumed, Behind
  <2>3. Counted'
    BY <1>a, <1>b, <1>c, <2>1, <2>2 DEF Counted, Busy
  <2> QED
    BY <1>a, <2>1, <2>2, <2>3 DEF Bounded, Held
<1>10. CASE Config
  <2>1. /\ r_pc = "idle" /\ r_pc' = "idle" /\ producer' = 0 /\ consumer' = 0 /\ dma' = 0
        /\ burst' = 0 /\ taken' = << >> /\ line' = << >>
    BY <1>10 DEF Config
  <2>2. Published' = 0 /\ Consumed' = 0 /\ Len(line') = 0 /\ Len(taken') = 0
    BY <2>1 DEF Published, Consumed, Behind
  <2>3. 0 % N = 0
    BY ModSmall
  <2> QED
    BY <2>1, <2>2, <2>3 DEF Counted, Bounded, Held, Busy
<1>11. CASE UNCHANGED vars
  BY <1>a, <1>11 DEF vars, ring, uart, reader, history, Counted, Bounded, Held,
     Consumed, Published
<1> QED
  BY <1>1, <1>2, <1>3, <1>4, <1>5, <1>6, <1>7, <1>8, <1>9, <1>10, <1>11 DEF Next, Reader

\* serial_port_receive_bytes and serial_port_clear_rx take the bytes that the DMA
\* wrote, in their order and none twice, for every ring size and watermark: no
\* burst longer than the room above the watermark, no receive error.
THEOREM ReadInOrder == Spec => []TakenInOrder
<1>1. Init => InOrder
  <2> SUFFICES ASSUME Init PROVE Counted /\ Bounded /\ Held
    BY DEF InOrder
  <2>1. Published = 0 /\ Consumed = 0 /\ Len(line) = 0 /\ Len(taken) = 0
    BY DEF Init, Published, Consumed, Behind
  <2>2. 0 % N = 0
    BY SizesAssumption, ModSmall
  <2> QED
    BY SizesAssumption, <2>1, <2>2 DEF Init, Counted, Bounded, Held, Busy
<1>2. TypeOK /\ InOrder => TakenInOrder
  BY DEF TypeOK, InOrder, Counted, Held, Published, TakenInOrder
<1> QED
  BY <1>1, <1>2, TypeCorrect, OrderStep, PTL DEF Spec

=============================================================================
