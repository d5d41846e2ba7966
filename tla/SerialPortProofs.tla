-------------------------- MODULE SerialPortProofs --------------------------
(***************************************************************************)
(* For every ring size and any number of bytes, faults and restarts of the *)
(* thread: the indices stay inside the buffers, the application reads from *)
(* the ring, in order, what serial_port_copy_to_others put into it, and    *)
(* the three threads together implement AbstractLink.                      *)
(*                                                                         *)
(* Neither TypeOK nor TakenInOrder is inductive.  Message adds to the      *)
(* types that the thread copies no more than the sender left for it.  The  *)
(* order follows from Counted (the indices are the counts of bytes         *)
(* published and consumed modulo N), Fits (what is written and what is     *)
(* about to be written is less than a lap ahead of what is consumed) and   *)
(* Held (the slots of the bytes not yet taken hold them).  The refinement  *)
(* adds Copied: what is written and not yet published is the message.      *)
(***************************************************************************)
EXTENDS SerialPort, TLAPS

-----------------------------------------------------------------------------
(* Counting modulo the ring size: the indices of the receive ring follow     *)
(* counts of bytes, and the free and used room computed from the indices is  *)
(* the difference of the counts.                                             *)

\* The index (n % SERIAL_PORT_BUFFER_SIZE) of a count is in the ring.
LEMMA ModRange ==
  ASSUME NEW n \in Nat, NEW m \in Nat \ {0}
  PROVE  n % m \in 0..(m - 1)
  OBVIOUS

\* An index within the ring is its own remainder.
LEMMA ModSmall ==
  ASSUME NEW m \in Nat \ {0}, NEW n \in 0..(m - 1)
  PROVE  n % m = n
  OBVIOUS

\* A count is a number of laps around the ring and an index.
LEMMA ModLaps ==
  ASSUME NEW n \in Nat, NEW m \in Nat \ {0}
  PROVE  \E q \in Nat : n = (q * m) + (n % m)
<1>1. n = ((n \div m) * m) + (n % m)
  OBVIOUS
<1>2. n \div m \in Nat
  OBVIOUS
<1> QED
  BY <1>1, <1>2

\* Laps and index are determined by the count.
LEMMA LapsUnique ==
  ASSUME NEW m \in Nat \ {0}, NEW p \in Int, NEW q \in Int,
         NEW a \in 0..(m - 1), NEW b \in 0..(m - 1),
         (p * m) + a = (q * m) + b
  PROVE  p = q /\ a = b
<1>1. (p - q) * m = b - a
  OBVIOUS
<1>2. CASE p > q
  <2>1. (p - q) * m >= m
    BY <1>2
  <2> QED
    BY <1>1, <2>1
<1>3. CASE q > p
  <2>1. (q - p) * m >= m
    BY <1>3
  <2> QED
    BY <1>1, <2>1
<1> QED
  BY <1>1, <1>2, <1>3

\* The index of a count given by its laps.
LEMMA ModIs ==
  ASSUME NEW n \in Nat, NEW m \in Nat \ {0}, NEW q \in Nat, NEW a \in 0..(m - 1),
         n = (q * m) + a
  PROVE  n % m = a
<1>1. PICK p \in Nat : n = (p * m) + (n % m)
  BY ModLaps
<1>2. n % m \in 0..(m - 1)
  BY ModRange
<1> DEFINE b == n % m
<1>3. (p * m) + b = (q * m) + a /\ b \in 0..(m - 1)
  BY <1>1, <1>2
<1> HIDE DEF b
<1>4. a = b
  BY <1>3, LapsUnique
<1> QED
  BY <1>4 DEF b

\* An index that is advanced as AdvanceConsumer does follows its count.
LEMMA ModStep ==
  ASSUME NEW n \in Nat, NEW m \in Nat \ {0}
  PROVE  ((n % m) + 1) % m = (n + 1) % m
<1>1. PICK q \in Nat : n = (q * m) + (n % m)
  BY ModLaps
<1> DEFINE a == n % m
<1>2. a \in 0..(m - 1) /\ n = (q * m) + a
  BY <1>1, ModRange
<1> HIDE DEF a
<1>3. CASE a + 1 < m
  <2>1. (a + 1) % m = a + 1
    BY <1>2, <1>3, ModSmall
  <2>2. n + 1 \in Nat /\ a + 1 \in 0..(m - 1) /\ n + 1 = (q * m) + (a + 1)
    BY <1>2, <1>3
  <2>3. (n + 1) % m = a + 1
    BY <2>2, ModIs
  <2> QED
    BY <2>1, <2>3 DEF a
<1>4. CASE a + 1 = m
  <2>1. m % m = 0
    OBVIOUS
  <2>2. n + 1 \in Nat /\ q + 1 \in Nat /\ 0 \in 0..(m - 1) /\ n + 1 = ((q + 1) * m) + 0
    BY <1>2, <1>4
  <2>3. (n + 1) % m = 0
    BY <2>2, ModIs
  <2> QED
    BY <1>4, <2>1, <2>3 DEF a
<1> QED
  BY <1>2, <1>3, <1>4

\* Counts less than a lap apart have different indices.
LEMMA ModApart ==
  ASSUME NEW m \in Nat \ {0}, NEW a \in Nat, NEW b \in Nat, a < b, b - a < m
  PROVE  a % m # b % m
<1>1. PICK p \in Nat : a = (p * m) + (a % m)
  BY ModLaps
<1>2. PICK q \in Nat : b = (q * m) + (b % m)
  BY ModLaps
<1>3. SUFFICES ASSUME a % m = b % m PROVE FALSE
  OBVIOUS
<1>4. a % m \in 0..(m - 1)
  BY ModRange
<1>5. b - a = (q - p) * m
  BY <1>1, <1>2, <1>3, <1>4
<1>6. q > p
  BY <1>5
<1>7. (q - p) * m >= m
  BY <1>6
<1> QED
  BY <1>5, <1>7

\* An index moved on by several bytes, as a message is copied, follows its count.
LEMMA ModAdd ==
  ASSUME NEW n \in Nat, NEW m \in Nat \ {0}, NEW k \in Nat
  PROVE  ((n % m) + k) % m = (n + k) % m
<1>1. PICK q \in Nat : n = (q * m) + (n % m)
  BY ModLaps
<1> DEFINE a == n % m
<1>2. a \in 0..(m - 1) /\ n = (q * m) + a
  BY <1>1, ModRange
<1> HIDE DEF a
<1>a. a + k \in Nat
  BY <1>2
<1>3. PICK p \in Nat : a + k = (p * m) + ((a + k) % m)
  BY <1>a, ModLaps
<1> DEFINE b == (a + k) % m
<1>4. b \in 0..(m - 1) /\ a + k = (p * m) + b
  BY <1>a, <1>3, ModRange
<1> HIDE DEF b
<1>5. n + k = ((q + p) * m) + b /\ q + p \in Nat /\ n + k \in Nat
  BY <1>2, <1>4
<1>6. (n + k) % m = b
  BY <1>4, <1>5, ModIs
<1> QED
  BY <1>6 DEF a, b

\* Two counts less than a lap apart are on the same lap or on the next.
LEMMA SameOrNextLap ==
  ASSUME NEW m \in Nat \ {0}, NEW c \in Nat, NEW p \in Nat, c <= p, p - c < m
  PROVE  \/ p - c = (p % m) - (c % m)
         \/ p - c = m + ((p % m) - (c % m))
<1>1. PICK k \in Nat : p = (k * m) + (p % m)
  BY ModLaps
<1>2. PICK j \in Nat : c = (j * m) + (c % m)
  BY ModLaps
<1> DEFINE a == p % m
           b == c % m
<1>3. /\ a \in 0..(m - 1) /\ p = (k * m) + a
      /\ b \in 0..(m - 1) /\ c = (j * m) + b
  BY <1>1, <1>2, ModRange
<1> SUFFICES p - c = a - b \/ p - c = m + (a - b)
  OBVIOUS
<1> HIDE DEF a, b
<1>4. p - c = ((k - j) * m) + (a - b)
  BY <1>3
<1>5. CASE k - j >= 2
  <2>1. (k - j) * m >= 2 * m
    BY <1>5
  <2> QED
    BY <1>3, <1>4, <2>1
<1>6. CASE k - j <= -1
  <2>1. (k - j) * m <= -m
    BY <1>6
  <2> QED
    BY <1>3, <1>4, <2>1
<1>7. CASE k - j = 0
  BY <1>3, <1>4, <1>7
<1>8. CASE k - j = 1
  BY <1>3, <1>4, <1>8
<1> QED
  BY <1>5, <1>6, <1>7, <1>8

\* What serial_port_rx_used computes from the indices of two counts is their
\* difference ...
LEMMA UsedIs ==
  ASSUME NEW m \in Nat \ {0}, NEW c \in Nat, NEW p \in Nat, c <= p, p - c < m
  PROVE  ((p % m) + m - (c % m)) % m = p - c
<1> DEFINE a == p % m
           b == c % m
<1>1. a \in 0..(m - 1) /\ b \in 0..(m - 1)
  BY ModRange
<1>2. p - c = a - b \/ p - c = m + (a - b)
  BY SameOrNextLap
<1> SUFFICES (a + m - b) % m = p - c
  OBVIOUS
<1> HIDE DEF a, b
<1> QED
  BY <1>1, <1>2

\* ... and serial_port_available_space is the rest of the ring, less one slot.
LEMMA SpaceIs ==
  ASSUME NEW m \in Nat \ {0}, NEW c \in Nat, NEW p \in Nat, c <= p, p - c < m
  PROVE  ((c % m) + m - (p % m) - 1) % m = m - 1 - (p - c)
<1> DEFINE a == p % m
           b == c % m
<1>1. a \in 0..(m - 1) /\ b \in 0..(m - 1)
  BY ModRange
<1>2. p - c = a - b \/ p - c = m + (a - b)
  BY SameOrNextLap
<1> SUFFICES (b + m - a - 1) % m = m - 1 - (p - c)
  OBVIOUS
<1> HIDE DEF a, b
<1> QED
  BY <1>1, <1>2

-----------------------------------------------------------------------------
(* Types. *)

Message ==
  /\ t_pc \in {"wait", "copy", "done"} => size = transmitted_size /\ size > 0
  /\ transmitted_size > 0 => Len(tx_buffer) = transmitted_size
  /\ t_pc \in {"poll", "wait", "stopped"} => i = 0
  /\ t_pc = "done" => i = size
  /\ r_pc # "idle" => r < received_size

Typed == TypeOK /\ Message

\* The space and the data computed from two indices are less than the ring.
LEMMA SizesInRing ==
  ASSUME TypeOK
  PROVE  extracted_size \in 0..(N - 1)
<1>1. producer + N - consumer \in Nat
  BY BoundsAssumption DEF TypeOK
<1> QED
  BY <1>1, BoundsAssumption, ModRange DEF extracted_size

\* Overwriting one byte of a sequence leaves its length and the other bytes.
LEMMA Overwrite ==
  ASSUME NEW s \in Seq(Int), NEW k \in Int, NEW v \in Int,
         NEW s2, s2 = [s EXCEPT ![k] = v]
  PROVE  /\ s2 \in Seq(Int) /\ Len(s2) = Len(s)
         /\ \A j \in 1..Len(s) : s2[j] = IF j = k THEN v ELSE s[j]
<1>1. s \in [1..Len(s) -> Int] /\ Len(s) \in Nat
  OBVIOUS
<1>2. s2 \in [1..Len(s) -> Int]
  BY <1>1
<1>3. s2 \in Seq(Int) /\ Len(s2) = Len(s)
  BY <1>1, <1>2
<1>4. \A j \in 1..Len(s) : s2[j] = IF j = k THEN v ELSE s[j]
  BY <1>1
<1> QED
  BY <1>3, <1>4

\* A function on 1..d is a sequence of length d.
LEMMA SeqOf ==
  ASSUME NEW d \in Nat, NEW s, s \in [1..d -> Int]
  PROVE  s \in Seq(Int) /\ Len(s) = d
OBVIOUS

\* A sequence is a function on its positions.
LEMMA AsFunction ==
  ASSUME NEW s \in Seq(Int)
  PROVE  s \in [1..Len(s) -> Int]
OBVIOUS

\* The n bytes behind the first b of a sequence.
LEMMA Behind ==
  ASSUME NEW s \in Seq(Int), NEW b \in Nat, NEW n \in Nat, b + n <= Len(s)
  PROVE  \A k \in 1..n : s[b + k] \in Int
<1>1. \A k \in 1..n : b + k \in 1..Len(s)
  OBVIOUS
<1> QED
  BY <1>1

\* A sequence that starts like s and goes on like m is the two after each other.
LEMMA Cat ==
  ASSUME NEW s \in Seq(Int), NEW m \in Seq(Int), NEW t \in Seq(Int),
         Len(t) = Len(s) + Len(m),
         \A k \in 1..Len(s) : t[k] = s[k],
         \A k \in 1..Len(m) : t[Len(s) + k] = m[k]
  PROVE  t = s \o m
<1>1. /\ s \o m \in Seq(Int) /\ Len(s \o m) = Len(t)
      /\ \A k \in 1..Len(t) :
           (s \o m)[k] = IF k <= Len(s) THEN s[k] ELSE m[k - Len(s)]
  OBVIOUS
<1>2. ASSUME NEW k \in 1..Len(t)
      PROVE  t[k] = (s \o m)[k]
  <2>1. CASE k <= Len(s)
    BY <1>1, <2>1
  <2>2. CASE ~(k <= Len(s))
    <3>1. k - Len(s) \in 1..Len(m) /\ Len(s) + (k - Len(s)) = k
      BY <2>2
    <3>2. t[Len(s) + (k - Len(s))] = m[k - Len(s)]
      BY <3>1, Zenon
    <3> QED
      BY <1>1, <2>2, <3>1, <3>2
  <2> QED
    BY <2>1, <2>2
<1> DEFINE g == s \o m
<1>3. g \in Seq(Int) /\ Len(g) = Len(t) /\ \A k \in 1..Len(t) : t[k] = g[k]
  BY <1>1, <1>2, Zenon
<1> HIDE DEF g
<1>4. t = g
  BY <1>3
<1> QED
  BY <1>4 DEF g

\* The bytes of a sequence without its first.
LEMMA Rest ==
  ASSUME NEW s \in Seq(Int), NEW d \in Nat, Len(s) = d, d >= 1
  PROVE  Tail(s) = [k \in 1..(d - 1) |-> s[k + 1]]
<1>1. /\ Tail(s) \in Seq(Int) /\ Len(Tail(s)) = d - 1
      /\ \A k \in 1..(d - 1) : Tail(s)[k] = s[k + 1]
  OBVIOUS
<1>3. Tail(s) \in [1..(d - 1) -> Int]
  BY <1>1, AsFunction, Zenon
<1>2. Tail(s) = [k \in 1..(d - 1) |-> Tail(s)[k]]
  BY <1>3, Zenon
<1> QED
  BY <1>1, <1>2, Zenon

\* Every step of the three threads keeps the types.
LEMMA TypedStep ==
  ASSUME Typed, [Next]_vars
  PROVE  Typed'
<1> USE BoundsAssumption
<1>a. TypeOK /\ Message
  BY DEF Typed
<1>1. ASSUME NEW n \in 1..(N + 1), TransmitBytes(n)
      PROVE  Typed'
  <2> DEFINE t == TruncatedSize(n)
  <2>1. t \in 1..(N - 1)
    BY DEF TruncatedSize
  <2>2. /\ transmitted_size = 0 /\ transmitted_size' = t /\ sent' = sent + t
        /\ tx_buffer' = [k \in 1..t |-> sent + k]
        /\ UNCHANGED <<thread_switch, remaining, t_pc, size, pos, i, fault_mode,
                       rx_buffer, producer, consumer, received_size, r_pc, r,
                       line, taken, stops>>
    BY <1>1 DEF TransmitBytes, thread, ring, reader
  <2> HIDE DEF t
  <2>3. tx_buffer' \in Seq(Int) /\ Len(tx_buffer') = t
    <3>1. \A k \in 1..t : sent + k \in Int
      BY <1>a, <2>1 DEF TypeOK
    <3>2. tx_buffer' \in [1..t -> Int]
      BY <2>2, <3>1
    <3> QED
      BY <2>1, <3>2
  <2>4. t_pc \notin {"wait", "copy", "done"}
    BY <1>a, <2>2 DEF Message, TypeOK
  <2>5. TypeOK'
    BY <1>a, <2>1, <2>2, <2>3 DEF TypeOK
  <2>6. Message'
    BY <1>a, <2>1, <2>2, <2>3, <2>4 DEF Message
  <2> QED
    BY <2>5, <2>6 DEF Typed
<1>2. CASE ThreadPoll
  <2>1. /\ t_pc = "poll" /\ transmitted_size > 0
        /\ UNCHANGED <<tx_buffer, thread_switch, pos, i, rx_buffer, producer, consumer,
                       received_size, r_pc, r, sent, line, taken, stops>>
    BY <1>2 DEF ThreadPoll, ring, reader, history
  <2>2. i = 0
    BY <1>a, <2>1 DEF Message
  <2>3. \/ size' = transmitted_size /\ t_pc' = "wait" /\ transmitted_size' = transmitted_size
        \/ transmitted_size' = 0 /\ size' = size /\ t_pc' = "poll"
    BY <1>2 DEF ThreadPoll
  <2>4. remaining' \in 0..MaxFaults /\ fault_mode' \in {"none", "corrupt"}
    <3>1. remaining' = remaining \/ (remaining > 0 /\ remaining' = remaining - 1)
      BY <1>2 DEF ThreadPoll
    <3>2. fault_mode' \in {"none", "corrupt", fault_mode}
      BY <1>2 DEF ThreadPoll
    <3>3. remaining \in 0..MaxFaults /\ fault_mode \in {"none", "corrupt"}
      BY <1>a, Zenon DEF TypeOK
    <3>4. remaining' \in 0..MaxFaults
      BY <3>1, <3>3
    <3> QED
      BY <3>2, <3>3, <3>4
  <2>5. TypeOK'
    <3>1. /\ transmitted_size' \in 0..(N - 1) /\ size' \in 0..(N - 1) /\ i' \in 0..size'
          /\ t_pc' \in {"wait", "poll"}
      BY <1>a, <2>1, <2>2, <2>3 DEF TypeOK
    <3> QED
      BY <1>a, <2>1, <2>4, <3>1 DEF TypeOK
  <2>6. Message'
    <3>1. ~(0 > 0)
      OBVIOUS
    <3> QED
      BY <1>a, <2>1, <2>2, <2>3, <3>1, SMTT(30) DEF Message
  <2> QED
    BY <2>5, <2>6 DEF Typed
<1>3. CASE ThreadWait
  <2>1. TypeOK'
    BY <1>3, <1>a DEF ThreadWait, TypeOK, port, ring, reader, history
  <2>2. Message'
    BY <1>3, <1>a DEF ThreadWait, Message, port, ring, reader, history
  <2> QED
    BY <2>1, <2>2 DEF Typed
<1>4. CASE ThreadCopy
  <2>1. /\ t_pc = "copy" /\ i < size /\ i' = i + 1
        /\ rx_buffer' = [rx_buffer EXCEPT ![(pos + i) % N] = tx_buffer[i + 1]]
        /\ line' = Append(line, tx_buffer[i + 1])
        /\ UNCHANGED <<tx_buffer, transmitted_size, thread_switch, remaining, t_pc, size,
                       pos, fault_mode, producer, consumer, received_size, r_pc, r,
                       sent, taken, stops>>
    BY <1>4 DEF ThreadCopy, port, reader
  <2>2. tx_buffer[i + 1] \in Int
    BY <1>a, <2>1 DEF TypeOK, Message
  <2>3. rx_buffer' \in [0..(N - 1) -> Int] /\ line' \in Seq(Int)
    <3>1. rx_buffer \in [0..(N - 1) -> Int] /\ line \in Seq(Int)
      BY <1>a DEF TypeOK
    <3>2. rx_buffer' \in [0..(N - 1) -> Int]
      BY <2>1, <2>2, <3>1
    <3>3. line' \in Seq(Int)
      BY <2>1, <2>2, <3>1
    <3> QED
      BY <3>2, <3>3
  <2>4. i' \in 0..size'
    BY <1>a, <2>1 DEF TypeOK
  <2>5. TypeOK'
    BY <1>a, <2>1, <2>3, <2>4 DEF TypeOK
  <2>6. Message'
    BY <1>a, <2>1 DEF Message
  <2> QED
    BY <2>5, <2>6 DEF Typed
<1>5. ASSUME NEW offset \in 0..(size - 1), ThreadCorrupt(offset)
      PROVE  Typed'
  <2>1. /\ t_pc = "copy"
        /\ rx_buffer' = [rx_buffer EXCEPT ![(pos + offset) % N] = -tx_buffer[offset + 1]]
        /\ line' = [line EXCEPT ![Len(line) - size + offset + 1] = -tx_buffer[offset + 1]]
        /\ fault_mode' = "none"
        /\ UNCHANGED <<tx_buffer, transmitted_size, thread_switch, remaining, t_pc, size,
                       pos, i, producer, consumer, received_size, r_pc, r,
                       sent, taken, stops>>
    BY <1>5 DEF ThreadCorrupt, port, reader
  <2>2. tx_buffer[offset + 1] \in Int
    BY <1>a, <2>1 DEF TypeOK, Message
  <2>3. -tx_buffer[offset + 1] \in Int
    BY <2>2
  <2>4. rx_buffer' \in [0..(N - 1) -> Int] /\ line' \in Seq(Int)
    <3>1. rx_buffer' \in [0..(N - 1) -> Int]
      BY <1>a, <2>1, <2>3 DEF TypeOK
    <3>2. line \in Seq(Int) /\ Len(line) - size + offset + 1 \in Int
      BY <1>a DEF TypeOK
    <3>3. line' \in Seq(Int)
      BY <2>1, <2>3, <3>2, Overwrite
    <3> QED
      BY <3>1, <3>3
  <2>5. TypeOK'
    BY <1>a, <2>1, <2>4 DEF TypeOK
  <2>6. Message'
    BY <1>a, <2>1 DEF Message
  <2> QED
    BY <2>5, <2>6 DEF Typed
<1>6. CASE ThreadPublish
  <2>1. (pos + size) % N \in 0..(N - 1)
    <3>1. pos + size \in Nat
      BY <1>a DEF TypeOK
    <3> QED
      BY <3>1, ModRange
  <2>2. TypeOK'
    BY <1>6, <1>a, <2>1 DEF ThreadPublish, TypeOK, port, reader, history
  <2>3. Message'
    BY <1>6, <1>a DEF ThreadPublish, Message, port, reader, history
  <2> QED
    BY <2>2, <2>3 DEF Typed
<1>7. CASE ThreadDone
  <2>1. TypeOK'
    BY <1>7, <1>a DEF ThreadDone, TypeOK, ring, reader, history
  <2>2. Message'
    BY <1>7, <1>a DEF ThreadDone, Message, ring, reader, history
  <2> QED
    BY <2>1, <2>2 DEF Typed
<1>8. CASE ThreadExit
  <2>1. TypeOK'
    BY <1>8, <1>a DEF ThreadExit, TypeOK, port, ring, reader, history
  <2>2. Message'
    BY <1>8, <1>a DEF ThreadExit, Message, port, ring, reader, history
  <2> QED
    BY <2>1, <2>2 DEF Typed
<1>9. CASE StopThread
  <2>1. TypeOK'
    <3>1. stops' \in 0..MaxStops /\ thread_switch' \in BOOLEAN
      <4>1. stops < MaxStops /\ stops' = stops + 1 /\ thread_switch' = FALSE
        BY <1>9, Zenon DEF StopThread
      <4>2. stops \in 0..MaxStops
        BY <1>a, Zenon DEF TypeOK
      <4>3. stops' \in 0..MaxStops
        BY <4>1, <4>2
      <4> QED
        BY <4>1, <4>3, Zenon
    <3>2. UNCHANGED <<tx_buffer, transmitted_size, remaining, t_pc, size, pos, i,
                      fault_mode, rx_buffer, producer, consumer, received_size,
                      r_pc, r, sent, line, taken>>
      BY <1>9 DEF StopThread, thread, ring, reader
    <3> QED
      BY <1>a, <3>1, <3>2 DEF TypeOK
  <2>2. Message'
    BY <1>9, <1>a DEF StopThread, Message, thread, ring, reader
  <2> QED
    BY <2>1, <2>2 DEF Typed
<1>10. CASE StartThread
  <2>1. TypeOK'
    BY <1>10, <1>a DEF StartThread, TypeOK, ring, reader, history
  <2>2. Message'
    BY <1>10, <1>a DEF StartThread, Message, ring, reader, history
  <2> QED
    BY <2>1, <2>2 DEF Typed
<1>11. CASE ExtractData
  <2>1. extracted_size \in 0..(N - 1)
    BY <1>a, SizesInRing
  <2>2. TypeOK'
    BY <1>11, <1>a, <2>1 DEF ExtractData, TypeOK, port, thread, ring, history
  <2>3. Message'
    BY <1>11, <1>a, <2>1 DEF ExtractData, Message, port, thread, ring, history
  <2> QED
    BY <2>2, <2>3 DEF Typed
<1>12. CASE TakeByte
  <2>1. rx_buffer[consumer] \in Int
    BY <1>a DEF TypeOK
  <2>2. rx_buffer' \in [0..(N - 1) -> Int] /\ taken' \in Seq(Int)
    BY <1>12, <1>a, <2>1 DEF TakeByte, TypeOK
  <2>3. TypeOK'
    BY <1>12, <1>a, <2>2 DEF TakeByte, TypeOK, port, thread
  <2>4. Message'
    BY <1>12, <1>a DEF TakeByte, Message, port, thread
  <2> QED
    BY <2>3, <2>4 DEF Typed
<1>13. CASE AdvanceConsumer
  <2>1. (consumer + 1) % N \in 0..(N - 1)
    <3>1. consumer + 1 \in Nat
      BY <1>a DEF TypeOK
    <3> QED
      BY <3>1, ModRange
  <2>2. r < received_size
    BY <1>13, <1>a DEF AdvanceConsumer, Message
  <2>3. TypeOK'
    BY <1>13, <1>a, <2>1, <2>2 DEF AdvanceConsumer, TypeOK, port, thread, history
  <2>4. r_pc' # "idle" => r' < received_size'
    BY <1>13, <1>a, <2>2 DEF AdvanceConsumer, TypeOK
  <2>5. Message'
    BY <1>13, <1>a, <2>4 DEF AdvanceConsumer, Message, port, thread, history
  <2> QED
    BY <2>3, <2>5 DEF Typed
<1>14. CASE ReceiveTimeout
  <2>1. TypeOK'
    BY <1>14, <1>a DEF ReceiveTimeout, TypeOK, port, thread, ring, history
  <2>2. Message'
    BY <1>14, <1>a DEF ReceiveTimeout, Message, port, thread, ring, history
  <2> QED
    BY <2>1, <2>2 DEF Typed
<1>15. CASE UNCHANGED vars
  <2>1. TypeOK'
    BY <1>15, <1>a DEF TypeOK, vars, port, thread, ring, reader, history
  <2>2. Message'
    BY <1>15, <1>a DEF Message, vars, port, thread, ring, reader, history
  <2> QED
    BY <2>1, <2>2 DEF Typed
<1> QED
  BY <1>1, <1>2, <1>3, <1>4, <1>5, <1>6, <1>7, <1>8, <1>9, <1>10, <1>11, <1>12,
     <1>13, <1>14, <1>15 DEF Next, Thread, Reader

\* The indices of the transmit buffer and of the receive ring stay inside them,
\* in every interleaving of the sender, the thread and the receiver.
THEOREM TypeCorrect == Spec => []TypeOK
<1>1. Init => Typed
  BY BoundsAssumption DEF Init, Typed, TypeOK, Message
<1>2. Typed => TypeOK
  BY DEF Typed
<1> QED
  BY <1>1, <1>2, TypedStep, PTL DEF Spec

-----------------------------------------------------------------------------
(* Order. *)

\* Bytes written and not yet published, bytes taken whose slot is not yet free.
Unpublished == IF t_pc = "copy" THEN i ELSE 0
Published == Len(line) - Unpublished
Consumed == Len(taken) - (IF r_pc = "advance" THEN 1 ELSE 0)

Counted ==
  /\ Consumed \in Nat
  /\ Len(taken) <= Published
  /\ producer = Published % N
  /\ consumer = Consumed % N
  /\ t_pc = "copy" => pos = producer
  /\ r_pc # "idle" => Consumed + (received_size - r) <= Published

Fits ==
  /\ Published - Consumed < N
  /\ t_pc = "copy" => Published + size - Consumed < N

Held ==
  /\ \A k \in (Len(taken) + 1)..Len(line) : rx_buffer[(k - 1) % N] = line[k]
  /\ \A k \in 1..Len(taken) : taken[k] = line[k]

InOrder == Counted /\ Fits /\ Held

\* A byte written behind the last one overwrites none that is not yet taken.
LEMMA CopyStep ==
  ASSUME Typed, InOrder, ThreadCopy
  PROVE  InOrder'
<1> USE BoundsAssumption
<1>a. TypeOK /\ Message /\ Counted /\ Fits /\ Held
  BY DEF Typed, InOrder
<1> DEFINE v == tx_buffer[i + 1]
<1>1. /\ t_pc = "copy" /\ i < size /\ i' = i + 1
      /\ rx_buffer' = [rx_buffer EXCEPT ![(pos + i) % N] = v]
      /\ line' = Append(line, v)
      /\ UNCHANGED <<t_pc, size, pos, producer, consumer, received_size, r_pc, r, taken>>
  BY DEF ThreadCopy, reader
<1>2. v \in Int
  BY <1>a, <1>1 DEF TypeOK, Message
<1> HIDE DEF v
<1>b. /\ Len(line) \in Nat /\ Len(taken) \in Nat /\ i \in Nat /\ size \in Nat
      /\ Consumed \in Nat /\ Published \in Nat /\ Published + i = Len(line)
  <2>1. Published = Len(line) - i
    BY <1>1 DEF Published, Unpublished
  <2>2. Len(line) \in Nat /\ Len(taken) \in Nat /\ i \in Nat /\ size \in Nat
    BY <1>a DEF TypeOK
  <2>3. Consumed \in Nat /\ Len(taken) <= Published
    BY <1>a DEF Counted
  <2> QED
    BY <2>1, <2>2, <2>3
<1>3. /\ Len(line') = Len(line) + 1
      /\ \A k \in 1..Len(line) : line'[k] = line[k]
      /\ line'[Len(line) + 1] = v
  BY <1>a, <1>1, <1>2 DEF TypeOK
<1>4. Published' = Published /\ Consumed' = Consumed
  BY <1>b, <1>1, <1>3 DEF Published, Unpublished, Consumed
<1>5. (pos + i) % N = Len(line) % N
  <2>1. pos = Published % N
    BY <1>a, <1>1 DEF Counted
  <2> QED
    BY <1>b, <2>1, ModAdd
<1>6. Counted'
  BY <1>a, <1>1, <1>4 DEF Counted
<1>7. Fits'
  BY <1>a, <1>1, <1>4 DEF Fits
<1>8. Held'
  <2>1. ASSUME NEW k \in (Len(taken) + 1)..Len(line)
        PROVE  rx_buffer'[(k - 1) % N] = line'[k]
    <3>1. k - 1 \in Nat /\ k - 1 < Len(line) /\ Len(line) - (k - 1) < N
      BY <1>a, <1>b, <1>1 DEF Fits, Consumed
    <3>2. (k - 1) % N # Len(line) % N
      <4>1. N \in Nat \ {0} /\ Len(line) \in Nat
        BY <1>b
      <4> QED
        BY <3>1, <4>1, ModApart, Zenon
    <3>3. (k - 1) % N \in 0..(N - 1)
      BY <3>1, ModRange
    <3>4. rx_buffer[(k - 1) % N] = line[k] /\ line'[k] = line[k]
      BY <1>a, <1>b, <1>3 DEF Held
    <3> QED
      BY <1>a, <1>1, <1>5, <3>2, <3>3, <3>4 DEF TypeOK
  <2>2. rx_buffer'[Len(line) % N] = line'[Len(line) + 1]
    <3>1. Len(line) % N \in 0..(N - 1)
      BY <1>b, ModRange
    <3> QED
      BY <1>a, <1>1, <1>3, <1>5, <3>1 DEF TypeOK
  <2>3. \A k \in (Len(taken') + 1)..Len(line') : rx_buffer'[(k - 1) % N] = line'[k]
    <3> SUFFICES ASSUME NEW k \in (Len(taken) + 1)..(Len(line) + 1)
                 PROVE  rx_buffer'[(k - 1) % N] = line'[k]
      BY <1>1, <1>3
    <3>1. CASE k = Len(line) + 1
      BY <1>b, <2>2, <3>1
    <3>2. CASE k # Len(line) + 1
      BY <1>b, <2>1, <3>2
    <3> QED
      BY <3>1, <3>2
  <2>4. \A k \in 1..Len(taken') : taken'[k] = line'[k]
    <3>1. Len(taken) <= Len(line)
      BY <1>a, <1>b DEF Counted
    <3> QED
      BY <1>a, <1>b, <1>1, <1>3, <3>1 DEF Held
  <2> QED
    BY <2>3, <2>4 DEF Held
<1> QED
  BY <1>6, <1>7, <1>8 DEF InOrder

\* COMMUNICATION_FAULT_CORRUPT changes a byte that is not yet published, in the
\* ring as on the line.
LEMMA CorruptStep ==
  ASSUME Typed, InOrder, NEW offset \in Nat, offset < size, ThreadCorrupt(offset)
  PROVE  InOrder'
<1> USE BoundsAssumption
<1>a. TypeOK /\ Message /\ Counted /\ Fits /\ Held
  BY DEF Typed, InOrder
<1>n. N \in Nat \ {0}
  OBVIOUS
<1> DEFINE v == -tx_buffer[offset + 1]
           c == Len(line) - size + offset + 1
<1>1. /\ t_pc = "copy" /\ i = size
      /\ rx_buffer' = [rx_buffer EXCEPT ![(pos + offset) % N] = v]
      /\ line' = [line EXCEPT ![c] = v]
      /\ UNCHANGED <<t_pc, size, i, pos, producer, consumer, received_size, r_pc, r, taken>>
  BY DEF ThreadCorrupt, reader
<1>2. v \in Int
  <2>1. tx_buffer[offset + 1] \in Int
    BY <1>a, <1>1 DEF TypeOK, Message
  <2> QED
    BY <2>1
<1> HIDE DEF v
<1>b. /\ Len(line) \in Nat /\ Len(taken) \in Nat /\ size \in Nat
      /\ Consumed \in Nat /\ Published \in Nat /\ Published + size = Len(line)
  <2>1. Published = Len(line) - size
    BY <1>1 DEF Published, Unpublished
  <2>2. Len(line) \in Nat /\ Len(taken) \in Nat /\ size \in Nat
    BY <1>a DEF TypeOK
  <2>3. Consumed \in Nat /\ Len(taken) <= Published
    BY <1>a DEF Counted
  <2> QED
    BY <2>1, <2>2, <2>3
<1>3. c = Published + offset + 1 /\ c \in 1..Len(line) /\ c > Len(taken)
  BY <1>a, <1>b DEF Counted
<1> HIDE DEF c
<1>4. (pos + offset) % N = (c - 1) % N
  <2>1. pos = Published % N
    BY <1>a, <1>1 DEF Counted
  <2>2. c - 1 = Published + offset /\ Published \in Nat
    BY <1>b, <1>3
  <2>3. ((Published % N) + offset) % N = (Published + offset) % N
    BY <1>n, <2>2, ModAdd, Zenon
  <2> QED
    BY <2>1, <2>2, <2>3
<1>5. /\ Len(line') = Len(line)
      /\ \A j \in 1..Len(line) : line'[j] = IF j = c THEN v ELSE line[j]
  <2>1. line \in Seq(Int) /\ c \in Int
    BY <1>a, <1>3 DEF TypeOK
  <2> QED
    BY <1>1, <1>2, <2>1, Overwrite
<1>6. Published' = Published /\ Consumed' = Consumed
  BY <1>1, <1>5 DEF Published, Unpublished, Consumed
<1>7. Counted'
  BY <1>a, <1>1, <1>6 DEF Counted
<1>8. Fits'
  BY <1>a, <1>1, <1>6 DEF Fits
<1>9. Held'
  <2>0. c - 1 \in Nat /\ (c - 1) % N \in 0..(N - 1)
    <3>1. c - 1 \in Nat
      BY <1>3
    <3> QED
      BY <1>n, <3>1, ModRange, Zenon
  <2>1. ASSUME NEW k \in (Len(taken) + 1)..Len(line)
        PROVE  rx_buffer'[(k - 1) % N] = line'[k]
    <3>0. k - 1 \in Nat /\ k \in 1..Len(line)
      BY <1>b
    <3>1. (k - 1) % N \in 0..(N - 1)
      BY <1>n, <3>0, ModRange, Zenon
    <3>2. CASE k = c
      BY <1>a, <1>1, <1>4, <1>5, <2>0, <3>0, <3>2 DEF TypeOK
    <3>3. CASE k # c
      <4>1. Len(line) - Len(taken) <= N
        BY <1>a, <1>b, <1>1 DEF Fits, Consumed
      <4>2. \/ k - 1 < c - 1 /\ (c - 1) - (k - 1) < N
            \/ c - 1 < k - 1 /\ (k - 1) - (c - 1) < N
        BY <1>b, <1>3, <3>3, <4>1
      <4>3. (k - 1) % N # (c - 1) % N
        <5>1. k - 1 \in Nat /\ c - 1 \in Nat
          BY <2>0, <3>0
        <5> QED
          BY <1>n, <4>2, <5>1, ModApart, Zenon
      <4>4. rx_buffer[(k - 1) % N] = line[k]
        BY <1>a DEF Held
      <4> QED
        BY <1>a, <1>1, <1>4, <1>5, <3>0, <3>1, <3>3, <4>3, <4>4 DEF TypeOK
    <3> QED
      BY <3>2, <3>3
  <2>2. ASSUME NEW k \in 1..Len(taken)
        PROVE  taken'[k] = line'[k]
    <3>1. k \in 1..Len(line) /\ k # c
      BY <1>b, <1>3
    <3> QED
      BY <1>a, <1>1, <1>5, <3>1 DEF Held
  <2> QED
    BY <1>1, <1>5, <2>1, <2>2 DEF Held
<1> QED
  BY <1>7, <1>8, <1>9 DEF InOrder

\* The message is published when all of it is in the ring.
LEMMA PublishStep ==
  ASSUME Typed, InOrder, ThreadPublish
  PROVE  InOrder'
<1>n. N \in Nat \ {0}
  BY BoundsAssumption
<1>a. TypeOK /\ Counted /\ Fits /\ Held
  BY DEF Typed, InOrder
<1>1. /\ t_pc = "copy" /\ i = size /\ producer' = (pos + size) % N /\ t_pc' = "done"
      /\ UNCHANGED <<rx_buffer, consumer, received_size, r_pc, r, line, taken>>
  BY DEF ThreadPublish, reader, history
<1>b. /\ Len(line) \in Nat /\ size \in Nat /\ received_size \in Nat /\ r \in Nat
      /\ Consumed \in Nat /\ Published \in Nat /\ Published + size = Len(line)
      /\ Len(taken) \in Nat
  <2>1. Published = Len(line) - size
    BY <1>1 DEF Published, Unpublished
  <2>2. /\ Len(line) \in Nat /\ Len(taken) \in Nat /\ size \in Nat
        /\ received_size \in Nat /\ r \in Nat
    BY BoundsAssumption, <1>a DEF TypeOK
  <2>3. Consumed \in Nat /\ Len(taken) <= Published
    BY <1>a DEF Counted
  <2> QED
    BY <2>1, <2>2, <2>3
<1>2. Published' = Published + size /\ Consumed' = Consumed
  BY <1>1, <1>b DEF Published, Unpublished, Consumed
<1>3. producer' = Published' % N
  <2>1. pos = Published % N
    BY <1>a, <1>1 DEF Counted
  <2>0. Published \in Nat /\ size \in Nat
    BY <1>b
  <2>2. ((Published % N) + size) % N = (Published + size) % N
    BY <1>n, <2>0, ModAdd, Zenon
  <2> QED
    BY <1>1, <1>2, <2>1, <2>2
<1>4. Counted'
  BY <1>a, <1>b, <1>1, <1>2, <1>3 DEF Counted
<1>5. Fits'
  BY <1>a, <1>b, <1>1, <1>2 DEF Fits
<1>6. Held'
  BY <1>a, <1>1 DEF Held
<1> QED
  BY <1>4, <1>5, <1>6 DEF InOrder

\* A byte is taken from the slot that holds it, and none behind it is cleared.
LEMMA TakeStep ==
  ASSUME Typed, InOrder, TakeByte
  PROVE  InOrder'
<1>n. N \in Nat \ {0}
  BY BoundsAssumption
<1>a. TypeOK /\ Message /\ Counted /\ Fits /\ Held
  BY DEF Typed, InOrder
<1>1. /\ r_pc = "take" /\ r_pc' = "advance"
      /\ taken' = Append(taken, rx_buffer[consumer])
      /\ rx_buffer' = [rx_buffer EXCEPT ![consumer] = 0]
      /\ UNCHANGED <<t_pc, size, i, pos, producer, consumer, received_size, r, line>>
  BY DEF TakeByte, thread
<1>b. /\ Len(line) \in Nat /\ Len(taken) \in Nat /\ i \in Nat /\ size \in Nat
      /\ received_size \in Nat /\ r \in Nat /\ i <= size
  BY BoundsAssumption, <1>a DEF TypeOK
<1>2. Consumed = Len(taken)
  BY <1>b, <1>1 DEF Consumed
<1>3. /\ Len(taken') = Len(taken) + 1
      /\ \A k \in 1..Len(taken) : taken'[k] = taken[k]
      /\ taken'[Len(taken) + 1] = rx_buffer[consumer]
  <2>1. rx_buffer[consumer] \in Int
    BY <1>a DEF TypeOK
  <2> QED
    BY <1>a, <1>1, <2>1 DEF TypeOK
<1>4. Published' = Published /\ Consumed' = Consumed
  BY <1>b, <1>1, <1>2, <1>3 DEF Published, Unpublished, Consumed
<1>c. Published \in Int /\ Published <= Len(line)
  BY <1>b DEF Published, Unpublished
<1>5. Len(taken) + 1 <= Published /\ Len(taken) + (received_size - r) <= Published
  <2>1. r < received_size /\ Consumed + (received_size - r) <= Published
    BY <1>a, <1>1 DEF Counted, Message
  <2> QED
    BY <1>b, <1>c, <1>2, <2>1
<1>6. Counted'
  BY <1>a, <1>1, <1>2, <1>3, <1>4, <1>5 DEF Counted
<1>7. Fits'
  BY <1>a, <1>1, <1>4 DEF Fits
<1>8. Held'
  <2>0. consumer = Len(taken) % N
    BY <1>a, <1>2 DEF Counted
  <2>1. rx_buffer[consumer] = line[Len(taken) + 1]
    <3>1. Len(taken) + 1 \in (Len(taken) + 1)..Len(line) /\ (Len(taken) + 1) - 1 = Len(taken)
      BY <1>b, <1>c, <1>5
    <3>2. rx_buffer[Len(taken) % N] = line[Len(taken) + 1]
      BY <1>a, <3>1 DEF Held
    <3> QED
      BY <2>0, <3>2
  <2>2. ASSUME NEW k \in (Len(taken) + 2)..Len(line)
        PROVE  rx_buffer'[(k - 1) % N] = line[k]
    <3>0. Len(line) - Len(taken) < N
      <4>1. CASE t_pc = "copy"
        BY <1>a, <1>b, <1>n, <1>2, <4>1 DEF Fits, Published, Unpublished
      <4>2. CASE t_pc # "copy"
        BY <1>a, <1>b, <1>n, <1>2, <4>2 DEF Fits, Published, Unpublished
      <4> QED
        BY <4>1, <4>2
    <3>1. k - 1 \in Nat /\ Len(taken) < k - 1 /\ (k - 1) - Len(taken) < N
      BY <1>b, <1>n, <3>0
    <3>2. (k - 1) % N # consumer
      BY <1>b, <1>n, <2>0, <3>1, ModApart
    <3>3. (k - 1) % N \in 0..(N - 1)
      BY <1>n, <3>1, ModRange, Zenon
    <3>4. rx_buffer[(k - 1) % N] = line[k]
      BY <1>a, <1>b DEF Held
    <3> QED
      BY <1>a, <1>1, <3>2, <3>3, <3>4 DEF TypeOK
  <2>3. ASSUME NEW k \in 1..(Len(taken) + 1)
        PROVE  taken'[k] = line[k]
    <3>1. CASE k = Len(taken) + 1
      BY <1>3, <2>1, <3>1
    <3>2. CASE k # Len(taken) + 1
      BY <1>a, <1>b, <1>3, <3>2 DEF Held
    <3> QED
      BY <3>1, <3>2
  <2>4. (Len(taken') + 1)..Len(line') = (Len(taken) + 2)..Len(line)
    BY <1>b, <1>1, <1>3
  <2> QED
    BY <1>1, <1>3, <2>2, <2>3, <2>4 DEF Held
<1> QED
  BY <1>6, <1>7, <1>8 DEF InOrder

\* STORE(consumer) frees the slot of the byte that was taken.
LEMMA AdvanceStep ==
  ASSUME Typed, InOrder, AdvanceConsumer
  PROVE  InOrder'
<1>n. N \in Nat \ {0}
  BY BoundsAssumption
<1>a. TypeOK /\ Message /\ Counted /\ Fits /\ Held
  BY DEF Typed, InOrder
<1>1. /\ r_pc = "advance" /\ consumer' = (consumer + 1) % N /\ r' = r + 1
      /\ r_pc' \in {"idle", "take"}
      /\ UNCHANGED <<t_pc, size, i, pos, rx_buffer, producer, received_size, line, taken>>
  BY DEF AdvanceConsumer, thread, history
<1>b. /\ Len(line) \in Nat /\ Len(taken) \in Nat /\ i \in Nat /\ size \in Nat
      /\ received_size \in Nat /\ r \in Nat /\ Consumed \in Nat
  BY BoundsAssumption, <1>a DEF TypeOK, Counted
<1>2. Published' = Published /\ Consumed' = Consumed + 1 /\ Published \in Int
  BY <1>b, <1>1 DEF Published, Unpublished, Consumed
<1>3. consumer' = Consumed' % N
  <2>1. ((Consumed % N) + 1) % N = (Consumed + 1) % N
    BY <1>b, <1>n, ModStep, Zenon
  <2> QED
    BY <1>a, <1>1, <1>2, <2>1 DEF Counted
<1>4. Consumed' + (received_size' - r') <= Published'
  <2>1. Consumed + (received_size - r) <= Published
    BY <1>a, <1>1 DEF Counted
  <2> QED
    BY <1>b, <1>1, <1>2, <2>1
<1>5. Counted'
  BY <1>a, <1>b, <1>1, <1>2, <1>3, <1>4 DEF Counted
<1>6. Fits'
  BY <1>a, <1>b, <1>n, <1>1, <1>2 DEF Fits
<1>7. Held'
  BY <1>a, <1>1 DEF Held
<1> QED
  BY <1>5, <1>6, <1>7 DEF InOrder

\* Every step of the three threads keeps the order.
LEMMA OrderStep ==
  ASSUME Typed, InOrder, [Next]_vars
  PROVE  InOrder'
<1>n. N \in Nat \ {0}
  BY BoundsAssumption
<1>a. TypeOK /\ Message /\ Counted /\ Fits /\ Held
  BY DEF Typed, InOrder
<1>b. /\ Len(line) \in Nat /\ Len(taken) \in Nat /\ i \in Nat /\ size \in Nat
      /\ Consumed \in Nat /\ Published \in Nat /\ Consumed <= Published
      /\ Published - Consumed < N
  <2>1. /\ Len(line) \in Nat /\ Len(taken) \in Nat /\ i \in Nat /\ size \in Nat
        /\ Consumed \in Nat /\ Len(taken) <= Published /\ Published - Consumed < N
    BY BoundsAssumption, <1>a DEF TypeOK, Counted, Fits
  <2>2. Published \in Int /\ Consumed <= Len(taken)
    BY <2>1 DEF Published, Unpublished, Consumed
  <2> QED
    BY <2>1, <2>2
<1>1. CASE ThreadWait
  <2>1. /\ t_pc = "wait" /\ t_pc' = "copy" /\ pos' = producer /\ i' = 0
        /\ UNCHANGED <<size, rx_buffer, producer, consumer, received_size, r_pc, r,
                       line, taken>>
    BY <1>1 DEF ThreadWait, ring, reader, history
  <2>2. Published' = Published /\ Consumed' = Consumed
    BY <2>1 DEF Published, Unpublished, Consumed
  <2>3. serial_port_available_space = N - 1 - (Published - Consumed)
    <3>1. producer = Published % N /\ consumer = Consumed % N
      BY <1>a DEF Counted
    <3>2. ((Consumed % N) + N - (Published % N) - 1) % N = N - 1 - (Published - Consumed)
      BY <1>b, <1>n, SpaceIs, Zenon
    <3> QED
      BY <3>1, <3>2, Zenon DEF serial_port_available_space
  <2>4. Published + size - Consumed < N
    <3>1. serial_port_available_space >= size
      BY <1>1 DEF ThreadWait, SpaceFor
    <3> QED
      BY <1>b, <1>n, <2>3, <3>1
  <2>5. Counted'
    BY <1>a, <2>1, <2>2 DEF Counted
  <2>6. Fits'
    BY <1>a, <2>1, <2>2, <2>4 DEF Fits
  <2>7. Held'
    BY <1>a, <2>1 DEF Held
  <2> QED
    BY <2>5, <2>6, <2>7 DEF InOrder
<1>2. ASSUME NEW offset \in 0..(size - 1), ThreadCorrupt(offset)
      PROVE  InOrder'
  <2>1. offset \in Nat /\ offset < size
    BY <1>b
  <2> QED
    BY <1>2, <2>1, CorruptStep
<1>3. CASE ExtractData
  <2>1. /\ r_pc = "idle" /\ r_pc' = "take" /\ r' = 0 /\ received_size' = extracted_size
        /\ UNCHANGED <<t_pc, size, pos, i, rx_buffer, producer, consumer, line, taken>>
    BY <1>3 DEF ExtractData, thread, ring, history
  <2>2. Published' = Published /\ Consumed' = Consumed
    BY <2>1 DEF Published, Unpublished, Consumed
  <2>3. extracted_size = Published - Consumed
    <3>1. producer = Published % N /\ consumer = Consumed % N
      BY <1>a DEF Counted
    <3>2. ((Published % N) + N - (Consumed % N)) % N = Published - Consumed
      BY <1>b, <1>n, UsedIs, Zenon
    <3> QED
      BY <3>1, <3>2, Zenon DEF extracted_size
  <2>4. Consumed' + (received_size' - r') <= Published'
    BY <1>b, <2>1, <2>2, <2>3
  <2>5. Counted'
    BY <1>a, <2>1, <2>2, <2>4 DEF Counted
  <2>6. Fits'
    BY <1>a, <2>1, <2>2 DEF Fits
  <2>7. Held'
    BY <1>a, <2>1 DEF Held
  <2> QED
    BY <2>5, <2>6, <2>7 DEF InOrder
<1>4. ASSUME /\ t_pc # "copy" /\ t_pc' # "copy"
             /\ UNCHANGED <<rx_buffer, producer, consumer, received_size, r_pc, r, line,
                            taken>>
      PROVE  InOrder'
  <2>1. Published' = Published /\ Consumed' = Consumed
    BY <1>4 DEF Published, Unpublished, Consumed
  <2> QED
    BY <1>a, <1>4, <2>1 DEF InOrder, Counted, Fits, Held
<1>5. CASE ThreadPoll \/ ThreadDone \/ ThreadExit \/ StartThread
  BY <1>4, <1>5 DEF ThreadPoll, ThreadDone, ThreadExit, StartThread, ring, reader, history
<1>6. ASSUME UNCHANGED <<t_pc, size, pos, i, rx_buffer, producer, consumer, r_pc, line,
                         taken>>,
             r_pc = "idle" \/ UNCHANGED <<received_size, r>>
      PROVE  InOrder'
  <2>1. Published' = Published /\ Consumed' = Consumed
    BY <1>6 DEF Published, Unpublished, Consumed
  <2> QED
    BY <1>a, <1>6, <2>1 DEF InOrder, Counted, Fits, Held
<1>7. CASE ReceiveTimeout \/ StopThread \/ UNCHANGED vars
  BY <1>6, <1>7 DEF ReceiveTimeout, StopThread, vars, thread, ring, reader, history
<1>8. ASSUME NEW n \in 1..(N + 1), TransmitBytes(n)
      PROVE  InOrder'
  BY <1>6, <1>8 DEF TransmitBytes, thread, ring, reader
<1> QED
  BY <1>1, <1>2, <1>3, <1>5, <1>7, <1>8, CopyStep, PublishStep, TakeStep, AdvanceStep
     DEF Next, Thread, Reader

\* The ring is empty at first.
LEMMA InitOrder ==
  Init => Typed /\ InOrder
<1>1. Init => Typed
  BY BoundsAssumption DEF Init, Typed, TypeOK, Message
<1>2. Init => InOrder
  <2> SUFFICES ASSUME Init PROVE InOrder
    OBVIOUS
  <2>1. Published = 0 /\ Consumed = 0 /\ Len(line) = 0 /\ Len(taken) = 0
    BY DEF Init, Published, Unpublished, Consumed
  <2>2. 0 % N = 0
    BY BoundsAssumption, ModSmall
  <2> QED
    BY BoundsAssumption, <2>1, <2>2 DEF Init, InOrder, Counted, Fits, Held
<1> QED
  BY <1>1, <1>2

\* serial_port_receive_bytes reads what serial_port_copy_to_others wrote, in order
\* and each byte once, for every ring size, message length and interleaving of the
\* three threads: without a lock, with faults, with stops and restarts.
THEOREM ReadInOrder == Spec => []TakenInOrder
<1>1. Typed /\ InOrder => TakenInOrder
  <2> SUFFICES ASSUME Typed, InOrder PROVE TakenInOrder
    OBVIOUS
  <2>1. Len(line) \in Nat /\ Unpublished \in Nat /\ Len(taken) \in Nat
    BY BoundsAssumption DEF Typed, TypeOK, Unpublished
  <2> QED
    BY <2>1 DEF InOrder, Counted, Held, Published, TakenInOrder
<1> QED
  BY <1>1, InitOrder, TypedStep, OrderStep, PTL DEF Spec

-----------------------------------------------------------------------------
(* Refinement of AbstractLink. *)

\* What the thread has copied and not yet published is the message, or, after
\* COMMUNICATION_FAULT_CORRUPT, the whole message with one byte changed.
Copied ==
  t_pc = "copy" =>
    \/ \A k \in 1..i : line[Published + k] = tx_buffer[k]
    \/ /\ i = size
       /\ fault_mode = "none"
       /\ \E c \in 1..size : \A k \in 1..size :
            line[Published + k] = IF k = c THEN -tx_buffer[k] ELSE tx_buffer[k]

\* The bytes published and not yet taken.
Pending == [k \in 1..(Published - Len(taken)) |-> line[Len(taken) + k]]

\* The ring between the two indices holds the bytes published and not yet taken.
LEMMA StreamIs ==
  Typed /\ InOrder => Stream = Pending
<1> SUFFICES ASSUME Typed, InOrder PROVE Stream = Pending
  OBVIOUS
<1>n. N \in Nat \ {0}
  BY BoundsAssumption
<1>a. TypeOK /\ Counted /\ Fits /\ Held
  BY DEF Typed, InOrder
<1>b. /\ Len(line) \in Nat /\ Len(taken) \in Nat /\ Unpublished \in Nat /\ Consumed \in Nat
      /\ Len(taken) <= Published /\ Published - Consumed < N
  BY BoundsAssumption, <1>a DEF TypeOK, Counted, Fits, Unpublished
<1>c. Published \in Nat /\ Published <= Len(line) /\ Consumed <= Published
  BY <1>b DEF Published, Consumed
<1>1. Len(taken) = Consumed + Released /\ Released \in Nat
  BY <1>b DEF Consumed, Released
<1>2. extracted_size = Published - Consumed
  <2>1. producer = Published % N /\ consumer = Consumed % N
    BY <1>a DEF Counted
  <2>2. ((Published % N) + N - (Consumed % N)) % N = Published - Consumed
    BY <1>b, <1>c, <1>n, UsedIs, Zenon
  <2> QED
    BY <2>1, <2>2, Zenon DEF extracted_size
<1>3. extracted_size - Released = Published - Len(taken)
  BY <1>b, <1>c, <1>1, <1>2
<1>4. ASSUME NEW k \in 1..(Published - Len(taken))
      PROVE  rx_buffer[(consumer + Released + k - 1) % N] = line[Len(taken) + k]
  <2>1. Released + k - 1 \in Nat /\ Consumed + (Released + k - 1) = (Len(taken) + k) - 1
    BY <1>b, <1>c, <1>1
  <2>2. ((Consumed % N) + (Released + k - 1)) % N = (Consumed + (Released + k - 1)) % N
    BY <1>b, <1>n, <2>1, ModAdd, Zenon
  <2>3. Consumed % N \in Nat /\ consumer = Consumed % N
    BY <1>a, BoundsAssumption DEF Counted, TypeOK
  <2>4. consumer + Released + k - 1 = (Consumed % N) + (Released + k - 1)
    BY <1>1, <2>3
  <2>5. (consumer + Released + k - 1) % N = ((Len(taken) + k) - 1) % N
    BY <2>1, <2>2, <2>4
  <2>6. Len(taken) + k \in (Len(taken) + 1)..Len(line)
    BY <1>b, <1>c
  <2>7. rx_buffer[((Len(taken) + k) - 1) % N] = line[Len(taken) + k]
    BY <1>a, <2>6, Zenon DEF Held
  <2> QED
    BY <2>5, <2>7
<1> QED
  BY <1>3, <1>4, Zenon DEF Stream, Pending

\* Copying a byte and corrupting one keep what is copied a copy of the message.
LEMMA CopiedStep ==
  ASSUME Typed, InOrder, Copied, [Next]_vars
  PROVE  Copied'
<1> USE BoundsAssumption
<1>a. TypeOK /\ Message /\ Counted
  BY DEF Typed, InOrder
<1>b. /\ Len(line) \in Nat /\ i \in Nat /\ size \in Nat /\ line \in Seq(Int)
      /\ tx_buffer \in Seq(Int) /\ i <= size
  BY <1>a DEF TypeOK
<1>1. CASE ThreadCopy
  <2>1. /\ t_pc = "copy" /\ i < size /\ i' = i + 1
        /\ line' = Append(line, tx_buffer[i + 1])
        /\ UNCHANGED <<tx_buffer, t_pc, size>>
    BY <1>1 DEF ThreadCopy, port
  <2>2. tx_buffer[i + 1] \in Int
    BY <1>a, <2>1 DEF TypeOK, Message
  <2>3. /\ Len(line') = Len(line) + 1
        /\ \A k \in 1..Len(line) : line'[k] = line[k]
        /\ line'[Len(line) + 1] = tx_buffer[i + 1]
    BY <1>b, <2>1, <2>2
  <2>4. Published' = Published /\ Published + i = Len(line) /\ Published \in Nat
    <3>1. Published = Len(line) - i /\ Published' = Len(line') - i'
      BY <2>1 DEF Published, Unpublished
    <3>2. Len(taken) <= Published /\ Len(taken) \in Nat
      BY <1>a DEF Counted, TypeOK
    <3> QED
      BY <1>b, <2>1, <2>3, <3>1, <3>2
  <2>5. \A k \in 1..i : line[Published + k] = tx_buffer[k]
    BY <1>b, <2>1 DEF Copied
  <2>6. ASSUME NEW k \in 1..(i + 1)
        PROVE  line'[Published + k] = tx_buffer[k]
    <3>1. CASE k = i + 1
      BY <1>b, <2>3, <2>4, <3>1
    <3>2. CASE k # i + 1
      <4>1. k \in 1..i /\ Published + k \in 1..Len(line)
        BY <1>b, <2>4, <3>2
      <4> QED
        BY <2>3, <2>5, <4>1
    <3> QED
      BY <3>1, <3>2
  <2> QED
    BY <2>1, <2>4, <2>6 DEF Copied
<1>2. ASSUME NEW offset \in 0..(size - 1), ThreadCorrupt(offset)
      PROVE  Copied'
  <2> DEFINE c == Len(line) - size + offset + 1
  <2>1. /\ t_pc = "copy" /\ i = size /\ fault_mode = "corrupt"
        /\ line' = [line EXCEPT ![c] = -tx_buffer[offset + 1]]
        /\ fault_mode' = "none"
        /\ UNCHANGED <<tx_buffer, t_pc, size, i>>
    BY <1>2 DEF ThreadCorrupt, port
  <2>2. tx_buffer[offset + 1] \in Int /\ offset \in Nat /\ offset + 1 \in 1..size
    BY <1>a, <1>b, <2>1 DEF TypeOK, Message
  <2>3. -tx_buffer[offset + 1] \in Int /\ c \in Int
    BY <1>b, <2>2
  <2>4. /\ Len(line') = Len(line)
        /\ \A j \in 1..Len(line) :
             line'[j] = IF j = c THEN -tx_buffer[offset + 1] ELSE line[j]
    BY <1>b, <2>1, <2>3, Overwrite
  <2>5. Published' = Published /\ Published + size = Len(line) /\ Published \in Nat
    <3>1. Published = Len(line) - i /\ Published' = Len(line') - i'
      BY <2>1 DEF Published, Unpublished
    <3>2. Len(taken) <= Published /\ Len(taken) \in Nat
      BY <1>a DEF Counted, TypeOK
    <3> QED
      BY <1>b, <2>1, <2>4, <3>1, <3>2
  <2>6. c = Published + (offset + 1)
    <3>1. offset \in Nat /\ size \in Nat /\ Published \in Nat /\ Published + size = Len(line)
      BY <1>b, <2>2, <2>5
    <3> QED
      BY <3>1
  <2> HIDE DEF c
  <2>7. \A k \in 1..size : line[Published + k] = tx_buffer[k]
    BY <2>1 DEF Copied
  <2>8. ASSUME NEW k \in 1..size
        PROVE  line'[Published + k] = IF k = offset + 1 THEN -tx_buffer[k] ELSE tx_buffer[k]
    <3>1. Published + k \in 1..Len(line) /\ (Published + k = c <=> k = offset + 1)
      BY <1>b, <2>2, <2>5, <2>6
    <3> QED
      BY <2>4, <2>7, <3>1
  <2>9. \A k \in 1..size' :
          line'[Published' + k] = IF k = offset + 1 THEN -tx_buffer'[k] ELSE tx_buffer'[k]
    BY <2>1, <2>5, <2>8
  <2>10. offset + 1 \in 1..size' /\ i' = size' /\ fault_mode' = "none"
    BY <2>1, <2>2
  <2> QED
    BY <2>9, <2>10, Zenon DEF Copied
<1>3. CASE ThreadWait
  <2>1. i' = 0
    BY <1>3 DEF ThreadWait
  <2> QED
    BY <2>1 DEF Copied
<1>4. CASE t_pc' # "copy"
  BY <1>4 DEF Copied
<1>5. CASE ThreadPoll \/ ThreadPublish \/ ThreadDone \/ ThreadExit \/ StartThread
  BY <1>4, <1>5 DEF ThreadPoll, ThreadPublish, ThreadDone, ThreadExit, StartThread
<1>6. ASSUME UNCHANGED <<tx_buffer, t_pc, size, i, fault_mode, line>>
      PROVE  Copied'
  <2>1. Published' = Published
    BY <1>6 DEF Published, Unpublished
  <2> QED
    BY <1>6, <2>1 DEF Copied
<1>7. CASE StopThread \/ Reader \/ ReceiveTimeout \/ UNCHANGED vars
  BY <1>6, <1>7 DEF StopThread, Reader, ExtractData, TakeByte, AdvanceConsumer,
     ReceiveTimeout, vars, port, thread, history
<1>8. ASSUME NEW n \in 1..(N + 1), TransmitBytes(n)
      PROVE  Copied'
  <2>1. transmitted_size = 0 /\ t_pc' = t_pc
    BY <1>8 DEF TransmitBytes, thread
  <2>2. t_pc # "copy"
    BY <1>a, <2>1 DEF Message
  <2> QED
    BY <1>4, <2>1, <2>2
<1> QED
  BY <1>1, <1>2, <1>3, <1>5, <1>7, <1>8 DEF Next, Thread

\* The message enters the stream whole, behind what is there.
LEMMA PublishCarries ==
  ASSUME Typed, InOrder, Copied, ThreadPublish, Stream = Pending, Stream' = Pending'
  PROVE  Link!Carry
<1> USE BoundsAssumption
<1>a. TypeOK /\ Message /\ Counted /\ Fits
  BY DEF Typed, InOrder
<1>1. /\ t_pc = "copy" /\ i = size /\ fault_mode = "none" /\ t_pc' = "done"
      /\ UNCHANGED <<tx_buffer, transmitted_size, size, r_pc, line, taken>>
  BY DEF ThreadPublish, port, reader, history
<1>b. /\ Len(line) \in Nat /\ Len(taken) \in Nat /\ size \in Nat /\ size > 0
      /\ tx_buffer \in Seq(Int) /\ Len(tx_buffer) = size /\ transmitted_size = size
      /\ line \in Seq(Int) /\ Consumed \in Nat /\ Len(taken) <= Published
      /\ Published + size - Consumed < N
  <2>1. /\ Len(line) \in Nat /\ Len(taken) \in Nat /\ size \in Nat
        /\ tx_buffer \in Seq(Int) /\ line \in Seq(Int) /\ transmitted_size \in Nat
    BY <1>a DEF TypeOK
  <2>2. size > 0 /\ transmitted_size = size
    BY <1>a, <1>1 DEF Message
  <2>3. Len(tx_buffer) = size
    BY <1>a, <2>2, Zenon DEF Message
  <2>4. Consumed \in Nat /\ Len(taken) <= Published /\ Published + size - Consumed < N
    BY <1>a, <1>1, Zenon DEF Counted, Fits
  <2> QED
    BY <2>1, <2>2, <2>3, <2>4
<1>2. Published \in Nat /\ Published + size = Len(line) /\ Published' = Published + size
  BY <1>b, <1>1 DEF Published, Unpublished
<1>3. Mailbox = tx_buffer /\ Mailbox' = << >> /\ Mailbox # << >>
  BY <1>b, <1>1 DEF Mailbox
<1> DEFINE d == Published - Len(taken)
<1>4. d \in Nat /\ d + size <= N - 1 /\ Published' - Len(taken') = d + size
  BY <1>b, <1>1, <1>2 DEF Consumed
<1>5. Stream = [k \in 1..d |-> line[Len(taken) + k]]
  BY DEF Pending
<1>6. Stream' = [k \in 1..(d + size) |-> line[Len(taken) + k]]
  BY <1>1, <1>4 DEF Pending
<1>c. Published = Len(taken) + d
  BY <1>b, <1>2
<1> HIDE DEF d
<1>7. /\ Stream \in Seq(Int) /\ Len(Stream) = d
      /\ \A k \in 1..d : Stream[k] = line[Len(taken) + k]
  <2>1. \A k \in 1..d : line[Len(taken) + k] \in Int
    <3>1. Len(taken) + d <= Len(line)
      BY <1>b, <1>2, <1>c
    <3> QED
      BY <1>b, <1>4, <3>1, Behind, Zenon
  <2>2. Stream \in [1..d -> Int]
    BY <1>5, <2>1, Zenon
  <2>3. \A k \in 1..d : Stream[k] = line[Len(taken) + k]
    BY <1>5, Zenon
  <2> QED
    BY <1>4, <2>2, <2>3, SeqOf, Zenon
<1>8. ASSUME NEW m \in Seq(Int), Len(m) = size,
             \A k \in 1..size : line[Published + k] = m[k]
      PROVE  Stream' = Stream \o m
  <2>1. \A k \in 1..(d + size) : Stream'[k] = line[Len(taken) + k]
    BY <1>6, Zenon
  <2>2. Stream' \in Seq(Int) /\ Len(Stream') = d + size
    <3>3. d + size \in Nat /\ Len(taken) + (d + size) <= Len(line)
      BY <1>b, <1>2, <1>4, <1>c
    <3>1. \A k \in 1..(d + size) : line[Len(taken) + k] \in Int
      BY <1>b, <3>3, Behind, Zenon
    <3>2. Stream' \in [1..(d + size) -> Int]
      BY <1>6, <3>1, Zenon
    <3> QED
      BY <3>2, <3>3, SeqOf, Zenon
  <2>3. ASSUME NEW k \in 1..Len(Stream)
        PROVE  Stream'[k] = Stream[k]
    <3>1. k \in 1..d /\ k \in 1..(d + size)
      BY <1>b, <1>4, <1>7
    <3> QED
      BY <1>7, <2>1, <3>1, Zenon
  <2>4. ASSUME NEW k \in 1..Len(m)
        PROVE  Stream'[Len(Stream) + k] = m[k]
    <3>1. /\ k \in 1..size /\ d + k \in 1..(d + size)
          /\ Len(taken) + (d + k) = Published + k
      BY <1>b, <1>4, <1>8, <1>c
    <3>2. Stream'[d + k] = line[Published + k]
      BY <2>1, <3>1
    <3> QED
      BY <1>7, <1>8, <3>1, <3>2
  <2>5. Len(Stream') = Len(Stream) + Len(m)
    BY <1>7, <1>8, <2>2
  <2> QED
    BY <1>7, <2>2, <2>3, <2>4, <2>5, Cat, Zenon
<1>9. \/ Stream' = Stream \o Mailbox
      \/ \E k \in 1..Len(Mailbox) : Stream' = Stream \o Link!Corrupted(Mailbox, k)
  <2>1. CASE \A k \in 1..i : line[Published + k] = tx_buffer[k]
    BY <1>b, <1>1, <1>3, <1>8, <2>1
  <2>2. ASSUME NEW c \in 1..size,
               \A k \in 1..size :
                 line[Published + k] = IF k = c THEN -tx_buffer[k] ELSE tx_buffer[k]
        PROVE  Stream' = Stream \o Link!Corrupted(tx_buffer, c)
    <3> DEFINE m == [tx_buffer EXCEPT ![c] = -tx_buffer[c]]
    <3>0. tx_buffer[c] \in Int
      BY <1>b
    <3>1. -tx_buffer[c] \in Int /\ c \in Int
      BY <3>0
    <3>2. /\ m \in Seq(Int) /\ Len(m) = size
          /\ \A k \in 1..size : m[k] = IF k = c THEN -tx_buffer[c] ELSE tx_buffer[k]
      BY <1>b, <3>1, Overwrite
    <3>3. Link!Corrupted(tx_buffer, c) = m
      BY DEF Link!Corrupted
    <3> HIDE DEF m
    <3>4. \A k \in 1..size : line[Published + k] = m[k]
      BY <2>2, <3>2
    <3> QED
      BY <1>8, <3>2, <3>3, <3>4
  <2> QED
    BY <1>b, <1>1, <1>3, <2>1, <2>2 DEF Copied
<1>10. Len(Stream) + Len(Mailbox) <= N - 1
  BY <1>b, <1>3, <1>4, <1>7
<1> QED
  BY <1>1, <1>3, <1>9, <1>10, Zenon DEF Link!Carry

\* A byte leaves the stream at its head.
LEMMA TakeTakes ==
  ASSUME Typed, InOrder, TakeByte, Stream = Pending, Stream' = Pending'
  PROVE  Link!Take
<1> USE BoundsAssumption
<1>a. TypeOK /\ Message /\ Counted /\ Held
  BY DEF Typed, InOrder
<1>1. /\ r_pc = "take" /\ taken' = Append(taken, rx_buffer[consumer])
      /\ UNCHANGED <<tx_buffer, transmitted_size, t_pc, i, line>>
  BY DEF TakeByte, port, thread
<1>b. /\ Len(line) \in Nat /\ Len(taken) \in Nat /\ Unpublished \in Nat
      /\ line \in Seq(Int) /\ received_size \in Nat /\ r \in Nat
  BY <1>a DEF TypeOK, Unpublished
<1>2. Consumed = Len(taken)
  BY <1>b, <1>1 DEF Consumed
<1>3. Published \in Int /\ Published <= Len(line) /\ Published' = Published
  BY <1>b, <1>1 DEF Published, Unpublished
<1>4. Len(taken) + 1 <= Published
  <2>1. r < received_size /\ Consumed + (received_size - r) <= Published
    BY <1>a, <1>1 DEF Counted, Message
  <2> QED
    BY <1>b, <1>2, <1>3, <2>1
<1> DEFINE d == Published - Len(taken)
<1>5. d \in Nat /\ d >= 1 /\ Published = Len(taken) + d
  BY <1>b, <1>3, <1>4
<1>c. Stream = [k \in 1..d |-> line[Len(taken) + k]]
  BY DEF Pending
<1> HIDE DEF d
<1>6. /\ Stream \in Seq(Int) /\ Len(Stream) = d
      /\ \A k \in 1..d : Stream[k] = line[Len(taken) + k]
  <2>1. \A k \in 1..d : line[Len(taken) + k] \in Int
    <3>1. Len(taken) + d <= Len(line) /\ d \in Nat
      BY <1>b, <1>3, <1>5
    <3> QED
      BY <1>b, <3>1, Behind, Zenon
  <2>2. Stream \in [1..d -> Int]
    BY <1>c, <2>1, Zenon
  <2>3. \A k \in 1..d : Stream[k] = line[Len(taken) + k]
    BY <1>c, Zenon
  <2> QED
    BY <1>5, <2>2, <2>3, SeqOf, Zenon
<1>7. rx_buffer[consumer] = Head(Stream) /\ rx_buffer[consumer] \in Int
  <2>1. consumer = Len(taken) % N /\ rx_buffer[consumer] \in Int
    BY <1>a, <1>2 DEF Counted, TypeOK
  <2>2. Len(taken) + 1 \in (Len(taken) + 1)..Len(line) /\ (Len(taken) + 1) - 1 = Len(taken)
    BY <1>b, <1>3, <1>4
  <2>3. rx_buffer[Len(taken) % N] = line[Len(taken) + 1]
    BY <1>a, <2>2 DEF Held
  <2>4. Head(Stream) = line[Len(taken) + 1]
    BY <1>5, <1>6
  <2> QED
    BY <2>1, <2>3, <2>4
<1>8. Len(taken') = Len(taken) + 1
  BY <1>a, <1>1, <1>7 DEF TypeOK
<1>9. Stream' = Tail(Stream)
  <2>1. Stream' = [k \in 1..(d - 1) |-> line[(Len(taken) + 1) + k]]
    <3>1. Published' - Len(taken') = d - 1
      BY <1>b, <1>3, <1>5, <1>8
    <3> QED
      BY <1>1, <1>8, <3>1 DEF Pending
  <2>2. Tail(Stream) = [k \in 1..(d - 1) |-> Stream[k + 1]]
    BY <1>5, <1>6, Rest, Zenon
  <2>3. \A k \in 1..(d - 1) : Stream[k + 1] = line[(Len(taken) + 1) + k]
    <3> SUFFICES ASSUME NEW k \in 1..(d - 1)
                 PROVE  Stream[k + 1] = line[(Len(taken) + 1) + k]
      OBVIOUS
    <3>1. k + 1 \in 1..d /\ Len(taken) + (k + 1) = (Len(taken) + 1) + k
      BY <1>b, <1>5
    <3> QED
      BY <1>6, <3>1
  <2> QED
    BY <2>1, <2>2, <2>3, Zenon
<1>10. Mailbox' = Mailbox
  BY <1>1 DEF Mailbox
<1>11. Stream # << >>
  BY <1>5, <1>6
<1> QED
  BY <1>1, <1>7, <1>9, <1>10, <1>11 DEF Link!Take

\* Every step of the three threads is a step of the abstract link or none.
LEMMA LinkStep ==
  ASSUME Typed, InOrder, Copied, [Next]_vars, Stream = Pending, Stream' = Pending'
  PROVE  [Link!Next]_<<Mailbox, Stream, taken>>
<1> USE BoundsAssumption
<1>a. TypeOK /\ Message /\ Counted
  BY DEF Typed, InOrder
<1>b. /\ Len(line) \in Nat /\ i \in Nat /\ size \in Nat /\ Len(taken) \in Nat
      /\ line \in Seq(Int) /\ i <= size /\ Len(taken) <= Published
  BY <1>a DEF TypeOK, Counted
<1>1. ASSUME NEW n \in 1..(N + 1), TransmitBytes(n)
      PROVE  Link!Submit
  <2> DEFINE t == TruncatedSize(n)
  <2>1. t \in 1..(N - 1)
    BY DEF TruncatedSize
  <2>2. /\ transmitted_size = 0 /\ transmitted_size' = t /\ sent + t <= MaxBytes
        /\ tx_buffer' = [k \in 1..t |-> sent + k]
        /\ UNCHANGED <<t_pc, rx_buffer, producer, consumer, r_pc, taken>>
    BY <1>1 DEF TransmitBytes, thread, ring, reader
  <2> HIDE DEF t
  <2>3. t_pc # "done"
    BY <1>a, <2>2 DEF Message
  <2>4. Mailbox = << >> /\ Mailbox' = [k \in 1..t |-> sent + k]
    BY <2>1, <2>2, <2>3 DEF Mailbox
  <2>5. Stream' = Stream
    BY <2>2 DEF Stream, extracted_size, Released
  <2>6. sent \in 0..MaxBytes
    BY <1>a, <2>1, <2>2 DEF TypeOK
  <2> QED
    BY <2>1, <2>2, <2>4, <2>5, <2>6, Zenon DEF Link!Submit
<1>2. CASE ThreadPoll
  <2>1. /\ t_pc = "poll" /\ transmitted_size > 0
        /\ UNCHANGED <<tx_buffer, rx_buffer, producer, consumer, r_pc, taken>>
    BY <1>2 DEF ThreadPoll, ring, reader, history
  <2>2. Stream' = Stream
    BY <2>1 DEF Stream, extracted_size, Released
  <2>3. CASE t_pc' = "wait" /\ transmitted_size' = transmitted_size
    BY <2>1, <2>2, <2>3 DEF Mailbox
  <2>4. CASE t_pc' = t_pc /\ transmitted_size' = 0
    <3>1. Mailbox = tx_buffer /\ Mailbox' = << >>
      BY <2>1, <2>4 DEF Mailbox
    <3>2. Len(tx_buffer) > 0
      BY <1>a, <2>1 DEF Message
    <3>3. Mailbox # << >>
      BY <3>1, <3>2
    <3> QED
      BY <2>1, <2>2, <3>1, <3>3, Zenon DEF Link!Lose, Link!Next
  <2> QED
    BY <1>2, <2>3, <2>4 DEF ThreadPoll
<1>3. ASSUME UNCHANGED <<tx_buffer, transmitted_size, t_pc, taken>>,
             Published' = Published,
             \A k \in 1..Published : line'[k] = line[k]
      PROVE  UNCHANGED <<Mailbox, Stream, taken>>
  <2>1. Mailbox' = Mailbox
    BY <1>3 DEF Mailbox
  <2>2. Published \in Int
    BY <1>b DEF Published, Unpublished
  <2>3. \A k \in 1..(Published - Len(taken)) : line'[Len(taken) + k] = line[Len(taken) + k]
    BY <1>b, <1>3, <2>2
  <2>4. Pending' = Pending
    BY <1>3, <2>3 DEF Pending
  <2> QED
    BY <1>3, <2>1, <2>4
<1>4. CASE ThreadCopy
  <2>1. /\ t_pc = "copy" /\ i < size /\ i' = i + 1
        /\ line' = Append(line, tx_buffer[i + 1])
        /\ UNCHANGED <<tx_buffer, transmitted_size, t_pc, taken>>
    BY <1>4 DEF ThreadCopy, port
  <2>2. tx_buffer[i + 1] \in Int
    BY <1>a, <2>1 DEF TypeOK, Message
  <2>3. Len(line') = Len(line) + 1 /\ \A k \in 1..Len(line) : line'[k] = line[k]
    BY <1>b, <2>1, <2>2
  <2>4. Published' = Published /\ Published <= Len(line) /\ Published \in Int
    BY <1>b, <2>1, <2>3 DEF Published, Unpublished
  <2>5. \A k \in 1..Published : line'[k] = line[k]
    BY <1>b, <2>3, <2>4
  <2> QED
    BY <1>3, <2>1, <2>4, <2>5
<1>5. ASSUME NEW offset \in 0..(size - 1), ThreadCorrupt(offset)
      PROVE  UNCHANGED <<Mailbox, Stream, taken>>
  <2> DEFINE c == Len(line) - size + offset + 1
  <2>1. /\ t_pc = "copy" /\ i = size
        /\ line' = [line EXCEPT ![c] = -tx_buffer[offset + 1]]
        /\ UNCHANGED <<tx_buffer, transmitted_size, t_pc, i, size, taken>>
    BY <1>5 DEF ThreadCorrupt, port
  <2>2. tx_buffer[offset + 1] \in Int
    BY <1>a, <2>1 DEF TypeOK, Message
  <2>3. -tx_buffer[offset + 1] \in Int /\ c \in Int
    BY <1>b, <2>2
  <2>4. /\ Len(line') = Len(line)
        /\ \A j \in 1..Len(line) :
             line'[j] = IF j = c THEN -tx_buffer[offset + 1] ELSE line[j]
    BY <1>b, <2>1, <2>3, Overwrite
  <2>5. /\ Published' = Published /\ Published + size = Len(line) /\ Published \in Int
        /\ c > Published
    BY <1>b, <2>1, <2>4 DEF Published, Unpublished
  <2>6. \A k \in 1..Published : line'[k] = line[k]
    BY <1>b, <2>4, <2>5
  <2> QED
    BY <1>3, <2>1, <2>5, <2>6
<1>6. ASSUME UNCHANGED <<tx_buffer, rx_buffer, producer, consumer, taken>>,
             Released' = Released, Mailbox' = Mailbox
      PROVE  UNCHANGED <<Mailbox, Stream, taken>>
  BY <1>6 DEF Stream, extracted_size
<1>7. CASE ThreadWait \/ ThreadDone \/ ThreadExit \/ StartThread
  <2>1. UNCHANGED <<tx_buffer, rx_buffer, producer, consumer, taken>> /\ Released' = Released
    BY <1>7 DEF ThreadWait, ThreadDone, ThreadExit, StartThread, port, ring, reader, history,
       Released
  <2>2. ASSUME ThreadDone PROVE Mailbox' = Mailbox
    BY <2>2, <2>1 DEF ThreadDone, Mailbox
  <2>3. ASSUME ThreadWait \/ ThreadExit \/ StartThread
        PROVE  Mailbox' = Mailbox
    <3>1. t_pc # "done" /\ t_pc' # "done" /\ transmitted_size' = transmitted_size
      BY <2>3 DEF ThreadWait, ThreadExit, StartThread, port
    <3> QED
      BY <2>1, <3>1 DEF Mailbox
  <2> QED
    BY <1>6, <1>7, <2>1, <2>2, <2>3
<1>8. CASE StopThread \/ ExtractData \/ ReceiveTimeout \/ UNCHANGED vars
  <2>1. UNCHANGED <<tx_buffer, transmitted_size, t_pc, rx_buffer, producer, consumer, taken>>
    BY <1>8 DEF StopThread, ExtractData, ReceiveTimeout, vars, port, thread, ring, history
  <2>2. Released' = Released
    BY <1>8 DEF StopThread, ExtractData, ReceiveTimeout, vars, reader, Released
  <2>3. Mailbox' = Mailbox
    BY <2>1 DEF Mailbox
  <2> QED
    BY <1>6, <2>1, <2>2, <2>3
<1>9. CASE AdvanceConsumer
  <2>1. UNCHANGED <<tx_buffer, transmitted_size, t_pc, i, line, taken>>
    BY <1>9 DEF AdvanceConsumer, port, thread, history
  <2>2. Published' = Published
    BY <2>1 DEF Published, Unpublished
  <2> QED
    BY <1>3, <2>1, <2>2
<1> QED
  BY <1>1, <1>2, <1>4, <1>5, <1>7, <1>8, <1>9, PublishCarries, TakeTakes
     DEF Next, Thread, Reader, Link!Next

\* serial_port_transmit_bytes, serial_port_copy_to_others and
\* serial_port_receive_bytes together are a link that carries every message
\* whole, in order and at most once, or loses it whole, or changes one byte of
\* it; and never more than N - 1 bytes wait at the receiver.
THEOREM LinkRefined == Spec => ImplementsLink
<1>1. Init => Typed /\ InOrder /\ Copied
  <2>1. Init => Copied
    BY DEF Init, Copied
  <2> QED
    BY <2>1, InitOrder
<1>2. Init => Link!Init
  <2> SUFFICES ASSUME Init PROVE Link!Init
    OBVIOUS
  <2>1. extracted_size = 0
    <3>1. (0 + N - 0) % N = 0
      BY BoundsAssumption
    <3> QED
      BY <3>1 DEF Init, extracted_size
  <2>2. Released = 0
    BY DEF Init, Released
  <2>3. Stream = << >>
    BY <2>1, <2>2 DEF Stream
  <2> QED
    BY <2>3 DEF Init, Mailbox, Link!Init
<1>3. Typed /\ InOrder /\ Copied /\ [Next]_vars
        => Typed' /\ InOrder' /\ Copied'
  BY TypedStep, OrderStep, CopiedStep
<1>4. (Typed /\ InOrder) /\ (Typed /\ InOrder)' /\ Copied /\ [Next]_vars
        => [Link!Next]_<<Mailbox, Stream, taken>>
  <2>1. Typed /\ InOrder => Stream = Pending
    BY StreamIs
  <2>2. (Typed /\ InOrder => Stream = Pending)'
    BY StreamIs, PTL
  <2> QED
    BY <2>1, <2>2, LinkStep
<1> QED
  BY <1>1, <1>2, <1>3, <1>4, PTL DEF Spec, ImplementsLink, Link!Spec
=============================================================================
