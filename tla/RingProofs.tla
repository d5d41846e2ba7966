----------------------------- MODULE RingProofs -----------------------------
(***************************************************************************)
(* The types of the ring of arms, for every number of arms, images, jobs   *)
(* and troubles.  The invariant speaks of a set H of jobs the phone has    *)
(* given so far: every message, slot and handler is about one of them, and *)
(* no two of them share a sequence number, so that an acknowledgement OK   *)
(* tells which job the last arm has executed.  H is not a variable of the  *)
(* model; the invariant says that there is such a set.                     *)
(***************************************************************************)
EXTENDS Ring, TLAPS

-----------------------------------------------------------------------------
(* The inductive invariant. *)

\* How many sequence numbers were given out before s.
Steps(s) == IF s >= FirstSeq THEN s - FirstSeq ELSE s + U16_MAX - FirstSeq

Issued(H) ==
  /\ H \subseteq Jobs
  /\ jobs \in 0..MaxJobs
  /\ ring_next_seq \in 0..U16_MAX
  /\ Steps(ring_next_seq) <= jobs
  /\ \A j \in H :
       /\ j.id <= jobs
       /\ j.kind # "firmware" => j.seq >= 1 /\ Steps(j.seq) <= Steps(ring_next_seq)
       /\ j.kind = "image" => j.action \in Actions
  /\ \A j, k \in H :
       j.kind # "firmware" /\ k.kind # "firmware" /\ j.seq = k.seq => j = k

Commands(H) == {m \in [type : {"RING_CMD"}, job : H] : m.job.kind # "firmware"}
Updates(H) == {m \in [type : {"BOOTLOADER_UPDATE_CMD"}, job : H] : m.job.kind = "firmware"}

\* An acknowledgement is of a job that was issued; the last arm has executed an
\* image job that is acknowledged as done.
Acks(H) ==
  {m \in RingAcks :
     \E j \in H : /\ j.kind # "firmware"
                  /\ j.seq = m.seq
                  /\ m.result = "OK" /\ j.kind = "image" => j.id \in executed[Last]}
Results(H) == Acks(H) \cup RingErrors \cup BootloaderAcks

Content(H) ==
  /\ rx_cw \in [Arms -> Seq(Results(H))]
  /\ rx_ccw \in [Arms -> Seq(Commands(H) \cup Updates(H))]
  /\ ring_ack \in [Arms -> Acks(H) \cup {NoMsg}]
  /\ ring_error \in [Arms -> RingErrors \cup {NoMsg}]
  /\ ring_cmd \in [Arms -> Commands(H) \cup {NoMsg}]
  /\ job \in [Arms -> H \cup {NoMsg}]

Places == {"display", "command", "dark", "forward", "commit", "wait_ready", "wait_ok",
           "wait_accepted", "wait_completed", "sz", "rz", "failed", "install", "rejoin"}

\* The places of a handler by the kind of its job.
Fits(p, kind) ==
  \/ kind = "image" /\ p \in {"forward", "wait_ok", "commit"}
  \/ kind = "file" /\ p \in {"forward", "wait_ready", "wait_ok", "commit", "sz", "rz", "failed"}
  \/ kind = "firmware" /\ p \in {"forward", "wait_accepted", "wait_completed", "sz", "rz",
                                 "failed", "install", "rejoin"}

\* What arm a may be doing: at place p, in job j, with cmd in its slot.
Local(a, p, j, cmd) ==
  /\ (j = NoMsg) <=> (p \in {"display", "command", "dark"})
  /\ j # NoMsg => Fits(p, j.kind)
  /\ p = "command" => cmd # NoMsg
  /\ cmd # NoMsg => p = "command" \/ (j # NoMsg /\ j.kind = "firmware")
  /\ a = 0 => cmd = NoMsg /\ p \notin {"command", "rz", "commit"}
  /\ a = Last => p \notin Waits \cup {"forward", "sz"}
  /\ p = "commit" => a = Last

Control ==
  /\ pc \in [Arms -> Places]
  /\ \A a \in Arms : Local(a, pc[a], job[a], ring_cmd[a])

Pictures ==
  /\ image_cmd \in [Arms -> [action : Actions, delay : 0..1] \cup {NoMsg}]
  /\ image_current \in [Arms -> NoImage..(IMAGE_COUNT - 1)]
  /\ \A a \in Arms : pc[a] # "dark" => image_current[a] >= 0
  /\ layer_files \in [Arms -> Mixed..jobs]
  /\ blend \in [Arms -> Mixed..jobs]

Versions ==
  /\ installed \in [Arms -> 0..jobs]
  /\ snapshots \in [Arms -> (0..jobs) \cup {NoMsg}]
  /\ \A a \in Arms : snapshots[a] # NoMsg => pc[a] = "rejoin"
  /\ undone \in BOOLEAN

Outcomes ==
  /\ executed \in [Arms -> SUBSET (1..jobs)]
  /\ \A a \in Arms : executed[a] \subseteq executed[Last]
  /\ accepted \subseteq 1..jobs
  /\ rejected \subseteq 1..jobs

Inv(H) == Issued(H) /\ Content(H) /\ Control /\ Pictures /\ Versions /\ Outcomes

-----------------------------------------------------------------------------
(* Numbers and sequences. *)

\* The end of one sequence follows the other.
LEMMA ConcatIs ==
  ASSUME NEW S, NEW s \in Seq(S), NEW t \in Seq(S)
  PROVE  /\ s \o t \in Seq(S)
         /\ Len(s \o t) = Len(s) + Len(t)
         /\ \A k \in 1..(Len(s) + Len(t)) : (s \o t)[k] = IF k <= Len(s) THEN s[k] ELSE t[k - Len(s)]
OBVIOUS

\* The first n messages of a queue.
LEMMA BatchIs ==
  ASSUME NEW S, NEW q \in Seq(S), NEW n \in 0..Len(q)
  PROVE  /\ Batch(q, n) \in Seq(S)
         /\ Len(Batch(q, n)) = n
         /\ \A i \in 1..n : Batch(q, n)[i] = q[i]
<1> QED
  BY DEF Batch

\* The messages behind the first n.
LEMMA RestIs ==
  ASSUME NEW S, NEW q \in Seq(S), NEW n \in 0..Len(q)
  PROVE  /\ Rest(q, n) \in Seq(S)
         /\ Len(Rest(q, n)) = Len(q) - n
         /\ \A i \in 1..(Len(q) - n) : Rest(q, n)[i] = q[n + i]
<1> QED
  BY DEF Rest

\* A queue that has lost its i-th message.
LEMMA WithoutIs ==
  ASSUME NEW S, NEW q \in Seq(S), NEW i \in 1..Len(q)
  PROVE  /\ Without(q, i) \in Seq(S)
         /\ Len(Without(q, i)) = Len(q) - 1
         /\ \A k \in 1..(Len(q) - 1) : Without(q, i)[k] = IF k < i THEN q[k] ELSE q[k + 1]
<1> DEFINE s == SubSeq(q, 1, i - 1)
           t == SubSeq(q, i + 1, Len(q))
<1>2. s \in Seq(S) /\ Len(s) = i - 1 /\ \A k \in 1..(i - 1) : s[k] = q[k]
  <2> QED
    OBVIOUS
<1>3. t \in Seq(S) /\ Len(t) = Len(q) - i /\ \A k \in 1..(Len(q) - i) : t[k] = q[i + k]
  <2> QED
    OBVIOUS
<1> HIDE DEF s, t
<1>4. /\ s \o t \in Seq(S)
      /\ Len(s \o t) = Len(s) + Len(t)
      /\ \A k \in 1..(Len(s) + Len(t)) : (s \o t)[k] = IF k <= Len(s) THEN s[k] ELSE t[k - Len(s)]
  BY <1>2, <1>3, ConcatIs, Zenon
<1>5. Len(s \o t) = Len(q) - 1
  BY <1>2, <1>3, <1>4
<1>6. ASSUME NEW k \in 1..(Len(q) - 1)
      PROVE  (s \o t)[k] = IF k < i THEN q[k] ELSE q[k + 1]
  <2>1. CASE k < i
    BY <1>2, <2>1
  <2>2. CASE ~(k < i)
    <3>1. k - (i - 1) \in 1..(Len(q) - i) /\ i + (k - (i - 1)) = k + 1 /\ ~(k <= i - 1)
      BY <2>2
    <3>2. t[k - (i - 1)] = q[k + 1]
      BY <1>3, <3>1, Zenon
    <3> QED
      BY <1>2, <1>3, <2>2, <3>2
  <2> QED
    BY <2>1, <2>2, Zenon
<1> QED
  BY <1>4, <1>5, <1>6, Zenon DEF Without, s, t

\* A slot keeps what it holds or takes a message of its type from the batch.
LEMMA ReceivedIs ==
  ASSUME NEW S, NEW p \in Seq(S), NEW slot, NEW type, NEW m \in Received(slot, p, type)
  PROVE  m = slot \/ \E i \in 1..Len(p) : p[i].type = type /\ m = p[i]
BY Zenon DEF Received, Latest, OfType

\* All that the proofs need to know of the range of a sequence number.
LEMMA SeqRange == U16_MAX \in Nat /\ U16_MAX >= 1
BY DEF U16_MAX

\* The next sequence number is a new one, as long as fewer than U16_MAX are used.
LEMMA NextSeqIs ==
  ASSUME ring_next_seq \in 0..U16_MAX, Steps(ring_next_seq) < U16_MAX - 1
  PROVE  NextSeq \in 1..U16_MAX /\ Steps(NextSeq) = Steps(ring_next_seq) + 1
<1>1. FirstSeq \in 0..U16_MAX
  BY RingAssumption, Zenon
<1>2. CASE ring_next_seq = U16_MAX
  BY <1>1, <1>2 DEF NextSeq, Steps
<1>3. CASE ring_next_seq # U16_MAX
  BY <1>1, <1>3, SeqRange DEF NextSeq, Steps
<1> QED
  BY <1>2, <1>3, Zenon

\* Different sequence numbers are a different number of steps away.
LEMMA StepsApart ==
  ASSUME NEW s \in 1..U16_MAX, NEW t \in 1..U16_MAX, Steps(s) = Steps(t)
  PROVE  s = t
<1>1. FirstSeq \in 0..U16_MAX
  BY RingAssumption, Zenon
<1> QED
  BY <1>1, SeqRange DEF Steps

-----------------------------------------------------------------------------
(* What the parts of a step keep. *)

\* The arms are numbered from the master to the last one.
LEMMA ArmsAre ==
  /\ 0 \in Arms /\ Last \in Arms /\ Last \in Nat /\ Last # 0
  /\ \A a \in Arms : a \in Nat /\ a <= Last /\ (a # Last => a + 1 \in Arms)
BY RingAssumption DEF Arms, Last

\* What is known of a job that was issued.
LEMMA JobIs ==
  ASSUME NEW H, Issued(H), NEW j \in H
  PROVE  /\ j \in Jobs /\ j # NoMsg /\ j.id \in 1..jobs
         /\ j.kind \in {"image", "file", "firmware"}
         /\ j.kind # "firmware" => j.seq \in 1..U16_MAX
         /\ j.kind = "image" => j.action \in Actions
<1>1. j \in Jobs
  BY Zenon DEF Issued
<1>2. j # NoMsg
  BY <1>1, NoMsgAssumption, Zenon
<1>3. j.kind \in Kinds /\ j.id \in 1..MaxJobs /\ j.seq \in 0..U16_MAX
  BY <1>1, Zenon DEF Jobs
<1>4. j.kind \in {"image", "file", "firmware"}
  BY <1>3, RingAssumption, Zenon
<1>6. /\ j.id <= jobs /\ (j.kind # "firmware" => j.seq >= 1)
      /\ (j.kind = "image" => j.action \in Actions)
  BY Zenon DEF Issued
<1>7. j.id \in 1..jobs
  BY <1>3, <1>6
<1>8. j.kind # "firmware" => j.seq \in 1..U16_MAX
  BY <1>3, <1>6
<1> QED
  BY <1>1, <1>2, <1>4, <1>6, <1>7, <1>8, Zenon

\* The messages an arm sends about its job.
LEMMA MessagesAre ==
  ASSUME NEW H, Issued(H), NEW j \in H
  PROVE  /\ Refusal(j) \in Results(H)
         /\ j.kind # "firmware" => RingError(j.seq) \in RingErrors /\ RingCmd(j) \in Commands(H)
         /\ j.kind = "firmware" => BootloaderUpdateCmd(j) \in Updates(H)
         /\ \A a \in 1..Last : j.kind # "firmware" => RingAck(j.seq, a, "READY") \in Acks(H)
         /\ j.kind = "file" => RingAck(j.seq, Last, "OK") \in Acks(H)
         /\ j.kind = "image" /\ j.id \in executed[Last] => RingAck(j.seq, Last, "OK") \in Acks(H)
<1>1. j.kind # "firmware" => j.seq \in 1..U16_MAX
  BY JobIs, Zenon
<1>2. j.kind # "firmware" => RingError(j.seq) \in RingErrors
  BY <1>1, Zenon DEF RingError, RingErrors
<1>3. BootloaderAck("ERROR") \in BootloaderAcks
  BY Zenon DEF BootloaderAck, BootloaderAcks
<1>4. Refusal(j) \in Results(H)
  BY <1>2, <1>3, Zenon DEF Refusal, Results
<1>5. j.kind # "firmware" => RingCmd(j) \in Commands(H)
  BY Zenon DEF RingCmd, Commands
<1>6. j.kind = "firmware" => BootloaderUpdateCmd(j) \in Updates(H)
  BY Zenon DEF BootloaderUpdateCmd, Updates
<1>7. Last \in 1..Last
  BY ArmsAre
<1>8. ASSUME NEW a \in 1..Last, NEW r \in {"READY", "OK"}, j.kind # "firmware",
             r = "OK" /\ j.kind = "image" => j.id \in executed[Last]
      PROVE  RingAck(j.seq, a, r) \in Acks(H)
  <2>1. RingAck(j.seq, a, r) \in RingAcks
    BY <1>1, <1>8, Zenon DEF RingAck, RingAcks
  <2>2. RingAck(j.seq, a, r).seq = j.seq /\ RingAck(j.seq, a, r).result = r
    BY Zenon DEF RingAck
  <2> QED
    BY <1>8, <2>1, <2>2, Zenon DEF Acks
<1> QED
  BY <1>2, <1>4, <1>5, <1>6, <1>7, <1>8, Zenon

\* The links still carry what they may carry after an arm took and answered.
LEMMA Replied ==
  ASSUME NEW U, rx_cw \in [Arms -> Seq(U)], NEW a \in Arms, NEW n \in 0..Len(rx_cw[a]),
         NEW msgs \in Seq(U), TakeAndReply(a, n, msgs)
  PROVE  rx_cw' \in [Arms -> Seq(U)]
<1>1. ASSUME NEW b \in Arms
      PROVE  (CASE b = a -> Rest(rx_cw[b], n)
                [] b = a - 1 -> rx_cw[b] \o msgs
                [] OTHER -> rx_cw[b]) \in Seq(U)
  <2>2. b = a => Rest(rx_cw[b], n) \in Seq(U)
    BY RestIs, Zenon
  <2>3. rx_cw[b] \o msgs \in Seq(U)
    BY ConcatIs, Zenon
  <2> QED
    BY <2>2, <2>3, Zenon
<1> QED
  BY <1>1, Zenon DEF TakeAndReply

\* The image commands that may wait at the end of a step.
Pictured == [action : Actions, delay : 0..1] \cup {NoMsg}

\* The image an action selects is one of the images.
LEMMA ShownIs ==
  ASSUME NEW action \in Actions, NEW c \in 0..(IMAGE_COUNT - 1)
  PROVE  Shown(action, c) \in 0..(IMAGE_COUNT - 1)
<1>0. IMAGE_COUNT \in Nat \ {0}
  BY RingAssumption, Zenon
<1>1. \/ action.type \in {"REPLAY", "NEXT", "PREVIOUS"}
      \/ action.type = "PLAY_INDEX" /\ action.index \in 0..(IMAGE_COUNT - 1)
  BY Zenon DEF Actions
<1>2. (c + 1) % IMAGE_COUNT \in 0..(IMAGE_COUNT - 1)
  BY <1>0
<1>3. CASE action.type = "REPLAY"
  BY <1>3, Zenon DEF Shown
<1>4. CASE action.type = "NEXT"
  BY <1>2, <1>4, Zenon DEF Shown
<1>5. CASE action.type = "PREVIOUS"
  BY <1>0, <1>5 DEF Shown
<1>6. CASE action.type = "PLAY_INDEX"
  BY <1>1, <1>6, Zenon DEF Shown
<1> QED
  BY <1>1, <1>3, <1>4, <1>5, <1>6, Zenon

\* The end of an image leaves a command with a shorter delay, or none.
LEMMA EndOfImageKeeps ==
  ASSUME NEW a \in Arms, NEW cmd \in ImageCmds \cup {NoMsg}, NEW c \in 0..(IMAGE_COUNT - 1),
         image_cmd \in [Arms -> Pictured],
         image_current \in [Arms -> NoImage..(IMAGE_COUNT - 1)],
         EndOfImage(a, cmd, c)
  PROVE  /\ image_cmd' \in [Arms -> Pictured]
         /\ image_current' \in [Arms -> NoImage..(IMAGE_COUNT - 1)]
         /\ image_current'[a] >= 0
         /\ \A b \in Arms \ {a} : image_current'[b] = image_current[b]
<1> DEFINE v == IF Delayed(cmd) THEN [cmd EXCEPT !.delay = @ - 1] ELSE NoMsg
           w == IF cmd = NoMsg \/ Delayed(cmd) THEN c ELSE Shown(cmd.action, c)
<1>1. image_cmd' = [image_cmd EXCEPT ![a] = v] /\ image_current' = [image_current EXCEPT ![a] = w]
  BY Zenon DEF EndOfImage
<1>2. v \in Pictured
  <2>1. CASE Delayed(cmd)
    <3>1. cmd \in ImageCmds /\ cmd.delay > 0
      BY <2>1, Zenon DEF Delayed
    <3>2. cmd \in [action : Actions, delay : 0..2]
      BY <3>1, Zenon DEF ImageCmds, POV_RING_IMAGE_APPLY_DELAY_FRAMES
    <3>3. cmd.action \in Actions /\ cmd.delay - 1 \in 0..1
      BY <3>1, <3>2
    <3>4. [cmd EXCEPT !.delay = @ - 1] = [action |-> cmd.action, delay |-> cmd.delay - 1]
      BY <3>2
    <3> QED
      BY <2>1, <3>3, <3>4, Zenon DEF Pictured
  <2> QED
    BY <2>1, Zenon DEF Pictured
<1>3. w \in 0..(IMAGE_COUNT - 1)
  <2>2. CASE ~(cmd = NoMsg \/ Delayed(cmd))
    <3>1. cmd.action \in Actions
      BY <2>2, Zenon DEF ImageCmds
    <3> QED
      BY <2>2, <3>1, ShownIs, Zenon
  <2> QED
    BY <2>2, Zenon
<1> HIDE DEF v, w
<1>4. IMAGE_COUNT \in Nat \ {0} /\ NoImage = -1
  BY RingAssumption, Zenon DEF NoImage
<1>5. w \in NoImage..(IMAGE_COUNT - 1) /\ w >= 0
  BY <1>3, <1>4
<1> QED
  BY <1>1, <1>2, <1>5, Zenon

\* An arm that leaves its handler goes back to its images or to the next command.
LEMMA LeaveKeeps ==
  ASSUME NEW H, Issued(H), job \in [Arms -> H \cup {NoMsg}], Control, Pictures,
         NEW a \in Arms, NEW cmd \in ImageCmds \cup {NoMsg}, NEW c \in 0..(IMAGE_COUNT - 1),
         job[a] # NoMsg,
         ring_cmd[a] # NoMsg => cmd \in Pictured,
         ring_cmd' = ring_cmd,
         Leave(a, cmd, c)
  PROVE  /\ job' \in [Arms -> H \cup {NoMsg}]
         /\ Control'
         /\ image_cmd' \in [Arms -> Pictured]
         /\ image_current' \in [Arms -> NoImage..(IMAGE_COUNT - 1)]
         /\ \A b \in Arms : pc'[b] # "dark" => image_current'[b] >= 0
         /\ pc'[a] \in {"display", "command"}
         /\ \A b \in Arms \ {a} : pc'[b] = pc[b]
<1>0. /\ pc \in [Arms -> Places]
      /\ \A b \in Arms : Local(b, pc[b], job[b], ring_cmd[b])
  BY Zenon DEF Control
<1>a. /\ image_cmd \in [Arms -> Pictured]
      /\ image_current \in [Arms -> NoImage..(IMAGE_COUNT - 1)]
      /\ \A b \in Arms : pc[b] # "dark" => image_current[b] >= 0
  BY Zenon DEF Pictures, Pictured
<1>1. job' = [job EXCEPT ![a] = NoMsg]
  BY Zenon DEF Leave
<1>2. job' \in [Arms -> H \cup {NoMsg}] /\ job'[a] = NoMsg /\ \A b \in Arms \ {a} : job'[b] = job[b]
  BY <1>1, Zenon
<1>3. ASSUME NEW p \in {"display", "command"}, pc' = [pc EXCEPT ![a] = p],
             p = "command" <=> ring_cmd[a] # NoMsg
      PROVE  /\ Control'
             /\ pc'[a] \in {"display", "command"}
             /\ \A b \in Arms \ {a} : pc'[b] = pc[b]
  <2>1. /\ pc' \in [Arms -> Places] /\ pc'[a] = p
        /\ \A b \in Arms \ {a} : pc'[b] = pc[b]
    BY <1>0, <1>3, Zenon DEF Places
  <2>2. Local(a, p, NoMsg, ring_cmd[a])
    <3>1. Local(a, pc[a], job[a], ring_cmd[a])
      BY <1>0, Zenon
    <3> QED
      BY <1>3, <3>1, Zenon DEF Local, Waits
  <2>3. \A b \in Arms : Local(b, pc'[b], job'[b], ring_cmd'[b])
    BY <1>0, <1>2, <2>1, <2>2, Zenon
  <2> QED
    BY <2>1, <2>3, Zenon DEF Control
<1>4. CASE ring_cmd[a] # NoMsg
  <2>1. /\ pc' = [pc EXCEPT ![a] = "command"]
        /\ image_cmd' = [image_cmd EXCEPT ![a] = cmd]
        /\ image_current' = [image_current EXCEPT ![a] = c]
    BY <1>4, Zenon DEF Leave
  <2>2. IMAGE_COUNT \in Nat \ {0} /\ NoImage = -1
    BY RingAssumption, Zenon DEF NoImage
  <2>3. c \in NoImage..(IMAGE_COUNT - 1) /\ c >= 0
    BY <2>2
  <2>4. /\ image_cmd' \in [Arms -> Pictured]
        /\ image_current' \in [Arms -> NoImage..(IMAGE_COUNT - 1)]
        /\ image_current'[a] >= 0
        /\ \A b \in Arms \ {a} : image_current'[b] = image_current[b]
    BY <1>a, <1>4, <2>1, <2>3, Zenon
  <2> QED
    BY <1>2, <1>3, <1>4, <1>a, <2>1, <2>4, Zenon
<1>5. CASE ring_cmd[a] = NoMsg
  <2>1. pc' = [pc EXCEPT ![a] = "display"] /\ EndOfImage(a, cmd, c)
    BY <1>5, Zenon DEF Leave
  <2>2. /\ image_cmd' \in [Arms -> Pictured]
        /\ image_current' \in [Arms -> NoImage..(IMAGE_COUNT - 1)]
        /\ image_current'[a] >= 0
        /\ \A b \in Arms \ {a} : image_current'[b] = image_current[b]
    BY <1>a, <2>1, EndOfImageKeeps, Zenon
  <2> QED
    BY <1>2, <1>3, <1>5, <1>a, <2>1, <2>2, Zenon
<1> QED
  BY <1>4, <1>5, Zenon

\* Rolling back or keeping the snapshots leaves versions that were installed.
LEMMA FinishKeeps ==
  ASSUME Versions, NEW rollback \in BOOLEAN, Finish(rollback), jobs' = jobs
  PROVE  Versions' /\ (~undone' => ~undone /\ installed' = installed)
<1>1. /\ installed \in [Arms -> 0..jobs]
      /\ snapshots \in [Arms -> (0..jobs) \cup {NoMsg}]
      /\ undone \in BOOLEAN
  BY Zenon DEF Versions
<1>2. installed' \in [Arms -> 0..jobs]
  BY <1>1, Zenon DEF Finish
<1>3. snapshots' \in [Arms -> (0..jobs) \cup {NoMsg}] /\ \A a \in Arms : snapshots'[a] = NoMsg
  BY Zenon DEF Finish
<1>4. undone' = (undone \/ installed' # installed)
  BY Zenon DEF Finish
<1>5. undone' \in BOOLEAN /\ (~undone' => ~undone /\ installed' = installed)
  BY <1>4, Zenon
<1> QED
  BY <1>2, <1>3, <1>5, Zenon DEF Versions

\* The jobs that were issued stay what they were.
LEMMA IssuedStays ==
  ASSUME NEW H, Issued(H), jobs' = jobs, ring_next_seq' = ring_next_seq
  PROVE  Issued(H)'
BY Zenon DEF Issued

\* What was acknowledged stays acknowledged: the last arm forgets no job.
LEMMA AcksGrow ==
  ASSUME NEW H, executed[Last] \subseteq executed'[Last]
  PROVE  Acks(H) \subseteq Acks(H)' /\ Results(H) \subseteq Results(H)'
<1>1. Acks(H) \subseteq Acks(H)'
  BY Zenon DEF Acks
<1> QED
  BY <1>1, Zenon DEF Results

\* The links and slots may hold what they held before.
LEMMA ContentStays ==
  ASSUME NEW H, executed[Last] \subseteq executed'[Last],
         rx_cw' \in [Arms -> Seq(Results(H))],
         rx_ccw' \in [Arms -> Seq(Commands(H) \cup Updates(H))],
         ring_ack' \in [Arms -> Acks(H) \cup {NoMsg}],
         ring_error' \in [Arms -> RingErrors \cup {NoMsg}],
         ring_cmd' \in [Arms -> Commands(H) \cup {NoMsg}],
         job' \in [Arms -> H \cup {NoMsg}]
  PROVE  Content(H)'
<1>1. Acks(H) \subseteq Acks(H)' /\ Results(H) \subseteq Results(H)'
  BY AcksGrow, Zenon
<1>2. rx_cw' \in [Arms -> Seq(Results(H)')]
  <2> DEFINE A == Results(H)
             B == Results(H)'
  <2>1. A \subseteq B
    BY <1>1, Zenon
  <2> HIDE DEF A, B
  <2>2. Seq(A) \subseteq Seq(B)
    BY <2>1
  <2>3. rx_cw' \in [Arms -> Seq(B)]
    BY <2>2, Zenon DEF A
  <2> QED
    BY <2>3 DEF B
<1>3. ring_ack' \in [Arms -> Acks(H)' \cup {NoMsg}]
  BY <1>1, Zenon
<1> QED
  BY <1>2, <1>3, Zenon DEF Content

\* The versions stay while no arm that has a snapshot moves on.
LEMMA VersionsStay ==
  ASSUME Versions, jobs' = jobs, UNCHANGED firmware,
         \A b \in Arms : pc[b] = "rejoin" => pc'[b] = "rejoin"
  PROVE  Versions'
BY Zenon DEF Versions, firmware

\* A command waits only behind a firmware.
LEMMA NoCommandWaits ==
  ASSUME Control, NEW a \in Arms, job[a] # NoMsg, job[a].kind # "firmware"
  PROVE  ring_cmd[a] = NoMsg
<1>1. Local(a, pc[a], job[a], ring_cmd[a])
  BY Zenon DEF Control
<1> QED
  BY <1>1, Zenon DEF Local

\* The image command of an arm that is not at the end of an image.
LEMMA PicturedIs == Pictured \subseteq ImageCmds \cup {NoMsg} /\ Replay \in Pictured
<1>1. 0..1 \subseteq 0..2 /\ 0 \in 0..1
  OBVIOUS
<1>2. [action : Actions, delay : 0..1] \subseteq ImageCmds
  BY <1>1, Zenon DEF ImageCmds, POV_RING_IMAGE_APPLY_DELAY_FRAMES
<1>3. [type |-> "REPLAY"] \in Actions
  BY Zenon DEF Actions
<1>4. Replay \in [action : Actions, delay : 0..1]
  BY <1>1, <1>3, Zenon DEF Replay, ImageCmd
<1> QED
  BY <1>2, <1>4, Zenon DEF Pictured

\* What the step that ends a handler leaves alone.
Aside(H) ==
  /\ rx_ccw' = rx_ccw /\ ring_cmd' = ring_cmd /\ jobs' = jobs /\ ring_next_seq' = ring_next_seq
  /\ ring_ack' \in [Arms -> Acks(H) \cup {NoMsg}]
  /\ ring_error' \in [Arms -> RingErrors \cup {NoMsg}]

\* An arm that gives its job up.
LEMMA FailStep ==
  ASSUME NEW H, Inv(H), NEW a \in Arms, job[a] # NoMsg, NEW n \in 0..Len(rx_cw[a]), Fail(a, n),
         Aside(H)
  PROVE  Inv(H)'
<1>0. Issued(H) /\ Content(H) /\ Control /\ Pictures /\ Versions /\ Outcomes
  BY Zenon DEF Inv
<1>a. /\ rx_ccw' = rx_ccw /\ ring_cmd' = ring_cmd /\ jobs' = jobs /\ ring_next_seq' = ring_next_seq
      /\ ring_ack' \in [Arms -> Acks(H) \cup {NoMsg}]
      /\ ring_error' \in [Arms -> RingErrors \cup {NoMsg}]
  BY Zenon DEF Aside
<1>1. /\ job \in [Arms -> H \cup {NoMsg}]
      /\ rx_cw \in [Arms -> Seq(Results(H))]
      /\ rx_ccw \in [Arms -> Seq(Commands(H) \cup Updates(H))]
      /\ ring_cmd \in [Arms -> Commands(H) \cup {NoMsg}]
  BY <1>0, Zenon DEF Content
<1>2. job[a] \in H
  BY <1>1, Zenon
<1>3. job[a].id \in 1..jobs /\ Refusal(job[a]) \in Results(H)
  BY <1>0, <1>2, JobIs, MessagesAre, Zenon
<1>4. Local(a, pc[a], job[a], ring_cmd[a])
  BY <1>0, Zenon DEF Control
<1>5. Issued(H)'
  BY <1>0, <1>a, IssuedStays, Zenon
<1>6. rx_cw' \in [Arms -> Seq(Results(H))]
  <2>1. TakeAndReply(a, n, <<Refusal(job[a])>>)
    BY Zenon DEF Fail
  <2>2. <<Refusal(job[a])>> \in Seq(Results(H))
    BY <1>3
  <2> QED
    BY <1>1, <2>1, <2>2, Replied, Zenon
<1> DEFINE cmd == IF a = 0 /\ job[a].kind # "image" THEN Replay ELSE image_cmd[a]
<1>7. cmd \in Pictured
  BY <1>0, PicturedIs, Zenon DEF Pictures, Pictured
<1>8. Leave(a, cmd, image_current[a])
  BY Zenon DEF Fail
<1> HIDE DEF cmd
<1>9. image_current[a] \in 0..(IMAGE_COUNT - 1)
  <2>1. pc[a] # "dark"
    BY <1>4 DEF Local
  <2>2. image_current[a] \in NoImage..(IMAGE_COUNT - 1) /\ image_current[a] >= 0
    BY <1>0, <2>1, Zenon DEF Pictures
  <2> QED
    BY <2>2
<1>10. /\ job' \in [Arms -> H \cup {NoMsg}]
       /\ Control'
       /\ image_cmd' \in [Arms -> Pictured]
       /\ image_current' \in [Arms -> NoImage..(IMAGE_COUNT - 1)]
       /\ \A b \in Arms : pc'[b] # "dark" => image_current'[b] >= 0
       /\ \A b \in Arms \ {a} : pc'[b] = pc[b]
  <2>1. cmd \in ImageCmds \cup {NoMsg}
    BY <1>7, PicturedIs, Zenon
  <2> QED
    BY <1>0, <1>a, <1>1, <1>7, <1>8, <1>9, <2>1, LeaveKeeps, Zenon
<1>11. executed' = executed /\ UNCHANGED <<layer_files, blend, accepted>>
  BY Zenon DEF Fail
<1>12. Content(H)'
  <2>1. executed[Last] \subseteq executed'[Last]
    BY <1>11, Zenon
  <2> QED
    BY <1>1, <1>a, <1>6, <1>10, <2>1, ContentStays, Zenon
<1>13. Pictures'
  BY <1>0, <1>a, <1>10, <1>11, Zenon DEF Pictures, Pictured
<1>14. Versions'
  <2>1. CASE job[a].kind = "firmware"
    <3>1. Finish(TRUE)
      BY <2>1, Zenon DEF Fail
    <3> QED
      BY <1>0, <1>a, <3>1, FinishKeeps, Zenon
  <2>2. CASE job[a].kind # "firmware"
    <3>1. UNCHANGED firmware
      BY <2>2, Zenon DEF Fail
    <3>2. pc[a] # "rejoin"
      BY <1>4, <2>2, Zenon DEF Local, Fits
    <3> QED
      BY <1>0, <1>a, <1>10, <3>1, <3>2, VersionsStay, Zenon
  <2> QED
    BY <2>1, <2>2, Zenon
<1>15. Outcomes'
  <2>1. rejected' \subseteq 1..jobs
    BY <1>0, <1>3, Zenon DEF Fail, Outcomes
  <2> QED
    BY <1>0, <1>a, <1>11, <2>1, Zenon DEF Outcomes
<1> QED
  BY <1>5, <1>10, <1>12, <1>13, <1>14, <1>15 DEF Inv

\* An arm that commits its job, after the last arm when it is an image job.
LEMMA CommitStep ==
  ASSUME NEW H, Inv(H), NEW a \in Arms, job[a] # NoMsg, NEW n \in 0..Len(rx_cw[a]), Commit(a, n),
         job[a].kind = "image" => a = Last \/ job[a].id \in executed[Last],
         Aside(H)
  PROVE  Inv(H)'
<1>0. Issued(H) /\ Content(H) /\ Control /\ Pictures /\ Versions /\ Outcomes
  BY Zenon DEF Inv
<1>a. /\ rx_ccw' = rx_ccw /\ ring_cmd' = ring_cmd /\ jobs' = jobs /\ ring_next_seq' = ring_next_seq
      /\ ring_ack' \in [Arms -> Acks(H) \cup {NoMsg}]
      /\ ring_error' \in [Arms -> RingErrors \cup {NoMsg}]
  BY Zenon DEF Aside
<1>1. /\ job \in [Arms -> H \cup {NoMsg}]
      /\ rx_cw \in [Arms -> Seq(Results(H))]
      /\ rx_ccw \in [Arms -> Seq(Commands(H) \cup Updates(H))]
      /\ ring_cmd \in [Arms -> Commands(H) \cup {NoMsg}]
      /\ ring_ack \in [Arms -> Acks(H) \cup {NoMsg}]
  BY <1>0, Zenon DEF Content
<1>2. job[a] \in H
  BY <1>1, Zenon
<1>3. job[a].id \in 1..jobs /\ (job[a].kind = "image" => job[a].action \in Actions)
  BY <1>0, <1>2, JobIs, Zenon
<1>4. Local(a, pc[a], job[a], ring_cmd[a])
  BY <1>0, Zenon DEF Control
<1>5. job[a].kind \in {"image", "file"}
  BY Zenon DEF Commit, Execute, Reload
<1>6. ring_cmd[a] = NoMsg /\ pc[a] # "rejoin" /\ pc[a] # "dark"
  BY <1>4, <1>5, Zenon DEF Local, Fits
<1>7. Issued(H)'
  BY <1>0, <1>a, IssuedStays, Zenon
<1>8. image_current[a] \in 0..(IMAGE_COUNT - 1) /\ 0 \in 0..(IMAGE_COUNT - 1)
  <2>1. image_current[a] \in NoImage..(IMAGE_COUNT - 1) /\ image_current[a] >= 0
    BY <1>0, <1>6, Zenon DEF Pictures
  <2> QED
    BY <2>1, RingAssumption
<1>9. Last \in Arms
  BY ArmsAre, Zenon
<1>10. CASE Execute(a, n)
  <2>1. /\ job[a].kind = "image"
        /\ executed' = [executed EXCEPT ![a] = @ \cup {job[a].id}]
        /\ TakeAndReply(a, n, <<RingAck(job[a].seq, Last, "OK")>>)
        /\ Leave(a, ImageCmd(job[a].action, POV_RING_IMAGE_APPLY_DELAY_FRAMES), image_current[a])
        /\ accepted' = IF a = 0 THEN accepted \cup {job[a].id} ELSE accepted
        /\ UNCHANGED <<stored, rejected>>
    BY <1>10, Zenon DEF Execute, Accept
  <2>2. /\ executed' \in [Arms -> SUBSET (1..jobs)]
        /\ executed[Last] \subseteq executed'[Last]
        /\ job[a].id \in executed'[Last]
        /\ \A b \in Arms : executed'[b] \subseteq executed'[Last]
    <3>1. executed \in [Arms -> SUBSET (1..jobs)] /\ \A b \in Arms : executed[b] \subseteq executed[Last]
      BY <1>0, Zenon DEF Outcomes
    <3>2. /\ executed'[a] = executed[a] \cup {job[a].id}
          /\ \A b \in Arms \ {a} : executed'[b] = executed[b]
      BY <2>1, <3>1, Zenon
    <3>3. executed' \in [Arms -> SUBSET (1..jobs)]
      BY <1>3, <2>1, <3>1, Zenon
    <3>4. executed[Last] \subseteq executed'[Last] /\ job[a].id \in executed'[Last]
      BY <1>9, <2>1, <3>2, Zenon
    <3> QED
      BY <3>1, <3>2, <3>3, <3>4, Zenon
  <2>3. Acks(H) \subseteq Acks(H)' /\ Results(H) \subseteq Results(H)'
    BY <2>2, AcksGrow, Zenon
  <2>4. RingAck(job[a].seq, Last, "OK") \in Acks(H)'
    <3>1. job[a].seq \in 1..U16_MAX /\ Last \in 1..Last
      BY <1>0, <1>2, <2>1, JobIs, ArmsAre
    <3>2. RingAck(job[a].seq, Last, "OK") \in RingAcks
      BY <3>1, Zenon DEF RingAck, RingAcks
    <3>3. RingAck(job[a].seq, Last, "OK").seq = job[a].seq
      BY Zenon DEF RingAck
    <3> QED
      BY <1>2, <2>1, <2>2, <3>2, <3>3, Zenon DEF Acks
  <2>5. rx_cw' \in [Arms -> Seq(Results(H)')]
    <3> DEFINE A == Results(H)
               B == Results(H)'
               m == RingAck(job[a].seq, Last, "OK")
    <3>1. A \subseteq B /\ m \in B
      BY <2>3, <2>4, Zenon DEF Results
    <3>2. TakeAndReply(a, n, <<m>>)
      BY <2>1, Zenon
    <3> HIDE DEF A, B, m
    <3>3. Seq(A) \subseteq Seq(B) /\ <<m>> \in Seq(B)
      BY <3>1
    <3>4. rx_cw \in [Arms -> Seq(B)]
      BY <1>1, <3>3, Zenon DEF A
    <3>5. rx_cw' \in [Arms -> Seq(B)]
      BY <3>2, <3>3, <3>4, Replied, Zenon
    <3> QED
      BY <3>5, Zenon DEF B
  <2>6. ImageCmd(job[a].action, POV_RING_IMAGE_APPLY_DELAY_FRAMES) \in ImageCmds
    <3>1. 2 \in 0..2
      OBVIOUS
    <3> QED
      BY <1>3, <2>1, <3>1, Zenon DEF ImageCmd, ImageCmds, POV_RING_IMAGE_APPLY_DELAY_FRAMES
  <2>7. /\ job' \in [Arms -> H \cup {NoMsg}]
        /\ Control'
        /\ image_cmd' \in [Arms -> Pictured]
        /\ image_current' \in [Arms -> NoImage..(IMAGE_COUNT - 1)]
        /\ \A b \in Arms : pc'[b] # "dark" => image_current'[b] >= 0
        /\ \A b \in Arms \ {a} : pc'[b] = pc[b]
    BY <1>0, <1>a, <1>1, <1>6, <1>8, <2>1, <2>6, LeaveKeeps, Zenon
  <2>8. Content(H)'
    <3>1. ring_ack' \in [Arms -> Acks(H)' \cup {NoMsg}]
      BY <1>a, <2>3, Zenon
    <3> QED
      BY <1>1, <1>a, <2>5, <2>7, <3>1, Zenon DEF Content
  <2>9. Pictures'
    BY <1>0, <1>a, <2>1, <2>7, Zenon DEF Pictures, Pictured, stored
  <2>10. Versions'
    <3>1. UNCHANGED firmware
      BY <2>1, Zenon DEF stored
    <3> QED
      BY <1>0, <1>a, <1>6, <2>7, <3>1, VersionsStay, Zenon
  <2>11. Outcomes'
    BY <1>0, <1>a, <2>1, <2>2, Zenon DEF Outcomes
  <2> QED
    BY <1>7, <2>7, <2>8, <2>9, <2>10, <2>11, Zenon DEF Inv
<1>11. CASE Reload(a, n)
  <2>0. job[a].kind = "file" /\ UNCHANGED <<layer_files, firmware, executed>>
    BY <1>11, Zenon DEF Reload
  <2>1. executed[Last] \subseteq executed'[Last]
    BY <2>0, Zenon
  <2>2. /\ RingAck(job[a].seq, Last, "OK") \in Results(H)
        /\ RingError(job[a].seq) \in Results(H)
    BY <1>0, <1>2, <2>0, MessagesAre, Zenon DEF Results
  <2>3. /\ image_cmd \in [Arms -> Pictured]
        /\ image_current \in [Arms -> NoImage..(IMAGE_COUNT - 1)]
        /\ \A b \in Arms : pc[b] # "dark" => image_current[b] >= 0
        /\ layer_files \in [Arms -> Mixed..jobs] /\ blend \in [Arms -> Mixed..jobs]
    BY <1>0, Zenon DEF Pictures, Pictured
  <2>4. ASSUME NEW m \in Results(H), TakeAndReply(a, n, <<m>>)
        PROVE  rx_cw' \in [Arms -> Seq(Results(H))]
    <3>1. <<m>> \in Seq(Results(H))
      OBVIOUS
    <3> QED
      BY <1>1, <2>4, <3>1, Replied, Zenon
  \* The arm stops or shows the first image, without a look at its slots.
  <2>5. ASSUME NEW p \in {"display", "dark"}, NEW c \in NoImage..(IMAGE_COUNT - 1),
               p # "dark" => c >= 0,
               pc' = [pc EXCEPT ![a] = p], job' = [job EXCEPT ![a] = NoMsg],
               image_current' = [image_current EXCEPT ![a] = c], image_cmd' = image_cmd
        PROVE  /\ job' \in [Arms -> H \cup {NoMsg}]
               /\ Control'
               /\ image_cmd' \in [Arms -> Pictured]
               /\ image_current' \in [Arms -> NoImage..(IMAGE_COUNT - 1)]
               /\ \A b \in Arms : pc'[b] # "dark" => image_current'[b] >= 0
               /\ \A b \in Arms \ {a} : pc'[b] = pc[b]
    <3>1. pc \in [Arms -> Places] /\ \A b \in Arms : Local(b, pc[b], job[b], ring_cmd[b])
      BY <1>0, Zenon DEF Control
    <3>2. /\ pc' \in [Arms -> Places] /\ pc'[a] = p
          /\ \A b \in Arms \ {a} : pc'[b] = pc[b]
      BY <2>5, <3>1, Zenon DEF Places
    <3>3. /\ job' \in [Arms -> H \cup {NoMsg}] /\ job'[a] = NoMsg
          /\ \A b \in Arms \ {a} : job'[b] = job[b]
      BY <1>1, <2>5, Zenon
    <3>4. Local(a, p, NoMsg, NoMsg)
      BY Zenon DEF Local, Waits
    <3>5. \A b \in Arms : Local(b, pc'[b], job'[b], ring_cmd'[b])
      BY <1>6, <1>a, <3>1, <3>2, <3>3, <3>4, Zenon
    <3>6. Control'
      BY <3>2, <3>5, Zenon DEF Control
    <3> QED
      BY <2>3, <2>5, <3>2, <3>3, <3>6, Zenon
  <2>6. ASSUME rx_cw' \in [Arms -> Seq(Results(H))],
               job' \in [Arms -> H \cup {NoMsg}],
               Control',
               image_cmd' \in [Arms -> Pictured],
               image_current' \in [Arms -> NoImage..(IMAGE_COUNT - 1)],
               \A b \in Arms : pc'[b] # "dark" => image_current'[b] >= 0,
               \A b \in Arms \ {a} : pc'[b] = pc[b],
               blend' \in [Arms -> Mixed..jobs],
               accepted' \subseteq 1..jobs, rejected' \subseteq 1..jobs
        PROVE  Inv(H)'
    <3>1. Content(H)'
      BY <1>1, <1>a, <2>1, <2>6, ContentStays, Zenon
    <3>2. Pictures'
      BY <1>a, <2>0, <2>3, <2>6, Zenon DEF Pictures, Pictured
    <3>3. Versions'
      BY <1>0, <1>a, <1>6, <2>0, <2>6, VersionsStay, Zenon
    <3>4. Outcomes'
      BY <1>0, <1>a, <2>0, <2>6, Zenon DEF Outcomes
    <3> QED
      BY <1>7, <2>6, <3>1, <3>2, <3>3, <3>4, Zenon DEF Inv
  <2>7. accepted \subseteq 1..jobs /\ rejected \subseteq 1..jobs
    BY <1>0, Zenon DEF Outcomes
  <2>8. NoImage \in NoImage..(IMAGE_COUNT - 1) /\ 0 \in NoImage..(IMAGE_COUNT - 1)
    BY RingAssumption DEF NoImage
  <2>9. CASE /\ blend' = [blend EXCEPT ![a] = layer_files[a]]
             /\ TakeAndReply(a, n, <<RingAck(job[a].seq, Last, "OK")>>)
             /\ Accept(a)
             /\ IF a = 0
                THEN /\ pc' = [pc EXCEPT ![a] = "display"]
                     /\ job' = [job EXCEPT ![a] = NoMsg]
                     /\ image_current' = [image_current EXCEPT ![a] = 0]
                     /\ UNCHANGED image_cmd
                ELSE Leave(a, image_cmd[a], 0)
             /\ UNCHANGED rejected
    <3>1. rx_cw' \in [Arms -> Seq(Results(H))]
      BY <2>2, <2>4, <2>9, Zenon
    <3>2. blend' \in [Arms -> Mixed..jobs]
      BY <2>3, <2>9, Zenon
    <3>3. accepted' \subseteq 1..jobs /\ rejected' \subseteq 1..jobs
      BY <1>3, <2>7, <2>9, Zenon DEF Accept
    <3>4. /\ job' \in [Arms -> H \cup {NoMsg}]
          /\ Control'
          /\ image_cmd' \in [Arms -> Pictured]
          /\ image_current' \in [Arms -> NoImage..(IMAGE_COUNT - 1)]
          /\ \A b \in Arms : pc'[b] # "dark" => image_current'[b] >= 0
          /\ \A b \in Arms \ {a} : pc'[b] = pc[b]
      <4>1. CASE a = 0
        BY <2>5, <2>8, <2>9, <4>1
      <4>2. CASE a # 0
        <5>1. image_cmd[a] \in ImageCmds \cup {NoMsg} /\ image_cmd[a] \in Pictured
          BY <2>3, PicturedIs, Zenon
        <5>2. Leave(a, image_cmd[a], 0)
          BY <2>9, <4>2, Zenon
        <5> QED
          BY <1>0, <1>a, <1>1, <1>8, <5>1, <5>2, LeaveKeeps, Zenon
      <4> QED
        BY <4>1, <4>2, Zenon
    <3> QED
      BY <2>6, <3>1, <3>2, <3>3, <3>4, Zenon
  <2>10. CASE /\ TakeAndReply(a, n, <<RingError(job[a].seq)>>)
              /\ rejected' = IF a = 0 THEN rejected \cup {job[a].id} ELSE rejected
              /\ pc' = [pc EXCEPT ![a] = "dark"]
              /\ job' = [job EXCEPT ![a] = NoMsg]
              /\ image_current' = [image_current EXCEPT ![a] = NoImage]
              /\ UNCHANGED <<blend, accepted, image_cmd>>
    <3>1. rx_cw' \in [Arms -> Seq(Results(H))]
      BY <2>2, <2>4, <2>10, Zenon
    <3>2. blend' \in [Arms -> Mixed..jobs] /\ accepted' \subseteq 1..jobs /\ rejected' \subseteq 1..jobs
      BY <1>3, <2>3, <2>7, <2>10, Zenon
    <3>3. /\ job' \in [Arms -> H \cup {NoMsg}]
          /\ Control'
          /\ image_cmd' \in [Arms -> Pictured]
          /\ image_current' \in [Arms -> NoImage..(IMAGE_COUNT - 1)]
          /\ \A b \in Arms : pc'[b] # "dark" => image_current'[b] >= 0
          /\ \A b \in Arms \ {a} : pc'[b] = pc[b]
      BY <2>5, <2>8, <2>10, Zenon
    <3> QED
      BY <2>6, <3>1, <3>2, <3>3, Zenon
  <2> QED
    BY <1>11, <2>9, <2>10, Zenon DEF Reload
<1> QED
  BY <1>10, <1>11, Zenon DEF Commit

\* A message is known by its type.
LEMMA TypesAre ==
  ASSUME NEW H
  PROVE  /\ \A m \in Results(H) : m.type = "RING_ACK" => m \in Acks(H)
         /\ \A m \in Results(H) : m.type = "RING_ERROR" => m \in RingErrors
         /\ \A m \in Results(H) : m.type = "BOOTLOADER_ACK" => m \in BootloaderAcks
         /\ \A m \in Commands(H) \cup Updates(H) : m.type = "RING_CMD" => m \in Commands(H)
         /\ \A m \in Commands(H) \cup Updates(H) : m.type = "BOOTLOADER_UPDATE_CMD" => m \in Updates(H)
<1>1. \A m \in Acks(H) : m.type = "RING_ACK"
  BY DEF Acks, RingAcks
<1>2. \A m \in RingErrors : m.type = "RING_ERROR"
  BY Zenon DEF RingErrors
<1>3. \A m \in BootloaderAcks : m.type = "BOOTLOADER_ACK"
  BY Zenon DEF BootloaderAcks
<1>4. \A m \in Commands(H) : m.type = "RING_CMD"
  BY DEF Commands
<1>5. \A m \in Updates(H) : m.type = "BOOTLOADER_UPDATE_CMD"
  BY DEF Updates
<1> HIDE DEF Results
<1>6. \A m \in Results(H) : m \in Acks(H) \/ m \in RingErrors \/ m \in BootloaderAcks
  BY Zenon DEF Results
<1> QED
  BY <1>1, <1>2, <1>3, <1>4, <1>5, <1>6, Zenon

\* Each slot takes messages of its type from a batch.
LEMMA SlotsAre ==
  ASSUME NEW H, NEW p \in Seq(Results(H)), NEW slot
  PROVE  /\ slot \in Acks(H) \cup {NoMsg}
              => Received(slot, p, "RING_ACK") \subseteq Acks(H) \cup {NoMsg}
         /\ slot \in RingErrors \cup {NoMsg}
              => Received(slot, p, "RING_ERROR") \subseteq RingErrors \cup {NoMsg}
<1>1. \A i \in 1..Len(p) : p[i] \in Results(H)
  OBVIOUS
<1>2. \A m \in Results(H) : /\ m.type = "RING_ACK" => m \in Acks(H)
                            /\ m.type = "RING_ERROR" => m \in RingErrors
  BY TypesAre, Zenon
<1>3. ASSUME slot \in Acks(H) \cup {NoMsg}, NEW m \in Received(slot, p, "RING_ACK")
      PROVE  m \in Acks(H) \cup {NoMsg}
  <2>1. m = slot \/ \E i \in 1..Len(p) : p[i].type = "RING_ACK" /\ m = p[i]
    BY ReceivedIs
  <2> QED
    BY <1>1, <1>2, <1>3, <2>1, Zenon
<1>4. ASSUME slot \in RingErrors \cup {NoMsg}, NEW m \in Received(slot, p, "RING_ERROR")
      PROVE  m \in RingErrors \cup {NoMsg}
  <2>1. m = slot \/ \E i \in 1..Len(p) : p[i].type = "RING_ERROR" /\ m = p[i]
    BY ReceivedIs
  <2> QED
    BY <1>1, <1>2, <1>4, <2>1, Zenon
<1> QED
  BY <1>3, <1>4, Zenon

\* The commands of a batch.
LEMMA CommandsAre ==
  ASSUME NEW H, NEW q \in Seq(Commands(H) \cup Updates(H))
  PROVE  /\ Received(NoMsg, q, "RING_CMD") \subseteq Commands(H) \cup {NoMsg}
         /\ \A i \in OfType(q, "BOOTLOADER_UPDATE_CMD") : q[i] \in Updates(H)
<1>1. \A i \in 1..Len(q) : q[i] \in Commands(H) \cup Updates(H)
  OBVIOUS
<1>2. ASSUME NEW m \in Received(NoMsg, q, "RING_CMD")
      PROVE  m = NoMsg \/ \E i \in 1..Len(q) : q[i].type = "RING_CMD" /\ m = q[i]
  BY ReceivedIs
<1>3. Received(NoMsg, q, "RING_CMD") \subseteq Commands(H) \cup {NoMsg}
  BY <1>1, <1>2, TypesAre, Zenon
<1>4. ASSUME NEW i \in OfType(q, "BOOTLOADER_UPDATE_CMD")
      PROVE  q[i] \in Updates(H)
  <2>1. i \in 1..Len(q) /\ q[i].type = "BOOTLOADER_UPDATE_CMD"
    BY Zenon DEF OfType
  <2> QED
    BY <1>1, <2>1, TypesAre, Zenon
<1> QED
  BY <1>3, <1>4

\* One arm moves on.
LEMMA LocalStep ==
  ASSUME Control, NEW a \in Arms, NEW p \in Places, pc' = [pc EXCEPT ![a] = p],
         \A b \in Arms \ {a} : job'[b] = job[b] /\ ring_cmd'[b] = ring_cmd[b],
         Local(a, p, job'[a], ring_cmd'[a])
  PROVE  Control'
<1> QED
  BY Zenon DEF Control

\* The places an arm comes to in a handler.
LEMMA HandlerStep ==
  ASSUME Control, NEW a \in Arms, NEW p \in Places \ {"display", "command", "dark"},
         job[a] # NoMsg, pc' = [pc EXCEPT ![a] = p], UNCHANGED <<job, ring_cmd>>,
         Fits(p, job[a].kind),
         p \in {"rz", "commit"} => a # 0,
         p \in Waits \cup {"forward", "sz"} => a # Last,
         p = "commit" => a = Last
  PROVE  Control'
<1>1. Local(a, pc[a], job[a], ring_cmd[a])
  BY DEF Control
<1>2. Local(a, p, job[a], ring_cmd[a])
  BY <1>1 DEF Local
<1> QED
  BY <1>2, LocalStep, Zenon

\* A step that changes only links, slots and places.
LEMMA InvStep ==
  ASSUME NEW H, Inv(H), Content(H)', Control',
         UNCHANGED <<image, stored, phone, answers, executed>>,
         \A b \in Arms : pc[b] = "rejoin" => pc'[b] = "rejoin",
         \A b \in Arms : pc[b] = "dark" => pc'[b] = "dark"
  PROVE  Inv(H)'
<1>1. Issued(H) /\ Pictures /\ Versions /\ Outcomes
  BY Zenon DEF Inv
<1>2. jobs' = jobs /\ ring_next_seq' = ring_next_seq
  BY Zenon DEF phone
<1>3. Issued(H)'
  BY <1>1, <1>2, IssuedStays, Zenon
<1>4. Pictures'
  BY <1>1, <1>2 DEF Pictures, image, stored
<1>5. Versions'
  <2>1. UNCHANGED firmware
    BY Zenon DEF stored
  <2> QED
    BY <1>1, <1>2, <2>1, VersionsStay, Zenon
<1>6. Outcomes'
  BY <1>1, <1>2 DEF Outcomes, answers
<1> QED
  BY <1>3, <1>4, <1>5, <1>6, Zenon DEF Inv

\* What an arm in a handler is doing.
LEMMA HandlerIs ==
  ASSUME NEW H, Inv(H), NEW a \in Arms, pc[a] \notin {"display", "command", "dark"}
  PROVE  /\ job[a] \in H /\ job[a] # NoMsg
         /\ Fits(pc[a], job[a].kind)
         /\ Local(a, pc[a], job[a], ring_cmd[a])
         /\ job[a].kind \in {"image", "file", "firmware"}
<1>1. Control /\ Issued(H) /\ job \in [Arms -> H \cup {NoMsg}]
  BY Zenon DEF Inv, Content
<1>2. Local(a, pc[a], job[a], ring_cmd[a])
  BY <1>1, Zenon DEF Control
<1>3. job[a] # NoMsg /\ Fits(pc[a], job[a].kind)
  BY <1>2, Zenon DEF Local
<1> QED
  BY <1>1, <1>2, <1>3, JobIs

\* The slots are as they were.
LEMMA SlotsAside ==
  ASSUME NEW H, Inv(H), UNCHANGED <<rx_ccw, slots, ring_cmd, phone>>
  PROVE  Aside(H)
BY Zenon DEF Aside, Inv, Content, slots, phone

\* The actions of an arm that give its job up and touch nothing else.
LEMMA FailingStep ==
  ASSUME NEW H, Inv(H), NEW a \in Arms, pc[a] \notin {"display", "command", "dark"},
         Fail(a, 0), UNCHANGED <<rx_ccw, slots, ring_cmd, phone>>
  PROVE  Inv(H)'
<1>1. job[a] # NoMsg
  BY HandlerIs, Zenon
<1>2. Aside(H)
  BY SlotsAside, Zenon
<1>3. 0 \in 0..Len(rx_cw[a])
  <2> QED
    OBVIOUS
<1> QED
  BY <1>1, <1>2, <1>3, FailStep, Zenon

\* A frame of the display loop, with the image command that waits for it.
LEMMA FrameStep ==
  ASSUME NEW H, Inv(H), NEW a \in Arms, Frame(a)
  PROVE  Inv(H)'
<1>0. Issued(H) /\ Content(H) /\ Control /\ Pictures /\ Versions /\ Outcomes
  BY Zenon DEF Inv
<1>1. /\ pc[a] = "display"
      /\ EndOfImage(a, image_cmd[a], image_current[a])
      /\ UNCHANGED <<links, slots, ring_cmd, pc, job, stored, phone, answers, executed>>
  BY Zenon DEF Frame
<1>2. /\ rx_cw' = rx_cw /\ rx_ccw' = rx_ccw /\ ring_ack' = ring_ack /\ ring_error' = ring_error
      /\ jobs' = jobs /\ ring_next_seq' = ring_next_seq /\ accepted' = accepted /\ rejected' = rejected
      /\ layer_files' = layer_files /\ blend' = blend /\ UNCHANGED firmware
  BY <1>1 DEF links, slots, phone, answers, stored
<1>3. /\ image_cmd \in [Arms -> Pictured]
      /\ image_current \in [Arms -> NoImage..(IMAGE_COUNT - 1)]
      /\ \A b \in Arms : pc[b] # "dark" => image_current[b] >= 0
      /\ layer_files \in [Arms -> Mixed..jobs] /\ blend \in [Arms -> Mixed..jobs]
  BY <1>0, Zenon DEF Pictures, Pictured
<1>4. image_current[a] \in 0..(IMAGE_COUNT - 1) /\ image_cmd[a] \in ImageCmds \cup {NoMsg}
  <2>1. image_current[a] \in NoImage..(IMAGE_COUNT - 1) /\ image_current[a] >= 0
    BY <1>1, <1>3, Zenon
  <2>2. image_current[a] \in 0..(IMAGE_COUNT - 1)
    BY <2>1
  <2> QED
    BY <1>3, <2>2, PicturedIs, Zenon
<1>5. /\ image_cmd' \in [Arms -> Pictured]
      /\ image_current' \in [Arms -> NoImage..(IMAGE_COUNT - 1)]
      /\ image_current'[a] >= 0
      /\ \A b \in Arms \ {a} : image_current'[b] = image_current[b]
  BY <1>1, <1>3, <1>4, EndOfImageKeeps, Zenon
<1>6. Issued(H)'
  BY <1>0, <1>2, IssuedStays, Zenon
<1>7. Content(H)'
  BY <1>0, <1>1, <1>2 DEF Content, Results, Acks, Commands
<1>8. Control'
  BY <1>0, <1>1 DEF Control
<1>9. Pictures'
  BY <1>1, <1>2, <1>3, <1>5, Zenon DEF Pictures, Pictured
<1>10. Versions'
  BY <1>0, <1>1, <1>2, VersionsStay, Zenon
<1>11. Outcomes'
  BY <1>0, <1>1, <1>2, Zenon DEF Outcomes
<1> QED
  BY <1>6, <1>7, <1>8, <1>9, <1>10, <1>11, Zenon DEF Inv

\* A poll, with what an arm takes from either side told apart.
LEMMA PollIs ==
  ASSUME NEW a, Poll(a)
  PROVE  \E n \in 0..Len(rx_cw[a]), k \in 0..Len(rx_ccw[a]) :
           LET p == Batch(rx_cw[a], n)
               q == Batch(rx_ccw[a], k)
           IN
           /\ \E err \in Received(ring_error[a], p, "RING_ERROR"),
                 ack \in Received(ring_ack[a], p, "RING_ACK"), m \in 0..k :
                TakeAndReply(a, n, Strays(err, ack) \o [i \in 1..m |-> BootloaderAck("ACCEPTED")])
           /\ rx_ccw' = [rx_ccw EXCEPT ![a] = Rest(@, k)]
           /\ ring_error' = [ring_error EXCEPT ![a] = NoMsg]
           /\ ring_ack' = [ring_ack EXCEPT ![a] = NoMsg]
           /\ \E cmd \in Received(NoMsg, q, "RING_CMD") :
                /\ ring_cmd' = [ring_cmd EXCEPT ![a] = cmd]
                /\ \/ \E i \in OfType(q, "BOOTLOADER_UPDATE_CMD") :
                        /\ pc' = [pc EXCEPT ![a] = "rz"]
                        /\ job' = [job EXCEPT ![a] = q[i].job]
                        /\ UNCHANGED image
                   \/ /\ cmd # NoMsg
                      /\ pc' = [pc EXCEPT ![a] = "command"]
                      /\ UNCHANGED <<job, image>>
                   \/ /\ cmd = NoMsg
                      /\ EndOfImage(a, image_cmd[a], image_current[a])
                      /\ UNCHANGED <<pc, job>>
<1>1. PICK n \in 0..Len(rx_cw[a]), k \in 0..Len(rx_ccw[a]) :
       LET p == Batch(rx_cw[a], n)
           q == Batch(rx_ccw[a], k)
           updates == OfType(q, "BOOTLOADER_UPDATE_CMD")
       IN
       \E err \in Received(ring_error[a], p, "RING_ERROR"),
          ack \in Received(ring_ack[a], p, "RING_ACK"),
          cmd \in Received(NoMsg, q, "RING_CMD") :
       /\ n + k > 0 \/ {image_cmd[a], ring_error[a], ring_ack[a]} # {NoMsg}
       /\ \E m \in 0..k :
            /\ m = Cardinality(updates)
            /\ TakeAndReply(a, n, Strays(err, ack) \o [i \in 1..m |-> BootloaderAck("ACCEPTED")])
       /\ rx_ccw' = [rx_ccw EXCEPT ![a] = Rest(@, k)]
       /\ ring_error' = [ring_error EXCEPT ![a] = NoMsg]
       /\ ring_ack' = [ring_ack EXCEPT ![a] = NoMsg]
       /\ ring_cmd' = [ring_cmd EXCEPT ![a] = cmd]
       /\ \/ /\ pc' = [pc EXCEPT ![a] = "rz"]
             /\ \E i \in Latest(updates) : job' = [job EXCEPT ![a] = q[i].job]
             /\ UNCHANGED image
          \/ /\ updates = {}
             /\ cmd # NoMsg
             /\ pc' = [pc EXCEPT ![a] = "command"]
             /\ UNCHANGED <<job, image>>
          \/ /\ updates = {}
             /\ cmd = NoMsg
             /\ EndOfImage(a, image_cmd[a], image_current[a])
             /\ UNCHANGED <<pc, job>>
  BY Zenon DEF Poll
<1> DEFINE p == Batch(rx_cw[a], n)
           q == Batch(rx_ccw[a], k)
           updates == OfType(q, "BOOTLOADER_UPDATE_CMD")
<1>2. PICK err \in Received(ring_error[a], p, "RING_ERROR"),
          ack \in Received(ring_ack[a], p, "RING_ACK"),
          cmd \in Received(NoMsg, q, "RING_CMD") :
       /\ n + k > 0 \/ {image_cmd[a], ring_error[a], ring_ack[a]} # {NoMsg}
       /\ \E m \in 0..k :
            /\ m = Cardinality(updates)
            /\ TakeAndReply(a, n, Strays(err, ack) \o [i \in 1..m |-> BootloaderAck("ACCEPTED")])
       /\ rx_ccw' = [rx_ccw EXCEPT ![a] = Rest(@, k)]
       /\ ring_error' = [ring_error EXCEPT ![a] = NoMsg]
       /\ ring_ack' = [ring_ack EXCEPT ![a] = NoMsg]
       /\ ring_cmd' = [ring_cmd EXCEPT ![a] = cmd]
       /\ \/ /\ pc' = [pc EXCEPT ![a] = "rz"]
             /\ \E i \in Latest(updates) : job' = [job EXCEPT ![a] = q[i].job]
             /\ UNCHANGED image
          \/ /\ updates = {}
             /\ cmd # NoMsg
             /\ pc' = [pc EXCEPT ![a] = "command"]
             /\ UNCHANGED <<job, image>>
          \/ /\ updates = {}
             /\ cmd = NoMsg
             /\ EndOfImage(a, image_cmd[a], image_current[a])
             /\ UNCHANGED <<pc, job>>
  BY <1>1, Zenon
<1>3. \E m \in 0..k : TakeAndReply(a, n, Strays(err, ack) \o [i \in 1..m |-> BootloaderAck("ACCEPTED")])
  BY <1>2, Zenon
<1>4. Latest(updates) \subseteq updates
  BY Zenon DEF Latest
<1> QED
  BY <1>2, <1>3, <1>4, Zenon

\* An arm that polls its two ports: what it passes on, and the command it takes.
LEMMA PollStep ==
  ASSUME NEW H, Inv(H), NEW a \in Arms, Poll(a)
  PROVE  Inv(H)'
<1>0. Issued(H) /\ Content(H) /\ Control /\ Pictures /\ Versions /\ Outcomes
  BY DEF Inv
<1>1. /\ a # 0 /\ pc[a] = "display"
      /\ UNCHANGED <<stored, phone, answers, executed>>
  BY Zenon DEF Poll
<1>2. /\ rx_cw \in [Arms -> Seq(Results(H))]
      /\ rx_ccw \in [Arms -> Seq(Commands(H) \cup Updates(H))]
      /\ ring_ack \in [Arms -> Acks(H) \cup {NoMsg}]
      /\ ring_error \in [Arms -> RingErrors \cup {NoMsg}]
      /\ ring_cmd \in [Arms -> Commands(H) \cup {NoMsg}]
      /\ job \in [Arms -> H \cup {NoMsg}]
  BY <1>0, Zenon DEF Content
<1>3. Local(a, "display", job[a], ring_cmd[a]) /\ job[a] = NoMsg
  BY <1>0, <1>1, Zenon DEF Control, Local
<1>4. rx_cw[a] \in Seq(Results(H)) /\ rx_ccw[a] \in Seq(Commands(H) \cup Updates(H))
  BY <1>2, Zenon
<1>5. PICK n \in 0..Len(rx_cw[a]), k \in 0..Len(rx_ccw[a]) :
       LET p == Batch(rx_cw[a], n)
           q == Batch(rx_ccw[a], k)
       IN
       /\ \E err \in Received(ring_error[a], p, "RING_ERROR"),
             ack \in Received(ring_ack[a], p, "RING_ACK"), m \in 0..k :
            TakeAndReply(a, n, Strays(err, ack) \o [i \in 1..m |-> BootloaderAck("ACCEPTED")])
       /\ rx_ccw' = [rx_ccw EXCEPT ![a] = Rest(@, k)]
       /\ ring_error' = [ring_error EXCEPT ![a] = NoMsg]
       /\ ring_ack' = [ring_ack EXCEPT ![a] = NoMsg]
       /\ \E cmd \in Received(NoMsg, q, "RING_CMD") :
            /\ ring_cmd' = [ring_cmd EXCEPT ![a] = cmd]
            /\ \/ \E i \in OfType(q, "BOOTLOADER_UPDATE_CMD") :
                    /\ pc' = [pc EXCEPT ![a] = "rz"]
                    /\ job' = [job EXCEPT ![a] = q[i].job]
                    /\ UNCHANGED image
               \/ /\ cmd # NoMsg
                  /\ pc' = [pc EXCEPT ![a] = "command"]
                  /\ UNCHANGED <<job, image>>
               \/ /\ cmd = NoMsg
                  /\ EndOfImage(a, image_cmd[a], image_current[a])
                  /\ UNCHANGED <<pc, job>>
  BY PollIs, Zenon
<1> DEFINE p == Batch(rx_cw[a], n)
           q == Batch(rx_ccw[a], k)
<1>6. p \in Seq(Results(H)) /\ q \in Seq(Commands(H) \cup Updates(H))
  BY <1>4, BatchIs
<1>7. /\ Received(ring_error[a], p, "RING_ERROR") \subseteq RingErrors \cup {NoMsg}
      /\ Received(ring_ack[a], p, "RING_ACK") \subseteq Acks(H) \cup {NoMsg}
  <2>1. ring_error[a] \in RingErrors \cup {NoMsg} /\ ring_ack[a] \in Acks(H) \cup {NoMsg}
    BY <1>2, Zenon
  <2> HIDE DEF p
  <2> QED
    BY <1>6, <2>1, SlotsAre
<1>8. /\ Received(NoMsg, q, "RING_CMD") \subseteq Commands(H) \cup {NoMsg}
      /\ \A i \in OfType(q, "BOOTLOADER_UPDATE_CMD") : q[i] \in Updates(H)
  BY <1>6, CommandsAre, Zenon
<1>9. PICK err \in RingErrors \cup {NoMsg}, ack \in Acks(H) \cup {NoMsg}, cmd \in Commands(H) \cup {NoMsg} :
      /\ \E m \in 0..k : TakeAndReply(a, n, Strays(err, ack) \o [i \in 1..m |-> BootloaderAck("ACCEPTED")])
      /\ rx_ccw' = [rx_ccw EXCEPT ![a] = Rest(@, k)]
      /\ ring_error' = [ring_error EXCEPT ![a] = NoMsg]
      /\ ring_ack' = [ring_ack EXCEPT ![a] = NoMsg]
      /\ ring_cmd' = [ring_cmd EXCEPT ![a] = cmd]
      /\ \/ /\ pc' = [pc EXCEPT ![a] = "rz"]
            /\ \E u \in Updates(H) : job' = [job EXCEPT ![a] = u.job]
            /\ UNCHANGED image
         \/ /\ cmd # NoMsg
            /\ pc' = [pc EXCEPT ![a] = "command"]
            /\ UNCHANGED <<job, image>>
         \/ /\ cmd = NoMsg
            /\ EndOfImage(a, image_cmd[a], image_current[a])
            /\ UNCHANGED <<pc, job>>
  <2>1. PICK err \in Received(ring_error[a], p, "RING_ERROR"), ack \in Received(ring_ack[a], p, "RING_ACK"), m \in 0..k :
          TakeAndReply(a, n, Strays(err, ack) \o [i \in 1..m |-> BootloaderAck("ACCEPTED")])
    BY <1>5, Zenon
  <2>2. PICK cmd \in Received(NoMsg, q, "RING_CMD") :
          /\ ring_cmd' = [ring_cmd EXCEPT ![a] = cmd]
          /\ \/ \E i \in OfType(q, "BOOTLOADER_UPDATE_CMD") :
                  /\ pc' = [pc EXCEPT ![a] = "rz"]
                  /\ job' = [job EXCEPT ![a] = q[i].job]
                  /\ UNCHANGED image
             \/ /\ cmd # NoMsg
                /\ pc' = [pc EXCEPT ![a] = "command"]
                /\ UNCHANGED <<job, image>>
             \/ /\ cmd = NoMsg
                /\ EndOfImage(a, image_cmd[a], image_current[a])
                /\ UNCHANGED <<pc, job>>
    BY <1>5, Zenon
  <2>3. /\ err \in RingErrors \cup {NoMsg} /\ ack \in Acks(H) \cup {NoMsg}
        /\ cmd \in Commands(H) \cup {NoMsg}
    BY <1>7, <1>8, Zenon
  <2>4. /\ rx_ccw' = [rx_ccw EXCEPT ![a] = Rest(@, k)]
        /\ ring_error' = [ring_error EXCEPT ![a] = NoMsg]
        /\ ring_ack' = [ring_ack EXCEPT ![a] = NoMsg]
    BY <1>5, Zenon
  <2> QED
    BY <1>8, <2>1, <2>2, <2>3, <2>4, Zenon
<1> HIDE DEF p, q
<1>10. rx_cw' \in [Arms -> Seq(Results(H))]
  <2>1. PICK m \in 0..k :
          TakeAndReply(a, n, Strays(err, ack) \o [i \in 1..m |-> BootloaderAck("ACCEPTED")])
    BY <1>9, Zenon
  <2>2. Strays(err, ack) \in Seq(Results(H))
    <3>1. \A x \in RingErrors \cup Acks(H) : x \in Results(H)
      BY DEF Results
    <3>2. \A x \in Results(H) : <<x>> \in Seq(Results(H))
      OBVIOUS
    <3>3. << >> \in Seq(Results(H))
      OBVIOUS
    <3>4. (IF err # NoMsg THEN <<err>> ELSE << >>) \in Seq(Results(H))
      BY <3>1, <3>2, <3>3, Zenon
    <3>5. (IF ack # NoMsg /\ ack.result # "READY" THEN <<ack>> ELSE << >>) \in Seq(Results(H))
      BY <3>1, <3>2, <3>3, Zenon
    <3> QED
      BY <3>4, <3>5, ConcatIs, Zenon DEF Strays
  <2>3. BootloaderAck("ACCEPTED") \in Results(H)
    BY Zenon DEF BootloaderAck, BootloaderAcks, Results
  <2>5. [i \in 1..m |-> BootloaderAck("ACCEPTED")] \in Seq(Results(H))
    BY <2>3
  <2>6. Strays(err, ack) \o [i \in 1..m |-> BootloaderAck("ACCEPTED")] \in Seq(Results(H))
    BY <2>2, <2>5, ConcatIs, Zenon
  <2> QED
    BY <1>2, <2>1, <2>6, Replied, Zenon
<1>11. rx_ccw' \in [Arms -> Seq(Commands(H) \cup Updates(H))]
  <2>1. Rest(rx_ccw[a], k) \in Seq(Commands(H) \cup Updates(H))
    BY <1>4, RestIs, Zenon
  <2> QED
    BY <1>2, <1>9, <2>1
<1>12. /\ ring_error' \in [Arms -> RingErrors \cup {NoMsg}]
       /\ ring_ack' \in [Arms -> Acks(H) \cup {NoMsg}]
       /\ ring_cmd' \in [Arms -> Commands(H) \cup {NoMsg}] /\ ring_cmd'[a] = cmd
       /\ \A b \in Arms \ {a} : ring_cmd'[b] = ring_cmd[b]
  BY <1>2, <1>9, Zenon
<1>13. executed[Last] \subseteq executed'[Last]
  BY <1>1
<1>14. CASE /\ pc' = [pc EXCEPT ![a] = "rz"]
            /\ \E u \in Updates(H) : job' = [job EXCEPT ![a] = u.job]
            /\ UNCHANGED image
  <2>1. PICK j \in H : j.kind = "firmware" /\ job' = [job EXCEPT ![a] = j]
    <3>1. \A u \in Updates(H) : u.job \in H /\ u.job.kind = "firmware"
      BY DEF Updates
    <3> QED
      BY <1>14, <3>1, Zenon
  <2>2. job' \in [Arms -> H \cup {NoMsg}] /\ job'[a] = j /\ \A b \in Arms \ {a} : job'[b] = job[b]
    BY <1>2, <2>1, Zenon
  <2>3. j # NoMsg
    BY <1>0, <2>1, JobIs, Zenon
  <2>4. Local(a, "rz", j, cmd)
    BY <1>1, <2>1, <2>3 DEF Local, Fits, Waits
  <2>5. Control'
    <3>1. "rz" \in Places
      BY Zenon DEF Places
    <3> QED
      BY <1>0, <1>12, <1>14, <2>2, <2>4, <3>1, LocalStep, Zenon
  <2>6. Content(H)'
    BY <1>10, <1>11, <1>12, <1>13, <2>2, ContentStays, Zenon
  <2>7. \A b \in Arms : pc[b] \in {"rejoin", "dark"} => pc'[b] = pc[b]
    BY <1>0, <1>1, <1>14, Zenon DEF Control
  <2> QED
    BY <1>1, <1>14, <2>5, <2>6, <2>7, InvStep, Zenon
<1>15. CASE /\ cmd # NoMsg
            /\ pc' = [pc EXCEPT ![a] = "command"]
            /\ UNCHANGED <<job, image>>
  <2>1. Local(a, "command", NoMsg, cmd)
    BY <1>1, <1>15, Zenon DEF Local, Waits
  <2>2. Control'
    <3>1. "command" \in Places
      BY Zenon DEF Places
    <3> QED
      BY <1>0, <1>3, <1>12, <1>15, <2>1, <3>1, LocalStep, Zenon
  <2>3. Content(H)'
    BY <1>2, <1>10, <1>11, <1>12, <1>13, <1>15, ContentStays, Zenon
  <2>4. \A b \in Arms : pc[b] \in {"rejoin", "dark"} => pc'[b] = pc[b]
    BY <1>0, <1>1, <1>15, Zenon DEF Control
  <2> QED
    BY <1>1, <1>15, <2>2, <2>3, <2>4, InvStep, Zenon
<1>16. CASE /\ cmd = NoMsg
            /\ EndOfImage(a, image_cmd[a], image_current[a])
            /\ UNCHANGED <<pc, job>>
  <2>1. Local(a, "display", NoMsg, NoMsg)
    BY <1>3, Zenon DEF Local
  <2>2. Control'
    <3>1. pc \in [Arms -> Places] /\ \A b \in Arms : Local(b, pc[b], job[b], ring_cmd[b])
      BY <1>0, Zenon DEF Control
    <3>2. \A b \in Arms : Local(b, pc'[b], job'[b], ring_cmd'[b])
      BY <1>1, <1>3, <1>12, <1>16, <2>1, <3>1
    <3> QED
      BY <1>16, <3>1, <3>2, Zenon DEF Control
  <2>3. Content(H)'
    BY <1>2, <1>10, <1>11, <1>12, <1>13, <1>16, ContentStays, Zenon
  <2>4. /\ image_cmd \in [Arms -> Pictured]
        /\ image_current \in [Arms -> NoImage..(IMAGE_COUNT - 1)]
        /\ \A b \in Arms : pc[b] # "dark" => image_current[b] >= 0
        /\ layer_files \in [Arms -> Mixed..jobs] /\ blend \in [Arms -> Mixed..jobs]
    BY <1>0, Zenon DEF Pictures, Pictured
  <2>5. image_current[a] \in 0..(IMAGE_COUNT - 1) /\ image_cmd[a] \in ImageCmds \cup {NoMsg}
    <3>1. image_current[a] \in NoImage..(IMAGE_COUNT - 1) /\ image_current[a] >= 0
      BY <1>1, <2>4, Zenon
    <3>2. image_current[a] \in 0..(IMAGE_COUNT - 1)
      BY <3>1
    <3> QED
      BY <2>4, <3>2, PicturedIs
  <2>6. /\ image_cmd' \in [Arms -> Pictured]
        /\ image_current' \in [Arms -> NoImage..(IMAGE_COUNT - 1)]
        /\ image_current'[a] >= 0
        /\ \A b \in Arms \ {a} : image_current'[b] = image_current[b]
    BY <1>16, <2>4, <2>5, EndOfImageKeeps, Zenon
  <2>7. /\ jobs' = jobs /\ ring_next_seq' = ring_next_seq /\ accepted' = accepted /\ rejected' = rejected
        /\ layer_files' = layer_files /\ blend' = blend /\ UNCHANGED firmware
    BY <1>1, Zenon DEF phone, answers, stored
  <2>8. Issued(H)'
    BY <1>0, <2>7, IssuedStays, Zenon
  <2>9. Pictures'
    BY <1>16, <2>4, <2>6, <2>7, Zenon DEF Pictures, Pictured
  <2>10. Versions'
    BY <1>0, <1>16, <2>7, VersionsStay, Zenon
  <2>11. Outcomes'
    BY <1>0, <1>1, <2>7, Zenon DEF Outcomes
  <2> QED
    BY <2>2, <2>3, <2>8, <2>9, <2>10, <2>11 DEF Inv
<1> QED
  BY <1>9, <1>14, <1>15, <1>16

\* An arm that takes the command from its slot.
LEMMA CommandStep ==
  ASSUME NEW H, Inv(H), NEW a \in Arms, Command(a)
  PROVE  Inv(H)'
<1>0. Issued(H) /\ Content(H) /\ Control
  BY Zenon DEF Inv
<1>1. /\ rx_cw \in [Arms -> Seq(Results(H))]
      /\ rx_ccw \in [Arms -> Seq(Commands(H) \cup Updates(H))]
      /\ ring_ack \in [Arms -> Acks(H) \cup {NoMsg}]
      /\ ring_error \in [Arms -> RingErrors \cup {NoMsg}]
      /\ ring_cmd \in [Arms -> Commands(H) \cup {NoMsg}]
      /\ job \in [Arms -> H \cup {NoMsg}]
  BY <1>0, Zenon DEF Content
<1> DEFINE j == ring_cmd[a].job
<1>2. /\ pc[a] = "command"
      /\ job' = [job EXCEPT ![a] = j]
      /\ \/ /\ j.kind = "file"
            /\ TakeAndReply(a, 0, <<RingAck(j.seq, a, "READY")>>)
            /\ pc' = [pc EXCEPT ![a] = "rz"]
         \/ /\ j.kind = "image"
            /\ pc' = [pc EXCEPT ![a] = IF a = Last THEN "commit" ELSE "forward"]
            /\ UNCHANGED rx_cw
      /\ ring_cmd' = [ring_cmd EXCEPT ![a] = NoMsg]
      /\ UNCHANGED <<rx_ccw, slots, image, stored, phone, answers, executed>>
  BY Zenon DEF Command
<1>3. ring_cmd[a] # NoMsg /\ a # 0
  BY <1>0, <1>2, Zenon DEF Control, Local
<1>4. j \in H /\ j.kind # "firmware"
  <2>1. ring_cmd[a] \in Commands(H)
    BY <1>1, <1>3, Zenon
  <2> QED
    BY <2>1, Zenon DEF Commands
<1> HIDE DEF j
<1>5. j # NoMsg
  BY <1>0, <1>4, JobIs, Zenon
<1>6. /\ job' \in [Arms -> H \cup {NoMsg}] /\ job'[a] = j
      /\ \A b \in Arms \ {a} : job'[b] = job[b]
  BY <1>1, <1>2, <1>4, Zenon
<1>7. /\ ring_cmd' \in [Arms -> Commands(H) \cup {NoMsg}] /\ ring_cmd'[a] = NoMsg
      /\ \A b \in Arms \ {a} : ring_cmd'[b] = ring_cmd[b]
  BY <1>1, <1>2, Zenon
<1>8. executed[Last] \subseteq executed'[Last] /\ UNCHANGED <<ring_ack, ring_error>>
  BY <1>2, Zenon DEF slots
<1>9. ASSUME NEW p \in Places, pc' = [pc EXCEPT ![a] = p], Local(a, p, j, NoMsg),
             rx_cw' \in [Arms -> Seq(Results(H))]
      PROVE  Inv(H)'
  <2>1. Control'
    BY <1>0, <1>6, <1>7, <1>9, LocalStep, Zenon
  <2>2. Content(H)'
    BY <1>1, <1>2, <1>6, <1>8, <1>9, ContentStays, Zenon
  <2>3. \A b \in Arms : pc[b] \in {"rejoin", "dark"} => pc'[b] = pc[b]
    BY <1>0, <1>2, <1>9, Zenon DEF Control
  <2> QED
    BY <1>2, <2>1, <2>2, <2>3, InvStep, Zenon
<1>10. CASE j.kind = "file"
  <2>1. TakeAndReply(a, 0, <<RingAck(j.seq, a, "READY")>>) /\ pc' = [pc EXCEPT ![a] = "rz"]
    BY <1>2, <1>10, Zenon
  <2>2. a \in 1..Last
    BY <1>3, ArmsAre
  <2>3. RingAck(j.seq, a, "READY") \in Results(H)
    BY <1>0, <1>4, <2>2, MessagesAre, Zenon DEF Results
  <2>4. <<RingAck(j.seq, a, "READY")>> \in Seq(Results(H))
    BY <2>3
  <2>5. 0 \in 0..Len(rx_cw[a])
    OBVIOUS
  <2>6. rx_cw' \in [Arms -> Seq(Results(H))]
    BY <1>1, <2>1, <2>4, <2>5, Replied, Zenon
  <2>7. "rz" \in Places /\ Local(a, "rz", j, NoMsg)
    BY <1>3, <1>5, <1>10, Zenon DEF Places, Local, Fits, Waits
  <2> QED
    BY <1>9, <2>1, <2>6, <2>7, Zenon
<1>11. CASE j.kind = "image"
  <2> DEFINE p == IF a = Last THEN "commit" ELSE "forward"
  <2>1. pc' = [pc EXCEPT ![a] = p] /\ rx_cw' = rx_cw
    BY <1>2, <1>11, Zenon
  <2>2. p \in Places /\ Local(a, p, j, NoMsg)
    BY <1>3, <1>5, <1>11, Zenon DEF Places, Local, Fits, Waits
  <2> QED
    BY <1>1, <1>9, <2>1, <2>2, Zenon
<1> QED
  BY <1>2, <1>10, <1>11, Zenon

\* An arm that sends its job on to the arm behind it.
LEMMA ForwardStep ==
  ASSUME NEW H, Inv(H), NEW a \in Arms, Forward(a)
  PROVE  Inv(H)'
<1>0. Issued(H) /\ Content(H) /\ Control
  BY Zenon DEF Inv
<1>1. /\ rx_cw \in [Arms -> Seq(Results(H))]
      /\ rx_ccw \in [Arms -> Seq(Commands(H) \cup Updates(H))]
      /\ ring_ack \in [Arms -> Acks(H) \cup {NoMsg}]
      /\ ring_error \in [Arms -> RingErrors \cup {NoMsg}]
      /\ ring_cmd \in [Arms -> Commands(H) \cup {NoMsg}]
      /\ job \in [Arms -> H \cup {NoMsg}]
  BY <1>0 DEF Content
<1>2. /\ pc[a] = "forward"
      /\ \/ /\ job[a].kind = "firmware"
            /\ SendDown(a, BootloaderUpdateCmd(job[a]))
            /\ pc' = [pc EXCEPT ![a] = "wait_accepted"]
            /\ UNCHANGED slots
         \/ /\ job[a].kind # "firmware"
            /\ SendDown(a, RingCmd(job[a]))
            /\ pc' = [pc EXCEPT ![a] = IF job[a].kind = "file" THEN "wait_ready" ELSE "wait_ok"]
            /\ ring_ack' = [ring_ack EXCEPT ![a] = NoMsg]
            /\ ring_error' = [ring_error EXCEPT ![a] = NoMsg]
      /\ UNCHANGED <<rx_cw, ring_cmd, job, image, stored, phone, answers, executed>>
  BY Zenon DEF Forward
<1>3. /\ job[a] \in H /\ job[a] # NoMsg
      /\ Local(a, "forward", job[a], ring_cmd[a])
      /\ job[a].kind \in {"image", "file", "firmware"}
  BY <1>2, HandlerIs, Zenon
<1>4. a # Last
  BY <1>3, Zenon DEF Local
<1>5. a + 1 \in Arms
  BY <1>4, ArmsAre
<1>7. ASSUME NEW m \in Commands(H) \cup Updates(H), SendDown(a, m)
      PROVE  rx_ccw' \in [Arms -> Seq(Commands(H) \cup Updates(H))]
  <2>1. Append(rx_ccw[a + 1], m) \in Seq(Commands(H) \cup Updates(H))
    BY <1>1, <1>5, <1>7
  <2> QED
    BY <1>1, <1>7, <2>1, Zenon DEF SendDown
<1>8. ASSUME NEW p \in Waits, pc' = [pc EXCEPT ![a] = p], Fits(p, job[a].kind),
             rx_ccw' \in [Arms -> Seq(Commands(H) \cup Updates(H))],
             ring_ack' \in [Arms -> Acks(H) \cup {NoMsg}],
             ring_error' \in [Arms -> RingErrors \cup {NoMsg}]
      PROVE  Inv(H)'
  <2>1. p \in Places \ {"display", "command", "dark"} /\ p \notin {"rz", "commit"}
    BY Zenon DEF Waits, Places
  <2>2. Control'
    BY <1>0, <1>2, <1>3, <1>4, <1>8, <2>1, HandlerStep, Zenon
  <2>3. Content(H)'
    BY <1>1, <1>2, <1>8, ContentStays, Zenon
  <2>4. \A b \in Arms : pc[b] \in {"rejoin", "dark"} => pc'[b] = pc[b]
    BY <1>0, <1>2, <1>8, Zenon DEF Control
  <2> QED
    BY <1>2, <2>2, <2>3, <2>4, InvStep, Zenon
<1>9. CASE job[a].kind = "firmware"
  <2>1. SendDown(a, BootloaderUpdateCmd(job[a])) /\ pc' = [pc EXCEPT ![a] = "wait_accepted"]
        /\ ring_ack' = ring_ack /\ ring_error' = ring_error
    BY <1>2, <1>9 DEF slots
  <2>2. BootloaderUpdateCmd(job[a]) \in Updates(H)
    BY <1>0, <1>3, <1>9, MessagesAre
  <2>3. "wait_accepted" \in Waits /\ Fits("wait_accepted", job[a].kind)
    BY <1>9, Zenon DEF Waits, Fits
  <2> QED
    BY <1>1, <1>7, <1>8, <2>1, <2>2, <2>3, Zenon
<1>10. CASE job[a].kind # "firmware"
  <2> DEFINE p == IF job[a].kind = "file" THEN "wait_ready" ELSE "wait_ok"
  <2>1. /\ SendDown(a, RingCmd(job[a])) /\ pc' = [pc EXCEPT ![a] = p]
        /\ ring_ack' = [ring_ack EXCEPT ![a] = NoMsg]
        /\ ring_error' = [ring_error EXCEPT ![a] = NoMsg]
    BY <1>2, <1>10, Zenon
  <2>2. RingCmd(job[a]) \in Commands(H)
    BY <1>0, <1>3, <1>10, MessagesAre
  <2>3. p \in Waits /\ Fits(p, job[a].kind)
    BY <1>3, <1>10, Zenon DEF Waits, Fits
  <2> HIDE DEF p
  <2>4. /\ ring_ack' \in [Arms -> Acks(H) \cup {NoMsg}]
        /\ ring_error' \in [Arms -> RingErrors \cup {NoMsg}]
    BY <1>1, <2>1, Zenon
  <2>5. rx_ccw' \in [Arms -> Seq(Commands(H) \cup Updates(H))]
    BY <1>7, <2>1, <2>2, Zenon
  <2> QED
    BY <1>8, <2>1, <2>3, <2>4, <2>5, Zenon
<1> QED
  BY <1>9, <1>10

\* The last arm commits and acknowledges.
LEMMA CommitLastStep ==
  ASSUME NEW H, Inv(H), NEW a \in Arms, CommitLast(a)
  PROVE  Inv(H)'
<1>1. /\ pc[a] = "commit" /\ Commit(a, 0)
      /\ UNCHANGED <<rx_ccw, slots, ring_cmd, phone>>
  BY DEF CommitLast
<1>2. job[a] # NoMsg /\ Local(a, "commit", job[a], ring_cmd[a])
  BY <1>1, HandlerIs, Zenon
<1>3. a = Last
  BY <1>2 DEF Local
<1>4. Aside(H)
  BY <1>1, SlotsAside, Zenon
<1> QED
  BY <1>1, <1>2, <1>3, <1>4, CommitStep

\* An acknowledgement of an image job is one of the last arm.
LEMMA AckMeans ==
  ASSUME NEW H, Issued(H), NEW j \in H, NEW m \in Acks(H),
         j.kind = "image", m.result = "OK", m.seq = j.seq
  PROVE  j.id \in executed[Last]
<1>1. PICK k \in H : /\ k.kind # "firmware" /\ k.seq = m.seq
                     /\ m.result = "OK" /\ k.kind = "image" => k.id \in executed[Last]
  BY Zenon DEF Acks
<1>2. k = j
  BY <1>1, Zenon DEF Issued
<1> QED
  BY <1>1, <1>2, Zenon

\* An arm that waits for READY or OK: the answer it accepts was about a job that
\* was issued, and an OK says that the last arm has executed it.
LEMMA WaitLinkAckStep ==
  ASSUME NEW H, Inv(H), NEW a \in Arms, WaitLinkAck(a)
  PROVE  Inv(H)'
<1>0. Issued(H) /\ Content(H) /\ Control
  BY Zenon DEF Inv
<1>1. /\ rx_cw \in [Arms -> Seq(Results(H))]
      /\ rx_ccw \in [Arms -> Seq(Commands(H) \cup Updates(H))]
      /\ ring_ack \in [Arms -> Acks(H) \cup {NoMsg}]
      /\ ring_error \in [Arms -> RingErrors \cup {NoMsg}]
      /\ ring_cmd \in [Arms -> Commands(H) \cup {NoMsg}]
      /\ job \in [Arms -> H \cup {NoMsg}]
  BY <1>0, Zenon DEF Content
<1>2. pc[a] \in {"wait_ready", "wait_ok"} /\ UNCHANGED <<rx_ccw, ring_cmd, phone>>
  BY Zenon DEF WaitLinkAck
<1>3. PICK n \in 0..Len(rx_cw[a]) :
       \E err \in Received(ring_error[a], Batch(rx_cw[a], n), "RING_ERROR"),
          ack \in Received(ring_ack[a], Batch(rx_cw[a], n), "RING_ACK") :
       LET refused == Answers(err, job[a].seq)
           acked == ~refused /\ Answers(ack, job[a].seq)
           good == /\ acked
                   /\ <<ack.result, ack.node>> = IF pc[a] = "wait_ready" THEN <<"READY", a + 1>>
                                                                         ELSE <<"OK", Last>>
       IN
       /\ n > 0 \/ refused \/ acked
       /\ ring_error' = [ring_error EXCEPT ![a] = IF refused THEN NoMsg ELSE err]
       /\ ring_ack' = [ring_ack EXCEPT ![a] = IF acked THEN NoMsg ELSE ack]
       /\ \/ /\ ~refused /\ ~good
             /\ TakeAndReply(a, n, << >>)
             /\ NoFault
             /\ UNCHANGED <<pc, job, image, stored, answers, executed>>
          \/ /\ refused
             /\ Fail(a, n)
             /\ NoFault
          \/ /\ good
             /\ pc[a] = "wait_ready"
             /\ TakeAndReply(a, n, << >>)
             /\ pc' = [pc EXCEPT ![a] = "sz"]
             /\ NoFault
             /\ UNCHANGED <<job, image, stored, answers, executed>>
          \/ /\ good
             /\ pc[a] = "wait_ok"
             /\ Commit(a, n)
  BY Zenon DEF WaitLinkAck
<1> DEFINE p == Batch(rx_cw[a], n)
<1>6. p \in Seq(Results(H))
  BY <1>1, BatchIs, Zenon
<1>7. /\ Received(ring_error[a], p, "RING_ERROR") \subseteq RingErrors \cup {NoMsg}
      /\ Received(ring_ack[a], p, "RING_ACK") \subseteq Acks(H) \cup {NoMsg}
  <2>1. ring_error[a] \in RingErrors \cup {NoMsg} /\ ring_ack[a] \in Acks(H) \cup {NoMsg}
    BY <1>1, Zenon
  <2> HIDE DEF p
  <2> QED
    BY <1>6, <2>1, SlotsAre, Zenon
<1>4. PICK err \in RingErrors \cup {NoMsg}, ack \in Acks(H) \cup {NoMsg},
           refused \in BOOLEAN, acked \in BOOLEAN :
      /\ ring_error' = [ring_error EXCEPT ![a] = IF refused THEN NoMsg ELSE err]
      /\ ring_ack' = [ring_ack EXCEPT ![a] = IF acked THEN NoMsg ELSE ack]
      /\ \/ /\ TakeAndReply(a, n, << >>)
            /\ UNCHANGED <<pc, job, image, stored, answers, executed>>
         \/ Fail(a, n)
         \/ /\ pc[a] = "wait_ready"
            /\ TakeAndReply(a, n, << >>)
            /\ pc' = [pc EXCEPT ![a] = "sz"]
            /\ UNCHANGED <<job, image, stored, answers, executed>>
         \/ /\ pc[a] = "wait_ok"
            /\ ack # NoMsg /\ ack.seq = job[a].seq /\ <<ack.result, ack.node>> = <<"OK", Last>>
            /\ Commit(a, n)
  <2>1. PICK err \in Received(ring_error[a], p, "RING_ERROR"), ack \in Received(ring_ack[a], p, "RING_ACK") :
       LET refused == Answers(err, job[a].seq)
           acked == ~refused /\ Answers(ack, job[a].seq)
           good == /\ acked
                   /\ <<ack.result, ack.node>> = IF pc[a] = "wait_ready" THEN <<"READY", a + 1>>
                                                                         ELSE <<"OK", Last>>
       IN
       /\ n > 0 \/ refused \/ acked
       /\ ring_error' = [ring_error EXCEPT ![a] = IF refused THEN NoMsg ELSE err]
       /\ ring_ack' = [ring_ack EXCEPT ![a] = IF acked THEN NoMsg ELSE ack]
       /\ \/ /\ ~refused /\ ~good
             /\ TakeAndReply(a, n, << >>)
             /\ NoFault
             /\ UNCHANGED <<pc, job, image, stored, answers, executed>>
          \/ /\ refused
             /\ Fail(a, n)
             /\ NoFault
          \/ /\ good
             /\ pc[a] = "wait_ready"
             /\ TakeAndReply(a, n, << >>)
             /\ pc' = [pc EXCEPT ![a] = "sz"]
             /\ NoFault
             /\ UNCHANGED <<job, image, stored, answers, executed>>
          \/ /\ good
             /\ pc[a] = "wait_ok"
             /\ Commit(a, n)
    BY <1>3, Zenon
  <2> DEFINE refused == Answers(err, job[a].seq)
             acked == ~refused /\ Answers(ack, job[a].seq)
  <2>2. refused \in BOOLEAN /\ acked \in BOOLEAN
    BY Zenon DEF Answers
  <2>3. pc[a] = "wait_ok" => pc[a] # "wait_ready"
    OBVIOUS
  <2>4. acked => ack # NoMsg /\ ack.seq = job[a].seq
    BY Zenon DEF Answers
  <2>5. err \in RingErrors \cup {NoMsg} /\ ack \in Acks(H) \cup {NoMsg}
    BY <1>7, Zenon
  <2> HIDE DEF refused, acked
  <2>6. /\ ring_error' = [ring_error EXCEPT ![a] = IF refused THEN NoMsg ELSE err]
        /\ ring_ack' = [ring_ack EXCEPT ![a] = IF acked THEN NoMsg ELSE ack]
        /\ \/ /\ TakeAndReply(a, n, << >>)
              /\ UNCHANGED <<pc, job, image, stored, answers, executed>>
           \/ Fail(a, n)
           \/ /\ pc[a] = "wait_ready"
              /\ TakeAndReply(a, n, << >>)
              /\ pc' = [pc EXCEPT ![a] = "sz"]
              /\ UNCHANGED <<job, image, stored, answers, executed>>
           \/ /\ pc[a] = "wait_ok"
              /\ acked /\ <<ack.result, ack.node>> = <<"OK", Last>>
              /\ Commit(a, n)
    BY <2>1, <2>3, Zenon DEF refused, acked
  <2> QED
    BY <2>2, <2>4, <2>5, <2>6, Zenon
<1> HIDE DEF p
<1>8. /\ ring_ack' \in [Arms -> Acks(H) \cup {NoMsg}]
      /\ ring_error' \in [Arms -> RingErrors \cup {NoMsg}]
  BY <1>1, <1>4
<1>9. Aside(H)
  BY <1>2, <1>8, Zenon DEF Aside, phone
<1>10. /\ job[a] \in H /\ job[a] # NoMsg
       /\ Local(a, pc[a], job[a], ring_cmd[a])
       /\ Fits(pc[a], job[a].kind)
  BY <1>2, HandlerIs
<1>11. ASSUME TakeAndReply(a, n, << >>), Control', job' = job,
              UNCHANGED <<image, stored, answers, executed>>,
              \A b \in Arms \ {a} : pc'[b] = pc[b]
       PROVE  Inv(H)'
  <2>1. << >> \in Seq(Results(H))
    OBVIOUS
  <2>2. rx_cw' \in [Arms -> Seq(Results(H))]
    BY <1>1, <1>11, <2>1, Replied, Zenon
  <2>4. Content(H)'
    BY <1>1, <1>2, <1>8, <1>11, <2>2, ContentStays, Zenon
  <2> QED
    BY <1>2, <1>11, <2>4, InvStep, Zenon
<1>12. CASE TakeAndReply(a, n, << >>) /\ UNCHANGED <<pc, job, image, stored, answers, executed>>
  <2>1. Control'
    BY <1>0, <1>2, <1>12, Zenon DEF Control
  <2> QED
    BY <1>11, <1>12, <2>1, Zenon
<1>13. CASE Fail(a, n)
  BY <1>9, <1>10, <1>13, FailStep, Zenon
<1>14. CASE /\ pc[a] = "wait_ready"
            /\ TakeAndReply(a, n, << >>)
            /\ pc' = [pc EXCEPT ![a] = "sz"]
            /\ UNCHANGED <<job, image, stored, answers, executed>>
  <2>1. a # Last /\ Fits("sz", job[a].kind) /\ "sz" \in Places
    BY <1>10, <1>14, Zenon DEF Local, Fits, Waits, Places
  <2>2. Control'
    BY <1>0, <1>2, <1>10, <1>14, <2>1, HandlerStep, Zenon
  <2>3. \A b \in Arms \ {a} : pc'[b] = pc[b]
    BY <1>14
  <2> QED
    BY <1>11, <1>14, <2>2, <2>3, Zenon
<1>15. CASE /\ pc[a] = "wait_ok"
            /\ ack # NoMsg /\ ack.seq = job[a].seq /\ <<ack.result, ack.node>> = <<"OK", Last>>
            /\ Commit(a, n)
  <2>1. ack \in Acks(H) /\ ack.result = "OK"
    BY <1>15, Zenon
  <2>2. job[a].kind = "image" => job[a].id \in executed[Last]
    BY <1>0, <1>10, <1>15, <2>1, AckMeans, Zenon
  <2> QED
    BY <1>9, <1>10, <1>15, <2>2, CommitStep, Zenon
<1> QED
  BY <1>4, <1>12, <1>13, <1>14, <1>15, Zenon

\* An arm that waits for ACCEPTED or COMPLETED.
LEMMA WaitBootloaderAckStep ==
  ASSUME NEW H, Inv(H), NEW a \in Arms, WaitBootloaderAck(a)
  PROVE  Inv(H)'
<1>0. Issued(H) /\ Content(H) /\ Control
  BY Zenon DEF Inv
<1>1. /\ rx_cw \in [Arms -> Seq(Results(H))]
      /\ rx_ccw \in [Arms -> Seq(Commands(H) \cup Updates(H))]
      /\ ring_ack \in [Arms -> Acks(H) \cup {NoMsg}]
      /\ ring_error \in [Arms -> RingErrors \cup {NoMsg}]
      /\ ring_cmd \in [Arms -> Commands(H) \cup {NoMsg}]
      /\ job \in [Arms -> H \cup {NoMsg}]
  BY <1>0, Zenon DEF Content
<1>2. pc[a] \in {"wait_accepted", "wait_completed"} /\ UNCHANGED <<rx_ccw, ring_cmd, phone>>
  BY Zenon DEF WaitBootloaderAck
<1>3. PICK n \in 1..Len(rx_cw[a]), p \in {"wait_accepted", "wait_completed", "sz", "install"} :
       /\ \E err \in Received(ring_error[a], Batch(rx_cw[a], n), "RING_ERROR"),
             ack \in Received(ring_ack[a], Batch(rx_cw[a], n), "RING_ACK") :
            /\ ring_error' = [ring_error EXCEPT ![a] = err]
            /\ ring_ack' = [ring_ack EXCEPT ![a] = ack]
       /\ \/ Fail(a, n)
          \/ /\ TakeAndReply(a, n, << >>)
             /\ pc' = [pc EXCEPT ![a] = p]
             /\ p \in {"wait_completed", "install"} <=> pc[a] = "wait_completed"
             /\ UNCHANGED <<job, image, stored, answers, executed>>
  BY Zenon DEF WaitBootloaderAck
<1>4. n \in 0..Len(rx_cw[a])
  OBVIOUS
<1>5. Batch(rx_cw[a], n) \in Seq(Results(H))
  BY <1>1, BatchIs
<1>6. /\ ring_ack' \in [Arms -> Acks(H) \cup {NoMsg}]
      /\ ring_error' \in [Arms -> RingErrors \cup {NoMsg}]
  <2>1. ring_error[a] \in RingErrors \cup {NoMsg} /\ ring_ack[a] \in Acks(H) \cup {NoMsg}
    BY <1>1, Zenon
  <2>2. /\ Received(ring_error[a], Batch(rx_cw[a], n), "RING_ERROR") \subseteq RingErrors \cup {NoMsg}
        /\ Received(ring_ack[a], Batch(rx_cw[a], n), "RING_ACK") \subseteq Acks(H) \cup {NoMsg}
    BY <1>5, <2>1, SlotsAre, Zenon
  <2>3. PICK e \in RingErrors \cup {NoMsg}, r \in Acks(H) \cup {NoMsg} :
          ring_error' = [ring_error EXCEPT ![a] = e] /\ ring_ack' = [ring_ack EXCEPT ![a] = r]
    BY <1>3, <2>2, Zenon
  <2> QED
    BY <1>1, <2>3, Zenon
<1>7. /\ job[a] \in H /\ job[a] # NoMsg
      /\ Local(a, pc[a], job[a], ring_cmd[a])
      /\ Fits(pc[a], job[a].kind)
  BY <1>2, HandlerIs
<1>8. a # Last
  BY <1>2, <1>7, Zenon DEF Local, Waits
<1>9. CASE Fail(a, n)
  <2>1. Aside(H)
    BY <1>2, <1>6 DEF Aside, phone
  <2> QED
    BY <1>7, <1>9, <2>1, FailStep
<1>10. CASE /\ TakeAndReply(a, n, << >>)
            /\ pc' = [pc EXCEPT ![a] = p]
            /\ UNCHANGED <<job, image, stored, answers, executed>>
  <2>1. Fits(p, job[a].kind) /\ p \in Places \ {"display", "command", "dark"}
        /\ p \notin {"rz", "commit"}
    BY <1>2, <1>7 DEF Fits, Places
  <2>2. Control'
    BY <1>0, <1>2, <1>7, <1>8, <1>10, <2>1, HandlerStep, Zenon
  <2>3. << >> \in Seq(Results(H))
    OBVIOUS
  <2>4. rx_cw' \in [Arms -> Seq(Results(H))]
    BY <1>1, <1>4, <1>10, <2>3, Replied, Zenon
  <2>6. Content(H)'
    BY <1>1, <1>2, <1>6, <1>10, <2>4, ContentStays, Zenon
  <2>7. \A b \in Arms : pc[b] \in {"rejoin", "dark"} => pc'[b] = pc[b]
    BY <1>0, <1>2, <1>10, Zenon DEF Control
  <2> QED
    BY <1>2, <1>10, <2>2, <2>6, <2>7, InvStep, Zenon
<1> QED
  BY <1>3, <1>9, <1>10, Zenon

\* A link that is emptied.
LEMMA Emptied ==
  ASSUME NEW S, NEW f \in [Arms -> Seq(S)], NEW b
  PROVE  [f EXCEPT ![b] = << >>] \in [Arms -> Seq(S)]
<1>1. << >> \in Seq(S)
  OBVIOUS
<1> QED
  BY <1>1, Zenon

\* A ZMODEM transfer between an arm and the one behind it.
LEMMA TransferStep ==
  ASSUME NEW H, Inv(H), NEW a \in Arms, Transfer(a)
  PROVE  Inv(H)'
<1>0. Issued(H) /\ Content(H) /\ Control /\ Pictures /\ Versions /\ Outcomes
  BY Zenon DEF Inv
<1>1. /\ rx_cw \in [Arms -> Seq(Results(H))]
      /\ rx_ccw \in [Arms -> Seq(Commands(H) \cup Updates(H))]
      /\ ring_ack \in [Arms -> Acks(H) \cup {NoMsg}]
      /\ ring_error \in [Arms -> RingErrors \cup {NoMsg}]
      /\ ring_cmd \in [Arms -> Commands(H) \cup {NoMsg}]
      /\ job \in [Arms -> H \cup {NoMsg}]
  BY <1>0, Zenon DEF Content
<1>2. /\ a # Last /\ pc[a] = "sz" /\ pc[a + 1] = "rz"
      /\ rx_cw' = [rx_cw EXCEPT ![a] = << >>]
      /\ rx_ccw' = [rx_ccw EXCEPT ![a + 1] = << >>]
      /\ UNCHANGED <<slots, ring_cmd, job, image, blend, firmware, phone, answers, executed>>
  BY Zenon DEF Transfer
<1>3. /\ \E s \in {Sent(a), "failed"}, r \in {Got(a + 1), "failed"} :
           pc' = [pc EXCEPT ![a] = s, ![a + 1] = r]
      /\ \E upload \in {layer_files[a], layer_files[a + 1], Mixed} : Store(a, upload)
  BY Zenon DEF Transfer
<1>4. a + 1 \in Arms /\ a \in Nat /\ a + 1 # 0
  <2>1. a + 1 \in Arms /\ a \in Nat
    BY <1>2, ArmsAre, Zenon
  <2> QED
    BY <2>1
<1>5. /\ job[a] # NoMsg /\ Fits("sz", job[a].kind) /\ Local(a, "sz", job[a], ring_cmd[a])
      /\ job[a + 1] # NoMsg /\ Fits("rz", job[a + 1].kind)
      /\ Local(a + 1, "rz", job[a + 1], ring_cmd[a + 1])
  BY <1>2, <1>4, HandlerIs, Zenon
<1>6. Control'
  <2>1. PICK s \in {Sent(a), "failed"}, r \in {Got(a + 1), "failed"} :
          pc' = [pc EXCEPT ![a] = s, ![a + 1] = r]
    BY <1>3, Zenon
  <2>2. s \in Places /\ Fits(s, job[a].kind) /\ s \in {"wait_ok", "wait_completed", "failed"}
    BY <1>5, Zenon DEF Sent, Fits, Places
  <2>3. /\ r \in Places /\ Fits(r, job[a + 1].kind)
        /\ r \in {"forward", "commit", "install", "failed"}
        /\ r = "forward" => a + 1 # Last
        /\ r = "commit" => a + 1 = Last
    <3>1. CASE a + 1 # Last
      <4>1. r \in {"forward", "failed"}
        BY <3>1, Zenon DEF Got
      <4> QED
        BY <1>5, <3>1, <4>1, Zenon DEF Fits, Places
    <3>2. CASE a + 1 = Last /\ job[a + 1].kind = "file"
      <4>1. r \in {"commit", "failed"}
        BY <3>2, Zenon DEF Got
      <4> QED
        BY <3>2, <4>1, Zenon DEF Fits, Places
    <3>3. CASE a + 1 = Last /\ job[a + 1].kind = "firmware"
      <4>1. r \in {"install", "failed"}
        BY <3>3, Zenon DEF Got
      <4> QED
        BY <3>3, <4>1 DEF Fits, Places
    <3> QED
      BY <1>5, <3>1, <3>2, <3>3, Zenon DEF Fits
  <2>4. Local(a, s, job[a], ring_cmd[a])
    BY <1>5, <2>2, Zenon DEF Local
  <2>5. Local(a + 1, r, job[a + 1], ring_cmd[a + 1])
    BY <1>5, <2>3, Zenon DEF Local, Waits
  <2>6. pc \in [Arms -> Places] /\ \A b \in Arms : Local(b, pc[b], job[b], ring_cmd[b])
    BY <1>0, Zenon DEF Control
  <2>7. /\ pc' \in [Arms -> Places] /\ pc'[a] = s /\ pc'[a + 1] = r
        /\ \A b \in Arms \ {a, a + 1} : pc'[b] = pc[b]
    BY <1>4, <2>1, <2>2, <2>3, <2>6
  <2>8. \A b \in Arms : Local(b, pc'[b], job[b], ring_cmd[b])
    BY <2>4, <2>5, <2>6, <2>7, Zenon
  <2> QED
    BY <1>2, <2>7, <2>8, Zenon DEF Control
<1>7. \A b \in Arms : pc[b] \in {"rejoin", "dark"} => pc'[b] = pc[b]
  BY <1>0, <1>2, <1>3, Zenon DEF Control
<1>8. Content(H)'
  <2>1. rx_cw' \in [Arms -> Seq(Results(H))]
    BY <1>1, <1>2, Emptied, Zenon
  <2>2. rx_ccw' \in [Arms -> Seq(Commands(H) \cup Updates(H))]
    BY <1>1, <1>2, Emptied, Zenon
  <2> QED
    BY <1>1, <1>2, <2>1, <2>2, ContentStays, Zenon DEF slots
<1>9. jobs' = jobs /\ ring_next_seq' = ring_next_seq
  BY <1>2, Zenon DEF phone
<1>10. Issued(H)'
  BY <1>0, <1>9, IssuedStays, Zenon
<1>11. Pictures'
  <2>1. layer_files \in [Arms -> Mixed..jobs] /\ Mixed \in Mixed..jobs
    BY <1>0 DEF Pictures, Issued, Mixed
  <2>2. PICK upload \in {layer_files[a], layer_files[a + 1], Mixed} : Store(a, upload)
    BY <1>3
  <2>4. layer_files' \in [Arms -> Mixed..jobs]
    BY <2>1, <2>2, Zenon DEF Store
  <2>5. /\ image_cmd \in [Arms -> [action : Actions, delay : 0..1] \cup {NoMsg}]
        /\ image_current \in [Arms -> NoImage..(IMAGE_COUNT - 1)]
        /\ \A b \in Arms : pc[b] # "dark" => image_current[b] >= 0
        /\ blend \in [Arms -> Mixed..jobs]
    BY <1>0, Zenon DEF Pictures
  <2> QED
    BY <1>2, <1>7, <1>9, <2>4, <2>5, Zenon DEF Pictures, image
<1>12. Versions'
  BY <1>0, <1>2, <1>7, <1>9, VersionsStay, Zenon
<1>13. Outcomes'
  BY <1>0, <1>2, <1>9, Zenon DEF Outcomes, answers
<1> QED
  BY <1>6, <1>8, <1>10, <1>11, <1>12, <1>13, Zenon DEF Inv

\* A transfer that does not come to pass clears a link of the arm.
LEMMA ClearedStep ==
  ASSUME NEW H, Inv(H), NEW a \in Arms, SendTimeout(a) \/ ReceiveTimeout(a)
  PROVE  Inv(H)'
<1>0. Issued(H) /\ Content(H) /\ Control
  BY Zenon DEF Inv
<1>1. /\ rx_cw \in [Arms -> Seq(Results(H))]
      /\ rx_ccw \in [Arms -> Seq(Commands(H) \cup Updates(H))]
      /\ ring_ack \in [Arms -> Acks(H) \cup {NoMsg}]
      /\ ring_error \in [Arms -> RingErrors \cup {NoMsg}]
      /\ ring_cmd \in [Arms -> Commands(H) \cup {NoMsg}]
      /\ job \in [Arms -> H \cup {NoMsg}]
  BY <1>0, Zenon DEF Content
<1>2. /\ pc[a] \in {"sz", "rz"} /\ pc' = [pc EXCEPT ![a] = "failed"]
      /\ rx_cw' \in {rx_cw, [rx_cw EXCEPT ![a] = << >>]}
      /\ rx_ccw' \in {rx_ccw, [rx_ccw EXCEPT ![a] = << >>]}
      /\ UNCHANGED <<slots, ring_cmd, job, image, stored, phone, answers, executed>>
  BY Zenon DEF SendTimeout, ReceiveTimeout
<1>3. job[a] # NoMsg /\ Fits(pc[a], job[a].kind)
  BY <1>2, HandlerIs
<1>4. Control'
  <2>1. Fits("failed", job[a].kind) /\ "failed" \in Places /\ "failed" \notin Waits
    BY <1>2, <1>3, Zenon DEF Fits, Places, Waits
  <2> QED
    BY <1>0, <1>2, <1>3, <2>1, HandlerStep, Zenon
<1>5. Content(H)'
  <2>1. rx_cw' \in [Arms -> Seq(Results(H))]
    <3>1. [rx_cw EXCEPT ![a] = << >>] \in [Arms -> Seq(Results(H))]
      BY <1>1, Emptied, Zenon
    <3> QED
      BY <1>1, <1>2, <3>1, Zenon
  <2>2. rx_ccw' \in [Arms -> Seq(Commands(H) \cup Updates(H))]
    <3>1. [rx_ccw EXCEPT ![a] = << >>] \in [Arms -> Seq(Commands(H) \cup Updates(H))]
      BY <1>1, Emptied, Zenon
    <3> QED
      BY <1>1, <1>2, <3>1, Zenon
  <2> QED
    BY <1>1, <1>2, <2>1, <2>2, ContentStays, Zenon DEF slots
<1>6. \A b \in Arms : pc[b] \in {"rejoin", "dark"} => pc'[b] = pc[b]
  BY <1>0, <1>2, Zenon DEF Control
<1> QED
  BY <1>2, <1>4, <1>5, <1>6, InvStep, Zenon

\* An installation, or one that fails and puts the snapshots back.
LEMMA InstallStep ==
  ASSUME NEW H, Inv(H), NEW a \in Arms, Install(a)
  PROVE  Inv(H)'
<1>0. Issued(H) /\ Content(H) /\ Control /\ Pictures /\ Versions /\ Outcomes
  BY DEF Inv
<1>1. pc[a] = "install" /\ UNCHANGED <<rx_ccw, slots, ring_cmd, phone>>
  BY Zenon DEF Install
<1>2. job[a] \in H /\ job[a] # NoMsg /\ Fits("install", job[a].kind)
  BY <1>1, HandlerIs, Zenon
<1>3. CASE Fail(a, 0)
  BY <1>1, <1>3, FailingStep, Zenon
<1>4. CASE /\ installed' = [installed EXCEPT ![a] = job[a].id]
           /\ snapshots' = [snapshots EXCEPT ![a] = installed[a]]
           /\ pc' = [pc EXCEPT ![a] = "rejoin"]
           /\ UNCHANGED <<rx_cw, job, image, layer_files, blend, undone, answers, executed>>
  <2>1. job[a].id \in 1..jobs
    BY <1>0, <1>2, JobIs, Zenon
  <2>2. jobs' = jobs /\ ring_next_seq' = ring_next_seq /\ accepted' = accepted /\ rejected' = rejected
        /\ ring_ack' = ring_ack /\ ring_error' = ring_error
    BY <1>1, <1>4, Zenon DEF phone, answers, slots
  <2>3. Issued(H)'
    BY <1>0, <2>2, IssuedStays, Zenon
  <2>4. Content(H)'
    <3> QED
      BY <1>0, <1>1, <1>4, <2>2, ContentStays, Zenon DEF Content
  <2>5. Control'
    <3>1. Fits("rejoin", job[a].kind) /\ "rejoin" \in Places /\ "rejoin" \notin Waits
      BY <1>2, Zenon DEF Fits, Places, Waits
    <3> QED
      BY <1>0, <1>1, <1>2, <1>4, <3>1, HandlerStep, Zenon
  <2>6. pc'[a] = "rejoin" /\ \A b \in Arms \ {a} : pc'[b] = pc[b]
    BY <1>0, <1>4, Zenon DEF Control
  <2>7. Pictures'
    BY <1>0, <1>1, <1>4, <2>2, <2>6, Zenon DEF Pictures, image
  <2>8. Versions'
    <3>1. /\ installed \in [Arms -> 0..jobs]
          /\ snapshots \in [Arms -> (0..jobs) \cup {NoMsg}]
          /\ \A b \in Arms : snapshots[b] # NoMsg => pc[b] = "rejoin"
          /\ undone \in BOOLEAN
      BY <1>0, Zenon DEF Versions
    <3>2. installed' \in [Arms -> 0..jobs]
      BY <1>4, <2>1, <3>1
    <3> QED
      BY <1>4, <2>2, <2>6, <3>1, <3>2, Zenon DEF Versions
  <2>9. Outcomes'
    BY <1>0, <1>4, <2>2, Zenon DEF Outcomes
  <2> QED
    BY <2>3, <2>4, <2>5, <2>7, <2>8, <2>9, Zenon DEF Inv
<1> QED
  BY <1>3, <1>4, Zenon DEF Install

\* An arm that answers COMPLETED after its installation.
LEMMA RejoinStep ==
  ASSUME NEW H, Inv(H), NEW a \in Arms, Rejoin(a)
  PROVE  Inv(H)'
<1>0. Issued(H) /\ Content(H) /\ Control /\ Pictures /\ Versions /\ Outcomes
  BY Zenon DEF Inv
<1>1. /\ rx_cw \in [Arms -> Seq(Results(H))]
      /\ rx_ccw \in [Arms -> Seq(Commands(H) \cup Updates(H))]
      /\ ring_ack \in [Arms -> Acks(H) \cup {NoMsg}]
      /\ ring_error \in [Arms -> RingErrors \cup {NoMsg}]
      /\ ring_cmd \in [Arms -> Commands(H) \cup {NoMsg}]
      /\ job \in [Arms -> H \cup {NoMsg}]
  BY <1>0, Zenon DEF Content
<1> DEFINE cmd == IF a = 0 THEN Replay ELSE image_cmd[a]
<1>2. /\ pc[a] = "rejoin" /\ Finish(FALSE)
      /\ TakeAndReply(a, 0, <<BootloaderAck("COMPLETED")>>)
      /\ Accept(a)
      /\ Leave(a, cmd, image_current[a])
      /\ UNCHANGED <<rx_ccw, slots, ring_cmd, layer_files, blend, phone, rejected, executed>>
  BY Zenon DEF Rejoin
<1>3. job[a] \in H /\ job[a] # NoMsg
  BY <1>2, HandlerIs, Zenon
<1>4. cmd \in Pictured
  BY <1>0, PicturedIs, Zenon DEF Pictures, Pictured
<1> HIDE DEF cmd
<1>5. image_current[a] \in 0..(IMAGE_COUNT - 1)
  <2>1. image_current[a] \in NoImage..(IMAGE_COUNT - 1) /\ image_current[a] >= 0
    BY <1>0, <1>2, Zenon DEF Pictures
  <2> QED
    BY <2>1
<1>6. /\ job' \in [Arms -> H \cup {NoMsg}]
      /\ Control'
      /\ image_cmd' \in [Arms -> Pictured]
      /\ image_current' \in [Arms -> NoImage..(IMAGE_COUNT - 1)]
      /\ \A b \in Arms : pc'[b] # "dark" => image_current'[b] >= 0
      /\ \A b \in Arms \ {a} : pc'[b] = pc[b]
  <2>1. cmd \in ImageCmds \cup {NoMsg}
    BY <1>4, PicturedIs, Zenon
  <2> QED
    BY <1>0, <1>1, <1>2, <1>3, <1>4, <1>5, <2>1, LeaveKeeps, Zenon
<1>7. /\ jobs' = jobs /\ ring_next_seq' = ring_next_seq
      /\ ring_ack' = ring_ack /\ ring_error' = ring_error
  BY <1>2, Zenon DEF phone, slots
<1>8. rx_cw' \in [Arms -> Seq(Results(H))]
  <2>1. BootloaderAck("COMPLETED") \in Results(H)
    BY Zenon DEF BootloaderAck, BootloaderAcks, Results
  <2>2. <<BootloaderAck("COMPLETED")>> \in Seq(Results(H))
    BY <2>1
  <2>3. 0 \in 0..Len(rx_cw[a])
    OBVIOUS
  <2> QED
    BY <1>1, <1>2, <2>2, <2>3, Replied, Zenon
<1>9. Issued(H)'
  BY <1>0, <1>7, IssuedStays
<1>10. Content(H)'
  <2> QED
    BY <1>1, <1>2, <1>6, <1>7, <1>8, ContentStays, Zenon
<1>11. Pictures'
  BY <1>0, <1>2, <1>6, <1>7, Zenon DEF Pictures, Pictured
<1>12. Versions'
  BY <1>0, <1>2, <1>7, FinishKeeps, Zenon
<1>13. Outcomes'
  <2>1. job[a].id \in 1..jobs /\ accepted \subseteq 1..jobs
    BY <1>0, <1>3, JobIs, Zenon DEF Outcomes
  <2>2. accepted' \subseteq 1..jobs
    BY <1>2, <2>1, Zenon DEF Accept
  <2> QED
    BY <1>0, <1>2, <1>7, <2>2, Zenon DEF Outcomes
<1> QED
  BY <1>6, <1>9, <1>10, <1>11, <1>12, <1>13, Zenon DEF Inv

\* A message lost on the line.
LEMMA LoseStep ==
  ASSUME NEW H, Inv(H), NEW a \in Arms, Lose(a)
  PROVE  Inv(H)'
<1>0. Issued(H) /\ Content(H) /\ Control
  BY Zenon DEF Inv
<1>1. /\ rx_cw \in [Arms -> Seq(Results(H))]
      /\ rx_ccw \in [Arms -> Seq(Commands(H) \cup Updates(H))]
      /\ ring_ack \in [Arms -> Acks(H) \cup {NoMsg}]
      /\ ring_error \in [Arms -> RingErrors \cup {NoMsg}]
      /\ ring_cmd \in [Arms -> Commands(H) \cup {NoMsg}]
      /\ job \in [Arms -> H \cup {NoMsg}]
  BY <1>0, Zenon DEF Content
<1>2. /\ \/ /\ \E i \in 1..Len(rx_cw[a]) : rx_cw' = [rx_cw EXCEPT ![a] = Without(@, i)]
            /\ UNCHANGED rx_ccw
         \/ /\ \E i \in 1..Len(rx_ccw[a]) : rx_ccw' = [rx_ccw EXCEPT ![a] = Without(@, i)]
            /\ UNCHANGED rx_cw
      /\ UNCHANGED <<slots, ring_cmd, pc, job, image, stored, phone, answers, executed>>
  BY Zenon DEF Lose
<1>3. rx_cw[a] \in Seq(Results(H)) /\ rx_ccw[a] \in Seq(Commands(H) \cup Updates(H))
  BY <1>1
<1>4. /\ rx_cw' \in [Arms -> Seq(Results(H))]
      /\ rx_ccw' \in [Arms -> Seq(Commands(H) \cup Updates(H))]
  <2>1. \A i \in 1..Len(rx_cw[a]) : Without(rx_cw[a], i) \in Seq(Results(H))
    BY <1>3, WithoutIs, Zenon
  <2>2. \A i \in 1..Len(rx_ccw[a]) : Without(rx_ccw[a], i) \in Seq(Commands(H) \cup Updates(H))
    BY <1>3, WithoutIs, Zenon
  <2>3. CASE UNCHANGED rx_ccw
    BY <1>1, <1>2, <2>1, <2>3, Zenon
  <2>4. CASE UNCHANGED rx_cw
    BY <1>1, <1>2, <2>2, <2>4, Zenon
  <2> QED
    BY <1>2, <2>3, <2>4, Zenon
<1>5. Control'
  BY <1>0, <1>2, Zenon DEF Control
<1>6. Content(H)'
  <2> QED
    BY <1>1, <1>2, <1>4, ContentStays, Zenon DEF slots
<1> QED
  BY <1>2, <1>5, <1>6, InvStep, Zenon

\* A new job gets a sequence number that no other job has.
LEMMA IssuedGrows ==
  ASSUME NEW H, Issued(H), jobs < MaxJobs, NEW j \in Jobs,
         jobs' = jobs + 1, j.id = jobs + 1,
         j.kind = "firmware" => ring_next_seq' = ring_next_seq,
         j.kind # "firmware" => ring_next_seq' = NextSeq /\ j.seq = NextSeq,
         j.kind = "image" => j.action \in Actions
  PROVE  Issued(H \cup {j})'
<1>1. /\ H \subseteq Jobs /\ jobs \in 0..MaxJobs
      /\ ring_next_seq \in 0..U16_MAX /\ Steps(ring_next_seq) <= jobs
      /\ \A k \in H :
           /\ k.id <= jobs
           /\ k.kind # "firmware" => k.seq >= 1 /\ Steps(k.seq) <= Steps(ring_next_seq)
           /\ k.kind = "image" => k.action \in Actions
      /\ \A k, l \in H : k.kind # "firmware" /\ l.kind # "firmware" /\ k.seq = l.seq => k = l
  BY Zenon DEF Issued
<1>2. MaxJobs \in Nat /\ MaxJobs < U16_MAX /\ U16_MAX \in Nat /\ FirstSeq \in 0..U16_MAX
  BY RingAssumption, SeqRange
<1>3. \A s \in 0..U16_MAX : Steps(s) \in Int
  BY <1>2 DEF Steps
<1>4. \A k \in Jobs : k.seq \in 0..U16_MAX /\ k.id \in 1..MaxJobs
  BY Zenon DEF Jobs
<1> DEFINE s == Steps(ring_next_seq)
<1>5. s \in Int /\ s < U16_MAX - 1
  BY <1>1, <1>2, <1>3
<1>6. NextSeq \in 1..U16_MAX /\ Steps(NextSeq) = s + 1
  BY <1>1, <1>5, NextSeqIs, Zenon
<1> HIDE DEF s
<1>7. \A k \in H : k.kind # "firmware" => k.seq # NextSeq
  <2>1. ASSUME NEW k \in H, k.kind # "firmware", k.seq = NextSeq PROVE FALSE
    <3>1. Steps(k.seq) <= s
      BY <1>1, <2>1 DEF s
    <3> QED
      BY <1>5, <1>6, <2>1, <3>1
  <2> QED
    BY <2>1, Zenon
<1>8. ring_next_seq' \in 0..U16_MAX /\ s <= Steps(ring_next_seq') /\ Steps(ring_next_seq') <= jobs + 1
  <2>1. CASE j.kind = "firmware"
    <3>1. Steps(ring_next_seq') = s /\ ring_next_seq' = ring_next_seq
      BY <2>1, Zenon DEF s
    <3> QED
      BY <1>1, <1>5, <3>1
  <2>2. CASE j.kind # "firmware"
    <3>1. Steps(ring_next_seq') = s + 1 /\ ring_next_seq' \in 1..U16_MAX
      BY <1>6, <2>2
    <3>2. s <= jobs /\ jobs \in Int
      BY <1>1 DEF s
    <3> QED
      BY <1>5, <3>1, <3>2
  <2> QED
    BY <2>1, <2>2, Zenon
<1>9. ASSUME NEW k \in H \cup {j}
      PROVE  /\ k.id <= jobs + 1
             /\ k.kind # "firmware" => k.seq >= 1 /\ Steps(k.seq) <= Steps(ring_next_seq')
             /\ k.kind = "image" => k.action \in Actions
  <2>1. CASE k = j
    <3>1. k.id <= jobs + 1
      BY <2>1
    <3>2. ASSUME k.kind # "firmware"
          PROVE  k.seq >= 1 /\ Steps(k.seq) <= Steps(ring_next_seq')
      BY <1>5, <1>6, <2>1, <3>2
    <3> QED
      BY <2>1, <3>1, <3>2, Zenon
  <2>2. CASE k \in H
    <3>1. k.id <= jobs + 1
      <4>1. k.id <= jobs /\ k.id \in Int /\ jobs \in Int
        BY <1>1, <1>4, <2>2
      <4> QED
        BY <4>1
    <3>2. ASSUME k.kind # "firmware"
          PROVE  k.seq >= 1 /\ Steps(k.seq) <= Steps(ring_next_seq')
      <4>1. k.seq >= 1 /\ Steps(k.seq) <= s
        BY <1>1, <2>2, <3>2, Zenon DEF s
      <4>2. Steps(k.seq) \in Int /\ Steps(ring_next_seq') \in Int
        BY <1>1, <1>3, <1>4, <2>2, Zenon
      <4> QED
        BY <1>5, <1>8, <4>1, <4>2
    <3> QED
      BY <1>1, <2>2, <3>1, <3>2, Zenon
  <2> QED
    BY <2>1, <2>2, Zenon
<1>10. ASSUME NEW k \in H \cup {j}, NEW l \in H \cup {j},
              k.kind # "firmware", l.kind # "firmware", k.seq = l.seq
       PROVE  k = l
  <2>1. CASE k \in H /\ l \in H
    BY <1>1, <1>10, <2>1
  <2>2. CASE k = j /\ l \in H
    BY <1>7, <1>10, <2>2, Zenon
  <2>3. CASE k \in H /\ l = j
    BY <1>7, <1>10, <2>3, Zenon
  <2> QED
    BY <2>1, <2>2, <2>3
<1>11. H \cup {j} \subseteq Jobs /\ jobs' \in 0..MaxJobs
  BY <1>1, <1>2
<1> QED
  BY <1>8, <1>9, <1>10, <1>11, Zenon DEF Issued

\* A new job takes nothing from what the links and slots may hold.
LEMMA ContentGrows ==
  ASSUME NEW H, NEW G, H \subseteq G, Content(H), UNCHANGED <<links, slots, ring_cmd, executed>>,
         job' \in [Arms -> G \cup {NoMsg}]
  PROVE  Content(G)'
<1>1. /\ Commands(H) \subseteq Commands(G)
      /\ Updates(H) \subseteq Updates(G)
  BY Zenon DEF Commands, Updates
<1>2. Acks(H) \subseteq Acks(G)'
  BY DEF Acks
<1>3. Results(H) \subseteq Results(G)'
  BY <1>2 DEF Results
<1> DEFINE A == Results(H)
           B == Results(G)'
           C == Commands(H) \cup Updates(H)
           D == Commands(G) \cup Updates(G)
<1>4. A \subseteq B /\ C \subseteq D
  BY <1>1, <1>3, Zenon
<1>5. /\ rx_cw \in [Arms -> Seq(A)] /\ rx_ccw \in [Arms -> Seq(C)]
      /\ ring_ack \in [Arms -> Acks(H) \cup {NoMsg}]
      /\ ring_error \in [Arms -> RingErrors \cup {NoMsg}]
      /\ ring_cmd \in [Arms -> Commands(H) \cup {NoMsg}]
  BY DEF Content
<1> HIDE DEF A, B, C, D
<1>6. Seq(A) \subseteq Seq(B) /\ Seq(C) \subseteq Seq(D)
  BY <1>4
<1>7. rx_cw \in [Arms -> Seq(B)] /\ rx_ccw \in [Arms -> Seq(D)]
  BY <1>5, <1>6, Zenon
<1>8. ring_ack \in [Arms -> Acks(G)' \cup {NoMsg}] /\ ring_cmd \in [Arms -> Commands(G) \cup {NoMsg}]
  BY <1>1, <1>2, <1>5, Zenon
<1> QED
  BY <1>7, <1>8, Zenon DEF Content, B, D, links, slots

\* A new job joins the jobs issued so far; its sequence number is a new one.
LEMMA StartStep ==
  ASSUME NEW H, Inv(H), NEW kind \in Kinds, NEW action \in Actions \cup {NoMsg},
         kind = "image" => action \in Actions, Start(kind, action)
  PROVE  \E G : Inv(G)'
<1>0. Issued(H) /\ Content(H) /\ Control /\ Pictures /\ Versions /\ Outcomes
  BY DEF Inv
<1> DEFINE seq == IF kind = "firmware" THEN 0 ELSE NextSeq
           new == [kind |-> kind, id |-> jobs + 1, action |-> action, seq |-> seq]
<1>1. /\ pc[0] = "display" /\ jobs < MaxJobs /\ jobs' = jobs + 1
      /\ job' = [job EXCEPT ![0] = new]
      /\ ring_next_seq' = IF kind = "firmware" THEN ring_next_seq ELSE NextSeq
      /\ layer_files' = IF kind = "file" THEN [layer_files EXCEPT ![0] = jobs + 1] ELSE layer_files
      /\ pc' = [pc EXCEPT ![0] = "forward"]
      /\ UNCHANGED <<links, slots, ring_cmd, image, blend, firmware, answers, executed>>
  BY Zenon DEF Start
<1>2. jobs \in 0..MaxJobs /\ MaxJobs \in Nat
  BY <1>0, RingAssumption, Zenon DEF Issued
<1>3. new \in Jobs
  <2>1. seq \in 0..U16_MAX
    BY <1>0, SeqRange DEF NextSeq, Issued
  <2>2. jobs + 1 \in 1..MaxJobs
    BY <1>1, <1>2
  <2> HIDE DEF seq
  <2> QED
    BY <2>1, <2>2 DEF Jobs
<1> HIDE DEF new
<1> PICK j \in Jobs : j = new
  BY <1>3
<1> DEFINE G == H \cup {j}
<1>4. j.kind = kind /\ j.id = jobs + 1 /\ j.action = action /\ (kind # "firmware" => j.seq = NextSeq)
  BY Zenon DEF new
<1>5. j # NoMsg
  BY NoMsgAssumption
<1>6. Issued(G)'
  BY <1>0, <1>1, <1>4, IssuedGrows, Zenon
<1>7. 0 \in Arms /\ 0 # Last
  BY ArmsAre, Zenon
<1>8. /\ job' \in [Arms -> G \cup {NoMsg}] /\ job'[0] = j
      /\ \A b \in Arms \ {0} : job'[b] = job[b]
  <2>1. job \in [Arms -> H \cup {NoMsg}]
    BY <1>0, Zenon DEF Content
  <2> QED
    BY <1>1, <1>7, <2>1, Zenon
<1>9. Content(G)'
  BY <1>0, <1>1, <1>8, ContentGrows, Zenon
<1>10. Control'
  <2>1. Local(0, "display", job[0], ring_cmd[0])
    BY <1>0, <1>1, <1>7 DEF Control
  <2>2. kind \in {"image", "file", "firmware"}
    BY RingAssumption
  <2>3. Local(0, "forward", j, ring_cmd[0])
    BY <1>4, <1>5, <1>7, <2>1, <2>2, Zenon DEF Local, Fits
  <2>4. "forward" \in Places
    BY Zenon DEF Places
  <2> QED
    BY <1>0, <1>1, <1>7, <1>8, <2>3, <2>4, LocalStep, Zenon
<1>11. \A b \in Arms : pc[b] \in {"rejoin", "dark"} => pc'[b] = pc[b]
  BY <1>0, <1>1, Zenon DEF Control
<1>12. 0..jobs \subseteq 0..jobs' /\ Mixed..jobs \subseteq Mixed..jobs' /\ 1..jobs \subseteq 1..jobs'
       /\ jobs + 1 \in Mixed..jobs'
  BY <1>1, <1>2 DEF Mixed
<1>13. Pictures'
  <2>1. /\ image_cmd \in [Arms -> [action : Actions, delay : 0..1] \cup {NoMsg}]
        /\ image_current \in [Arms -> NoImage..(IMAGE_COUNT - 1)]
        /\ \A a \in Arms : pc[a] # "dark" => image_current[a] >= 0
        /\ layer_files \in [Arms -> Mixed..jobs]
        /\ blend \in [Arms -> Mixed..jobs]
    BY <1>0, Zenon DEF Pictures
  <2>2. blend \in [Arms -> Mixed..jobs'] /\ layer_files' \in [Arms -> Mixed..jobs']
    BY <1>1, <1>12, <2>1, Zenon
  <2> QED
    BY <1>1, <1>11, <2>1, <2>2, Zenon DEF Pictures, image
<1>14. Versions'
  <2>1. /\ installed \in [Arms -> 0..jobs]
        /\ snapshots \in [Arms -> (0..jobs) \cup {NoMsg}]
        /\ \A a \in Arms : snapshots[a] # NoMsg => pc[a] = "rejoin"
        /\ undone \in BOOLEAN
    BY <1>0, Zenon DEF Versions
  <2>2. installed \in [Arms -> 0..jobs'] /\ snapshots \in [Arms -> (0..jobs') \cup {NoMsg}]
    BY <1>12, <2>1, Zenon
  <2> QED
    BY <1>1, <1>11, <2>1, <2>2, Zenon DEF Versions, firmware
<1>15. Outcomes'
  <2>1. /\ executed \in [Arms -> SUBSET (1..jobs)]
        /\ \A a \in Arms : executed[a] \subseteq executed[Last]
        /\ accepted \subseteq 1..jobs /\ rejected \subseteq 1..jobs
    BY <1>0 DEF Outcomes
  <2>2. /\ executed \in [Arms -> SUBSET (1..jobs')]
        /\ accepted \subseteq 1..jobs' /\ rejected \subseteq 1..jobs'
    BY <1>12, <2>1, Zenon
  <2> QED
    BY <1>1, <2>1, <2>2, Zenon DEF Outcomes, answers
<1>16. Inv(G)'
  BY <1>6, <1>9, <1>10, <1>13, <1>14, <1>15, Zenon DEF Inv
<1> QED
  BY <1>16, Zenon

\* No job has been issued when the arms start.
LEMMA InitInv ==
  ASSUME Init
  PROVE  Inv({})
<1>1. Issued({})
  <2>1. FirstSeq \in 0..U16_MAX /\ MaxJobs \in Nat
    BY RingAssumption, Zenon
  <2>2. Steps(FirstSeq) = 0
    BY <2>1 DEF Steps
  <2>3. jobs = 0 /\ ring_next_seq = FirstSeq
    BY Zenon DEF Init
  <2> QED
    BY <2>1, <2>2, <2>3 DEF Issued
<1>2. Content({})
  <2>1. << >> \in Seq(Results({})) /\ << >> \in Seq(Commands({}) \cup Updates({}))
    OBVIOUS
  <2> QED
    BY <2>1, Zenon DEF Init, Content
<1>3. Control
  <2>1. \A a \in Arms : Local(a, "display", NoMsg, NoMsg)
    BY DEF Local, Waits
  <2>2. "display" \in Places
    BY DEF Places
  <2>3. /\ pc = [a \in Arms |-> "display"] /\ job = [a \in Arms |-> NoMsg]
        /\ ring_cmd = [a \in Arms |-> NoMsg]
    BY Zenon DEF Init
  <2> QED
    BY <2>1, <2>2, <2>3 DEF Control
<1>4. Pictures
  <2>1. 0 \in NoImage..(IMAGE_COUNT - 1) /\ 0 \in Mixed..0
    BY RingAssumption DEF NoImage, Mixed
  <2> QED
    BY <2>1 DEF Init, Pictures
<1>5. Versions
  <2>1. /\ jobs = 0 /\ installed = [a \in Arms |-> 0]
        /\ snapshots = [a \in Arms |-> NoMsg] /\ undone = FALSE
    BY Zenon DEF Init
  <2>2. installed \in [Arms -> 0..jobs] /\ snapshots \in [Arms -> (0..jobs) \cup {NoMsg}]
    BY <2>1
  <2>3. \A a \in Arms : snapshots[a] = NoMsg
    BY <2>1, Zenon
  <2>4. undone \in BOOLEAN
    BY <2>1, Zenon
  <2> QED
    BY <2>2, <2>3, <2>4, Zenon DEF Versions
<1>6. Outcomes
  BY Zenon DEF Init, Outcomes
<1> QED
  BY <1>1, <1>2, <1>3, <1>4, <1>5, <1>6 DEF Inv

\* Every step keeps the invariant, for the jobs issued so far or with one more.
LEMMA StepInv ==
  ASSUME NEW H, Inv(H), [Next]_vars
  PROVE  \E G : Inv(G)'
<1>1. CASE Request
  <2>1. CASE "image" \in Kinds /\ \E action \in Controls : Start("image", action)
    <3>1. PICK action \in Controls : Start("image", action)
      BY <2>1, Zenon
    <3>2. action \in Actions
      BY RingAssumption, Zenon
    <3> QED
      BY <2>1, <3>1, <3>2, StartStep, Zenon
  <2>2. CASE \E kind \in Kinds \ {"image"} : Start(kind, NoMsg)
    BY <2>2, StartStep, Zenon
  <2> QED
    BY <1>1, <2>1, <2>2, Zenon DEF Request
<1>2. ASSUME NEW a \in Arms, Step(a) \/ SendFails(a) \/ SplitBootloaderAck(a) \/ Lose(a)
      PROVE  Inv(H)'
  <2>1. CASE SendFails(a)
    <3>1. pc[a] = "forward" /\ Fail(a, 0) /\ UNCHANGED <<rx_ccw, slots, ring_cmd, phone>>
      BY <2>1, Zenon DEF SendFails
    <3> QED
      BY <3>1, FailingStep, Zenon
  <2>2. CASE SplitBootloaderAck(a)
    <3>1. pc[a] = "wait_completed" /\ Fail(a, 0) /\ UNCHANGED <<rx_ccw, slots, ring_cmd, phone>>
      BY <2>2, Zenon DEF SplitBootloaderAck
    <3> QED
      BY <3>1, FailingStep, Zenon
  <2>3. CASE Timeout(a)
    <3>1. pc[a] \in Waits /\ Fail(a, 0) /\ UNCHANGED <<rx_ccw, slots, ring_cmd, phone>>
      BY <2>3, Zenon DEF Timeout
    <3>2. pc[a] \notin {"display", "command", "dark"}
      BY <3>1, Zenon DEF Waits
    <3> QED
      BY <3>1, <3>2, FailingStep, Zenon
  <2>4. CASE TransferFailed(a)
    <3>1. pc[a] = "failed" /\ Fail(a, 0) /\ UNCHANGED <<rx_ccw, slots, ring_cmd, phone>>
      BY <2>4, Zenon DEF TransferFailed
    <3> QED
      BY <3>1, FailingStep, Zenon
  <2> QED
    BY <1>2, <2>1, <2>2, <2>3, <2>4, FrameStep, PollStep, CommandStep, ForwardStep,
       CommitLastStep, WaitLinkAckStep, WaitBootloaderAckStep, TransferStep, ClearedStep,
       InstallStep, RejoinStep, LoseStep, Zenon DEF Step
<1>3. CASE UNCHANGED vars
  <2>1. /\ UNCHANGED <<links, slots, ring_cmd, job, pc>>
        /\ UNCHANGED <<image, stored, phone, answers, executed>>
    BY <1>3, Zenon DEF vars
  <2>2. Content(H)'
    <3>1. Content(H) /\ job \in [Arms -> H \cup {NoMsg}]
      BY Zenon DEF Inv, Content
    <3> QED
      BY <2>1, <3>1, ContentGrows, Zenon
  <2>3. Control'
    BY <2>1, Zenon DEF Inv, Control
  <2>4. Inv(H)'
    BY <2>1, <2>2, <2>3, InvStep, Zenon
  <2> QED
    BY <2>4, Zenon
<1> QED
  BY <1>1, <1>2, <1>3, Zenon DEF Next

\* What the invariant says of a state.
LEMMA InvMeans ==
  ASSUME NEW H, Inv(H)
  PROVE  TypeOK /\ \A a \in Arms : executed[a] \subseteq executed[Last]
<1>0. Issued(H) /\ Content(H) /\ Control /\ Pictures /\ Versions /\ Outcomes
  BY Zenon DEF Inv
<1>1. H \subseteq Jobs
  BY <1>0, Zenon DEF Issued
<1>2. /\ Acks(H) \subseteq RingAcks
      /\ Commands(H) \subseteq DownMessages
      /\ Updates(H) \subseteq DownMessages
  BY <1>1, Zenon DEF Acks, Commands, Updates, DownMessages
<1>3. ASSUME NEW a \in Arms
      PROVE  /\ InRange(rx_cw[a], RingAcks \cup RingErrors \cup BootloaderAcks)
             /\ InRange(rx_ccw[a], DownMessages)
             /\ ring_ack[a] \in RingAcks \cup {NoMsg}
             /\ ring_error[a] \in RingErrors \cup {NoMsg}
             /\ ring_cmd[a] \in DownMessages \cup {NoMsg}
             /\ job[a] \in Jobs \cup {NoMsg}
  <2>1. rx_cw[a] \in Seq(Results(H)) /\ rx_ccw[a] \in Seq(Commands(H) \cup Updates(H))
    BY <1>0, Zenon DEF Content
  <2>2. /\ \A i \in 1..Len(rx_cw[a]) : rx_cw[a][i] \in Results(H)
        /\ \A i \in 1..Len(rx_ccw[a]) : rx_ccw[a][i] \in Commands(H) \cup Updates(H)
    BY <2>1
  <2>3. /\ InRange(rx_cw[a], RingAcks \cup RingErrors \cup BootloaderAcks)
        /\ InRange(rx_ccw[a], DownMessages)
    BY <1>2, <2>2 DEF InRange, Results
  <2>4. /\ ring_ack[a] \in Acks(H) \cup {NoMsg}
        /\ ring_error[a] \in RingErrors \cup {NoMsg}
        /\ ring_cmd[a] \in Commands(H) \cup {NoMsg}
        /\ job[a] \in H \cup {NoMsg}
    BY <1>0, Zenon DEF Content
  <2> QED
    BY <1>1, <1>2, <2>3, <2>4
<1>4. ASSUME NEW a \in Arms
      PROVE  (job[a] = NoMsg) = (pc[a] \in {"display", "command", "dark"})
  <2>1. (job[a] = NoMsg) <=> (pc[a] \in {"display", "command", "dark"})
    BY <1>0, Zenon DEF Control, Local
  <2> QED
    BY <2>1
<1>5. ASSUME NEW a \in Arms
      PROVE  /\ image_cmd[a] = NoMsg \/ image_cmd[a].delay \in 0..1
             /\ image_current[a] \in NoImage..(IMAGE_COUNT - 1)
             /\ {layer_files[a], blend[a]} \subseteq Mixed..jobs
  BY <1>0, Zenon DEF Pictures
<1>6. ASSUME NEW a \in Arms
      PROVE  /\ installed[a] \in 0..jobs
             /\ (snapshots[a] # NoMsg) => pc[a] = "rejoin" /\ snapshots[a] \in 0..jobs
  BY <1>0, Zenon DEF Versions
<1>7. ASSUME NEW a \in Arms
      PROVE  executed[a] \subseteq 1..jobs /\ executed[a] \subseteq executed[Last]
  BY <1>0, Zenon DEF Outcomes
<1>8. ring_next_seq \in 0..U16_MAX /\ accepted \cup rejected \subseteq 1..jobs
  BY <1>0, Zenon DEF Issued, Outcomes
<1> QED
  BY <1>3, <1>4, <1>5, <1>6, <1>7, <1>8, Zenon DEF TypeOK

\* What is where, for any number of arms, jobs and troubles: TypeOK.
THEOREM TypeCorrect == Spec => []TypeOK
<1>1. Init => \E H : Inv(H)
  BY InitInv, Zenon
<1>2. (\E H : Inv(H)) /\ [Next]_vars => (\E H : Inv(H))'
  BY StepInv, Zenon
<1>3. (\E H : Inv(H)) => TypeOK
  BY InvMeans, Zenon
<1> QED
  BY <1>1, <1>2, <1>3, PTL DEF Spec
=============================================================================
