-------------------------------- MODULE Ring --------------------------------
(***************************************************************************)
(* The ring of rotor arms of projects/persistence-of-vision/rotor.c.  Arm  *)
(* 0 is the master; the cw port of arm a is wired to the ccw port of arm   *)
(* a + 1.  The phone gives the master one job at a time: an image control, *)
(* an upload of layer files or a firmware.  A job runs down the arms and   *)
(* its answers run back; each arm commits after the arms behind it.        *)
(*                                                                         *)
(* An arm looks at its links between two images (pov_check_ring_cmd) and   *)
(* blocks inside a handler.  What it reads is a batch: any number of the   *)
(* waiting messages, each overwriting the pending slot of its type.  A     *)
(* wait expires when nothing is under way any more or, as one of the       *)
(* MaxTroubles, although the answer is still on its way.                   *)
(***************************************************************************)
EXTENDS Integers, Sequences, FiniteSets

CONSTANTS
  POV_ARM_COUNT,
  IMAGE_COUNT,   \* images on every arm
  Kinds,         \* jobs the phone sends, of "image", "file", "firmware"
  Controls,      \* image controls the phone sends
  FirstSeq,      \* ring_next_seq when the model starts, a u16
  MaxJobs,       \* bound: jobs of the phone
  MaxTroubles,   \* bound: messages lost, waits that expire before the answer
                 \* arrives, and transfers, reloads, sends or installations
                 \* that fail, all together
  NoMsg

U16_MAX == 65535
Actions == [type : {"REPLAY", "NEXT", "PREVIOUS"}]
             \cup [type : {"PLAY_INDEX"}, index : 0..(IMAGE_COUNT - 1)]

ASSUME RingAssumption ==
  /\ POV_ARM_COUNT \in Nat /\ POV_ARM_COUNT >= 2
  /\ IMAGE_COUNT \in Nat \ {0}
  /\ Kinds \subseteq {"image", "file", "firmware"}
  /\ Controls \subseteq Actions
  /\ FirstSeq \in 0..U16_MAX
  /\ {MaxJobs, MaxTroubles} \subseteq Nat
  /\ MaxJobs < U16_MAX

VARIABLES
  rx_cw, rx_ccw,                   \* messages waiting at the ports of an arm
  ring_ack, ring_error,            \* pending slots of ring_cw_mavlink
  ring_cmd,                        \* pending slot of ring_ccw_mavlink
  pc, job,                         \* where an arm is, and in which job
  image_cmd, image_current,
  layer_files, blend,              \* the upload an arm has stored, and shows
  installed,                       \* the firmware an arm runs
  snapshots, undone,               \* the firmware before it, kept while an arm
                                   \* installs; one was put back by another arm
  ring_next_seq,
  jobs, accepted, rejected,        \* jobs started, and their answer to the phone
  executed,                        \* image jobs an arm has executed
  losses, late, faults,
  quiet, disturbed,                \* the last job began in a quiet ring; met a fault since
  spaced                           \* no job began while an image command was pending

links == <<rx_cw, rx_ccw>>
slots == <<ring_ack, ring_error>>
image == <<image_cmd, image_current>>
firmware == <<installed, snapshots, undone>>
stored == <<layer_files, blend, firmware>>
phone == <<ring_next_seq, jobs, quiet, spaced>>
answers == <<accepted, rejected>>
disturbance == <<losses, late, faults, disturbed>>
vars == <<links, slots, ring_cmd, pc, job, image, stored, phone, answers,
          executed, disturbance>>

Arms == 0..(POV_ARM_COUNT - 1)
Last == POV_ARM_COUNT - 1
POV_RING_IMAGE_APPLY_DELAY_FRAMES == 2
NoImage == -1      \* image_file is closed: display_image fails from now on
Mixed == -1        \* a layer directory with files of two uploads

-----------------------------------------------------------------------------
RingCmd(j) == [type |-> "RING_CMD", job |-> j]
RingAck(seq, node, result) ==
  [type |-> "RING_ACK", seq |-> seq, node |-> node, result |-> result]
RingError(seq) == [type |-> "RING_ERROR", seq |-> seq]
BootloaderUpdateCmd(j) == [type |-> "BOOTLOADER_UPDATE_CMD", job |-> j]
BootloaderAck(result) == [type |-> "BOOTLOADER_ACK", result |-> result]

Jobs == [kind : Kinds, id : 1..MaxJobs, seq : 0..U16_MAX, action : Actions \cup {NoMsg}]
DownMessages == [type : {"RING_CMD", "BOOTLOADER_UPDATE_CMD"}, job : Jobs]
RingAcks == [type : {"RING_ACK"}, seq : 1..U16_MAX, node : 1..Last, result : {"READY", "OK"}]
RingErrors == [type : {"RING_ERROR"}, seq : 1..U16_MAX]
BootloaderAcks == [type : {"BOOTLOADER_ACK"}, result : {"ACCEPTED", "COMPLETED", "ERROR"}]
ImageCmds == [action : Actions, delay : 0..POV_RING_IMAGE_APPLY_DELAY_FRAMES]

\* An empty slot is told from whatever a slot holds.
ASSUME NoMsgAssumption ==
  NoMsg \notin Int \cup Jobs \cup DownMessages \cup RingAcks \cup RingErrors \cup ImageCmds

\* mavlink_receive_and_process: the batch p overwrites the slot of each type,
\* so that a slot holds the latest message of its type.  Received has that one
\* message as its element.
OfType(p, type) == {i \in 1..Len(p) : p[i].type = type}
Latest(S) == {i \in S : \A k \in S : k <= i}
Received(slot, p, type) ==
  IF OfType(p, type) = {} THEN {slot} ELSE {p[i] : i \in Latest(OfType(p, type))}
Batch(q, n) == SubSeq(q, 1, n)
Rest(q, n) == SubSeq(q, n + 1, Len(q))

\* Arm a takes n messages from its cw port and answers on its ccw port.
TakeAndReply(a, n, msgs) ==
  rx_cw' = [b \in Arms |-> CASE b = a -> Rest(rx_cw[b], n)
                             [] b = a - 1 -> rx_cw[b] \o msgs
                             [] OTHER -> rx_cw[b]]
SendDown(a, m) == rx_ccw' = [rx_ccw EXCEPT ![a + 1] = Append(@, m)]

\* pov_ring_send_cmd_and_wait, pov_ring_transfer_files: 0 is skipped.
NextSeq_Zero == (ring_next_seq + 1) % (U16_MAX + 1)
NextSeq == IF ring_next_seq = U16_MAX THEN 1 ELSE ring_next_seq + 1

-----------------------------------------------------------------------------
(***************************************************************************)
(* Image playback: pov_handle_end_of_image.                                *)
(***************************************************************************)
Shown(action, current) ==
  CASE action.type = "REPLAY" -> current
    [] action.type = "NEXT" -> (current + 1) % IMAGE_COUNT
    [] action.type = "PREVIOUS" -> IF current = 0 THEN IMAGE_COUNT - 1 ELSE current - 1
    [] action.type = "PLAY_INDEX" -> action.index

ImageCmd(action, delay) == [action |-> action, delay |-> delay]
Replay == ImageCmd([type |-> "REPLAY"], 0)
Delayed(cmd) == cmd # NoMsg /\ cmd.delay > 0

EndOfImage(a, cmd, current) ==
  /\ image_cmd' = [image_cmd EXCEPT ![a] =
       IF Delayed(cmd) THEN [cmd EXCEPT !.delay = @ - 1] ELSE NoMsg]
  /\ image_current' = [image_current EXCEPT ![a] =
       IF cmd = NoMsg \/ Delayed(cmd) THEN current ELSE Shown(cmd.action, current)]

\* The end of a handler: the next pending command of the same poll if there is
\* one, else the end of the image and the next frame.
Leave(a, cmd, current) ==
  /\ job' = [job EXCEPT ![a] = NoMsg]
  /\ IF ring_cmd[a] # NoMsg
     THEN /\ pc' = [pc EXCEPT ![a] = "command"]
          /\ image_cmd' = [image_cmd EXCEPT ![a] = cmd]
          /\ image_current' = [image_current EXCEPT ![a] = current]
     ELSE /\ pc' = [pc EXCEPT ![a] = "display"]
          /\ EndOfImage(a, cmd, current)

Frame(a) ==
  /\ a = 0
  /\ pc[a] = "display"
  /\ image_cmd[a] # NoMsg
  /\ EndOfImage(a, image_cmd[a], image_current[a])
  /\ UNCHANGED <<links, slots, ring_cmd, pc, job, stored, phone, answers,
                 executed, disturbance>>

-----------------------------------------------------------------------------
(***************************************************************************)
(* How a job fails and how an arm commits it.                              *)
(***************************************************************************)
Spared == losses + late + faults < MaxTroubles
Fault == Spared /\ faults' = faults + 1 /\ disturbed' = TRUE
NoFault == UNCHANGED <<faults, disturbed>>

Refusal(j) ==
  IF j.kind = "firmware" THEN BootloaderAck("ERROR") ELSE RingError(j.seq)

\* pov_fake_firmware_transaction_finish is for the snapshots of all arms.
Finish(rollback) ==
  /\ installed' = [b \in Arms |-> IF rollback /\ snapshots[b] # NoMsg THEN snapshots[b]
                                                                   ELSE installed[b]]
  /\ snapshots' = [b \in Arms |-> NoMsg]
  /\ undone' = (undone \/ installed' # installed)

\* The master reports to the phone; after a rejected upload or firmware it
\* replays its image, whatever image command was pending.
Fail(a, n) ==
  /\ TakeAndReply(a, n, <<Refusal(job[a])>>)
  /\ rejected' = IF a = 0 THEN rejected \cup {job[a].id} ELSE rejected
  /\ Leave(a, IF a = 0 /\ job[a].kind # "image" THEN Replay ELSE image_cmd[a],
           image_current[a])
  /\ IF job[a].kind = "firmware" THEN Finish(TRUE) ELSE UNCHANGED firmware
  /\ UNCHANGED <<layer_files, blend, accepted, executed>>

Accept(a) == accepted' = IF a = 0 THEN accepted \cup {job[a].id} ELSE accepted

\* pov_ring_execute_cmd, and the acknowledgement of the last arm's node.
Execute(a, n) ==
  /\ job[a].kind = "image"
  /\ executed' = [executed EXCEPT ![a] = @ \cup {job[a].id}]
  /\ TakeAndReply(a, n, <<RingAck(job[a].seq, Last, "OK")>>)
  /\ Accept(a)
  /\ Leave(a, ImageCmd(job[a].action, POV_RING_IMAGE_APPLY_DELAY_FRAMES),
           image_current[a])
  /\ NoFault
  /\ UNCHANGED <<stored, rejected>>

\* pov_reload_images_after_update.  The image is closed first, so a failure
\* leaves an arm that cannot display and never gets to its links again.
Reload(a, n) ==
  /\ job[a].kind = "file"
  /\ \/ /\ blend' = [blend EXCEPT ![a] = layer_files[a]]
        /\ TakeAndReply(a, n, <<RingAck(job[a].seq, Last, "OK")>>)
        /\ Accept(a)
        /\ IF a = 0
           THEN /\ pc' = [pc EXCEPT ![a] = "display"]
                /\ job' = [job EXCEPT ![a] = NoMsg]
                /\ image_current' = [image_current EXCEPT ![a] = 0]
                /\ UNCHANGED image_cmd
           ELSE Leave(a, image_cmd[a], 0)
        /\ NoFault
        /\ UNCHANGED rejected
     \/ /\ Fault
        /\ TakeAndReply(a, n, <<RingError(job[a].seq)>>)
        /\ rejected' = IF a = 0 THEN rejected \cup {job[a].id} ELSE rejected
        /\ pc' = [pc EXCEPT ![a] = "dark"]
        /\ job' = [job EXCEPT ![a] = NoMsg]
        /\ image_current' = [image_current EXCEPT ![a] = NoImage]
        /\ UNCHANGED <<blend, accepted, image_cmd>>
  /\ UNCHANGED <<layer_files, firmware, executed>>

Commit(a, n) == Execute(a, n) \/ Reload(a, n)

\* pov_update_firmware of the simulation: the bootloader runs in place and the
\* arm lives on to answer.  When another arm fails in between, its roll-back
\* takes the new firmware away and the arm answers COMPLETED all the same.
Install(a) ==
  /\ pc[a] = "install"
  /\ \/ /\ installed' = [installed EXCEPT ![a] = job[a].id]
        /\ snapshots' = [snapshots EXCEPT ![a] = installed[a]]
        /\ pc' = [pc EXCEPT ![a] = "rejoin"]
        /\ NoFault
        /\ UNCHANGED <<rx_cw, job, image, layer_files, blend, undone, answers, executed>>
     \/ /\ Fail(a, 0)
        /\ Fault
  /\ UNCHANGED <<rx_ccw, slots, ring_cmd, phone, losses, late>>

Rejoin(a) ==
  /\ pc[a] = "rejoin"
  /\ Finish(FALSE)
  /\ TakeAndReply(a, 0, <<BootloaderAck("COMPLETED")>>)
  /\ Accept(a)
  /\ Leave(a, IF a = 0 THEN Replay ELSE image_cmd[a], image_current[a])
  /\ UNCHANGED <<rx_ccw, slots, ring_cmd, layer_files, blend, phone, rejected,
                 executed, disturbance>>

-----------------------------------------------------------------------------
(***************************************************************************)
(* Starting a job, and taking one from the link.                           *)
(***************************************************************************)
Idle(a) == pc[a] \in {"display", "dark"}

\* The messages or the handlers of the arms behind a have not come to an end.
Underway(a) ==
  \E b \in (a + 1)..Last :
    \/ ~Idle(b)
    \/ rx_ccw[b] # << >> /\ pc[b] # "dark"
    \/ rx_cw[b - 1] # << >>

\* pov_check_phone_cmd and pov_bootloader_update_flow.  The firmware has no
\* sequence number, so answers left over on the master's link disturb it.
Start(kind, action) ==
  /\ pc[0] = "display"
  /\ jobs < MaxJobs
  /\ jobs' = jobs + 1
  /\ job' = [job EXCEPT ![0] = [kind |-> kind, id |-> jobs + 1, action |-> action,
                               seq |-> IF kind = "firmware" THEN 0 ELSE NextSeq]]
  /\ ring_next_seq' = IF kind = "firmware" THEN ring_next_seq ELSE NextSeq
  /\ layer_files' = IF kind = "file" THEN [layer_files EXCEPT ![0] = jobs + 1]
                                     ELSE layer_files
  /\ pc' = [pc EXCEPT ![0] = "forward"]
  /\ disturbed' = FALSE
  /\ quiet' = /\ kind = "firmware" => rx_cw[0] = << >>
              /\ \A a \in 1..Last : pc[a] = "display" /\ rx_ccw[a] = << >>
              /\ \A a \in 1..(Last - 1) : rx_cw[a] = << >>
  /\ spaced' = (spaced /\ \A a \in Arms : image_cmd[a] = NoMsg)
  /\ UNCHANGED <<links, slots, ring_cmd, image, blend, firmware, answers,
                 executed, losses, late, faults>>

\* pov_ring_poll: results nobody waits for go on towards the master, a READY
\* is dropped, and a firmware is acknowledged while it is parsed.
Strays(err, ack) ==
  (IF err # NoMsg THEN <<err>> ELSE << >>)
    \o (IF ack # NoMsg /\ ack.result # "READY" THEN <<ack>> ELSE << >>)

Poll(a) ==
  /\ a # 0
  /\ pc[a] = "display"
  /\ \E n \in 0..Len(rx_cw[a]), k \in 0..Len(rx_ccw[a]) :
       LET p == Batch(rx_cw[a], n)
           q == Batch(rx_ccw[a], k)
           updates == OfType(q, "BOOTLOADER_UPDATE_CMD")
       IN
       \E err \in Received(ring_error[a], p, "RING_ERROR"),
          ack \in Received(ring_ack[a], p, "RING_ACK"),
          cmd \in Received(NoMsg, q, "RING_CMD") :
       /\ n + k > 0 \/ {image_cmd[a], ring_error[a], ring_ack[a]} # {NoMsg}
       /\ \E m \in 0..k :
            /\ m = Cardinality(updates)
            /\ TakeAndReply(a, n, Strays(err, ack) \o [i \in 1..m |-> BootloaderAck("ACCEPTED")])
       /\ rx_ccw' = [rx_ccw EXCEPT ![a] = Rest(@, k)]
       /\ ring_error' = [ring_error EXCEPT ![a] = NoMsg]
       /\ ring_ack' = [ring_ack EXCEPT ![a] = NoMsg]
       /\ ring_cmd' = [ring_cmd EXCEPT ![a] = cmd]
       /\ \/ /\ pc' = [pc EXCEPT ![a] = "rz"]
             /\ \E i \in Latest(updates) : job' = [job EXCEPT ![a] = q[i].job]
             /\ UNCHANGED image
          \/ /\ updates = {}
             /\ cmd # NoMsg
             /\ pc' = [pc EXCEPT ![a] = "command"]
             /\ UNCHANGED <<job, image>>
          \/ /\ updates = {}
             /\ cmd = NoMsg
             /\ EndOfImage(a, image_cmd[a], image_current[a])
             /\ UNCHANGED <<pc, job>>
  /\ UNCHANGED <<stored, phone, answers, executed, disturbance>>

\* pov_ring_handle_cmd up to where it blocks.
Command(a) ==
  /\ pc[a] = "command"
  /\ LET j == ring_cmd[a].job IN
     /\ job' = [job EXCEPT ![a] = j]
     /\ \/ /\ j.kind = "file"
           /\ TakeAndReply(a, 0, <<RingAck(j.seq, a, "READY")>>)
           /\ pc' = [pc EXCEPT ![a] = "rz"]
        \/ /\ j.kind = "image"
           /\ pc' = [pc EXCEPT ![a] = IF a = Last THEN "commit" ELSE "forward"]
           /\ UNCHANGED rx_cw
  /\ ring_cmd' = [ring_cmd EXCEPT ![a] = NoMsg]
  /\ UNCHANGED <<rx_ccw, slots, image, stored, phone, answers, executed, disturbance>>

\* pov_ring_forward_cmd and the sends of the master: old results are cleared.
Forward(a) ==
  /\ pc[a] = "forward"
  /\ \/ /\ job[a].kind = "firmware"
        /\ SendDown(a, BootloaderUpdateCmd(job[a]))
        /\ pc' = [pc EXCEPT ![a] = "wait_accepted"]
        /\ UNCHANGED slots
     \/ /\ job[a].kind # "firmware"
        /\ SendDown(a, RingCmd(job[a]))
        /\ pc' = [pc EXCEPT ![a] = IF job[a].kind = "file" THEN "wait_ready" ELSE "wait_ok"]
        /\ ring_ack' = [ring_ack EXCEPT ![a] = NoMsg]
        /\ ring_error' = [ring_error EXCEPT ![a] = NoMsg]
  /\ UNCHANGED <<rx_cw, ring_cmd, job, image, stored, phone, answers, executed, disturbance>>

SendFails(a) ==
  /\ pc[a] = "forward"
  /\ Fault
  /\ Fail(a, 0)
  /\ UNCHANGED <<rx_ccw, slots, ring_cmd, phone, losses, late>>

CommitLast(a) ==
  /\ pc[a] = "commit"
  /\ Commit(a, 0)
  /\ UNCHANGED <<rx_ccw, slots, ring_cmd, phone, losses, late>>

-----------------------------------------------------------------------------
(***************************************************************************)
(* Waiting for the arm behind.                                             *)
(***************************************************************************)
\* pov_ring_wait_link_ack and pov_ring_wait_result: one turn of the loop.
Answers_AnySeq(m, seq) == m # NoMsg
Answers(m, seq) == m # NoMsg /\ m.seq = seq

WaitLinkAck(a) ==
  /\ pc[a] \in {"wait_ready", "wait_ok"}
  /\ \E n \in 0..Len(rx_cw[a]) :
       \E err \in Received(ring_error[a], Batch(rx_cw[a], n), "RING_ERROR"),
          ack \in Received(ring_ack[a], Batch(rx_cw[a], n), "RING_ACK") :
       LET refused == Answers(err, job[a].seq)
           acked == ~refused /\ Answers(ack, job[a].seq)
           good == /\ acked
                   /\ <<ack.result, ack.node>> = IF pc[a] = "wait_ready" THEN <<"READY", a + 1>>
                                                                         ELSE <<"OK", Last>>
       IN
       /\ n > 0 \/ refused \/ acked
       /\ ring_error' = [ring_error EXCEPT ![a] = IF refused THEN NoMsg ELSE err]
       /\ ring_ack' = [ring_ack EXCEPT ![a] = IF acked THEN NoMsg ELSE ack]
       /\ \/ /\ ~refused /\ ~good
             /\ TakeAndReply(a, n, << >>)
             /\ NoFault
             /\ UNCHANGED <<pc, job, image, stored, answers, executed>>
          \/ /\ refused
             /\ Fail(a, n)
             /\ NoFault
          \/ /\ good
             /\ pc[a] = "wait_ready"
             /\ TakeAndReply(a, n, << >>)
             /\ pc' = [pc EXCEPT ![a] = "sz"]
             /\ NoFault
             /\ UNCHANGED <<job, image, stored, answers, executed>>
          \/ /\ good
             /\ pc[a] = "wait_ok"
             /\ Commit(a, n)
  /\ UNCHANGED <<rx_ccw, ring_cmd, phone, losses, late>>

\* mavlink_send_bootloader_update and mavlink_wait_bootloader_ack: only the
\* last message of a batch counts, and it is believed whatever update it is
\* about.  The second looks at the last message even when the bytes it has read
\* complete none: then that is still the acceptance.
WaitBootloaderAck(a) ==
  /\ pc[a] \in {"wait_accepted", "wait_completed"}
  /\ \E n \in 1..Len(rx_cw[a]) :
       LET p == Batch(rx_cw[a], n)
           isAck == p[n].type = "BOOTLOADER_ACK"
           expected == IF pc[a] = "wait_accepted" THEN "ACCEPTED" ELSE "COMPLETED"
           bad == isAck /\ p[n].result # expected
       IN
       /\ \E err \in Received(ring_error[a], p, "RING_ERROR"),
             ack \in Received(ring_ack[a], p, "RING_ACK") :
            /\ ring_error' = [ring_error EXCEPT ![a] = err]
            /\ ring_ack' = [ring_ack EXCEPT ![a] = ack]
       /\ \/ /\ bad
             /\ Fail(a, n)
          \/ /\ ~bad
             /\ TakeAndReply(a, n, << >>)
             /\ pc' = [pc EXCEPT ![a] = IF ~isAck THEN @
                                        ELSE IF @ = "wait_accepted" THEN "sz"
                                        ELSE "install"]
             /\ UNCHANGED <<job, image, stored, answers, executed>>
  /\ UNCHANGED <<rx_ccw, ring_cmd, phone, disturbance>>

SplitBootloaderAck(a) ==
  /\ pc[a] = "wait_completed"
  /\ rx_cw[a] # << >>
  /\ Fault
  /\ Fail(a, 0)
  /\ UNCHANGED <<rx_ccw, slots, ring_cmd, phone, losses, late>>

Waits == {"wait_ready", "wait_ok", "wait_accepted", "wait_completed"}
TooEarly == Spared /\ late' = late + 1 /\ disturbed' = TRUE
Timeout(a) ==
  /\ pc[a] \in Waits
  /\ IF Underway(a) THEN TooEarly ELSE UNCHANGED <<late, disturbed>>
  /\ Fail(a, 0)
  /\ UNCHANGED <<rx_ccw, slots, ring_cmd, phone, losses, faults>>

-----------------------------------------------------------------------------
(***************************************************************************)
(* lrzsz_sz on arm a and lrzsz_rz on arm a + 1.  They take every byte that *)
(* is on the link.  Files are whatever the sender sends; a firmware is     *)
(* refused unless it has the announced size.                               *)
(***************************************************************************)
Sent_NoWait(a) == IF job[a].kind = "file" THEN "wait_ok" ELSE "install"
Sent(a) == IF job[a].kind = "file" THEN "wait_ok" ELSE "wait_completed"
Got(a) == IF a # Last THEN "forward"
          ELSE IF job[a].kind = "file" THEN "commit"
          ELSE "install"
SizeMatches(a) == job[a + 1].kind = "firmware" => job[a].id = job[a + 1].id
Store_Kept(a, upload) == UNCHANGED layer_files
Store(a, upload) ==
  layer_files' = IF job[a].kind = "file" /\ job[a + 1].kind = "file"
                 THEN [layer_files EXCEPT ![a + 1] = upload]
                 ELSE layer_files

Transfer(a) ==
  /\ a # Last
  /\ pc[a] = "sz"
  /\ pc[a + 1] = "rz"
  /\ rx_cw' = [rx_cw EXCEPT ![a] = << >>]
  /\ rx_ccw' = [rx_ccw EXCEPT ![a + 1] = << >>]
  /\ \/ /\ pc' = [pc EXCEPT ![a] = Sent(a),
                            ![a + 1] = IF SizeMatches(a) THEN Got(a + 1) ELSE "failed"]
        /\ Store(a, layer_files[a])
        /\ NoFault
     \/ /\ Fault
        /\ \E s \in {Sent(a), "failed"}, r \in {Got(a + 1), "failed"} :
             /\ s = "failed" \/ r = "failed"
             /\ r = "failed" \/ SizeMatches(a)
             /\ pc' = [pc EXCEPT ![a] = s, ![a + 1] = r]
        /\ \E upload \in {layer_files[a], layer_files[a + 1], Mixed} : Store(a, upload)
  /\ UNCHANGED <<slots, ring_cmd, job, image, blend, firmware, phone, answers,
                 executed, losses, late>>

SendTimeout(a) ==
  /\ a # Last
  /\ pc[a] = "sz"
  /\ pc[a + 1] # "rz"
  /\ rx_cw' = [rx_cw EXCEPT ![a] = << >>]
  /\ pc' = [pc EXCEPT ![a] = "failed"]
  /\ UNCHANGED <<rx_ccw, slots, ring_cmd, job, image, stored, phone, answers,
                 executed, disturbance>>

ReceiveTimeout(a) ==
  /\ a # 0
  /\ pc[a] = "rz"
  /\ pc[a - 1] # "sz"
  /\ IF pc[a - 1] \in {"wait_ready", "wait_accepted"} /\ rx_cw[a - 1] # << >>
     THEN TooEarly
     ELSE UNCHANGED <<late, disturbed>>
  /\ rx_ccw' = [rx_ccw EXCEPT ![a] = << >>]
  /\ pc' = [pc EXCEPT ![a] = "failed"]
  /\ UNCHANGED <<rx_cw, slots, ring_cmd, job, image, stored, phone, answers,
                 executed, losses, faults>>

TransferFailed(a) ==
  /\ pc[a] = "failed"
  /\ Fail(a, 0)
  /\ UNCHANGED <<rx_ccw, slots, ring_cmd, phone, disturbance>>

-----------------------------------------------------------------------------
\* A frame is lost or arrives with a bad checksum.
Without(q, i) == SubSeq(q, 1, i - 1) \o SubSeq(q, i + 1, Len(q))
Lose(a) ==
  /\ Spared
  /\ losses' = losses + 1
  /\ disturbed' = TRUE
  /\ \/ /\ \E i \in 1..Len(rx_cw[a]) : rx_cw' = [rx_cw EXCEPT ![a] = Without(@, i)]
        /\ UNCHANGED rx_ccw
     \/ /\ \E i \in 1..Len(rx_ccw[a]) : rx_ccw' = [rx_ccw EXCEPT ![a] = Without(@, i)]
        /\ UNCHANGED rx_cw
  /\ UNCHANGED <<slots, ring_cmd, pc, job, image, stored, phone, answers,
                 executed, late, faults>>

Init ==
  /\ rx_cw = [a \in Arms |-> << >>]
  /\ rx_ccw = [a \in Arms |-> << >>]
  /\ ring_ack = [a \in Arms |-> NoMsg]
  /\ ring_error = [a \in Arms |-> NoMsg]
  /\ ring_cmd = [a \in Arms |-> NoMsg]
  /\ pc = [a \in Arms |-> "display"]
  /\ job = [a \in Arms |-> NoMsg]
  /\ image_cmd = [a \in Arms |-> NoMsg]
  /\ image_current = [a \in Arms |-> 0]
  /\ layer_files = [a \in Arms |-> 0]
  /\ blend = [a \in Arms |-> 0]
  /\ installed = [a \in Arms |-> 0]
  /\ snapshots = [a \in Arms |-> NoMsg]
  /\ undone = FALSE
  /\ ring_next_seq = FirstSeq
  /\ jobs = 0
  /\ accepted = {}
  /\ rejected = {}
  /\ executed = [a \in Arms |-> {}]
  /\ losses = 0
  /\ late = 0
  /\ faults = 0
  /\ quiet = TRUE
  /\ disturbed = FALSE
  /\ spaced = TRUE

Request ==
  \/ "image" \in Kinds /\ \E action \in Controls : Start("image", action)
  \/ \E kind \in Kinds \ {"image"} : Start(kind, NoMsg)

Step(a) ==
  \/ Frame(a) \/ Poll(a) \/ Command(a) \/ Forward(a) \/ CommitLast(a)
  \/ WaitLinkAck(a) \/ WaitBootloaderAck(a) \/ Timeout(a)
  \/ Transfer(a) \/ SendTimeout(a) \/ ReceiveTimeout(a) \/ TransferFailed(a)
  \/ Install(a) \/ Rejoin(a)

Next ==
  \/ Request
  \/ \E a \in Arms : Step(a) \/ SendFails(a) \/ SplitBootloaderAck(a) \/ Lose(a)

Spec == Init /\ [][Next]_vars
\* Every arm runs its loop and its waits are over some time: the clock runs.
FairSpec == Spec /\ \A a \in Arms : WF_vars(Step(a))

-----------------------------------------------------------------------------
(***************************************************************************)
(* Properties.                                                             *)
(***************************************************************************)
InRange(q, S) == \A i \in 1..Len(q) : q[i] \in S

\* What is where: commands run down, results run up, slots hold their own type,
\* and an arm has a job exactly while it is in a handler.
TypeOK ==
  /\ \A a \in Arms :
       /\ InRange(rx_cw[a], RingAcks \cup RingErrors \cup BootloaderAcks)
       /\ InRange(rx_ccw[a], DownMessages)
       /\ ring_ack[a] \in RingAcks \cup {NoMsg}
       /\ ring_error[a] \in RingErrors \cup {NoMsg}
       /\ ring_cmd[a] \in DownMessages \cup {NoMsg}
       /\ job[a] \in Jobs \cup {NoMsg}
       /\ (job[a] = NoMsg) = (pc[a] \in {"display", "command", "dark"})
       /\ image_cmd[a] = NoMsg \/ image_cmd[a].delay \in 0..1
       /\ image_current[a] \in NoImage..(IMAGE_COUNT - 1)
       /\ {layer_files[a], blend[a]} \subseteq Mixed..jobs
       /\ installed[a] \in 0..jobs
       /\ (snapshots[a] # NoMsg) => pc[a] = "rejoin" /\ snapshots[a] \in 0..jobs
       /\ executed[a] \subseteq 1..jobs
  /\ ring_next_seq \in 0..U16_MAX
  /\ accepted \cup rejected \subseteq 1..jobs

\* Arm a has done what the job asks for.
Done(a, j) ==
  CASE j.kind = "image" -> j.id \in executed[a]
    [] j.kind = "file" -> blend[a] = j.id
    [] j.kind = "firmware" -> installed[a] = j.id

\* What the phone is told: when the master accepts a job, every arm has done it
\* (the answers of pov_check_phone_cmd and pov_bootloader_update_flow), also when
\* waits expire too early and arms fail.  It takes a ring that was quiet and no
\* loss: when the error of an arm is lost, or is overwritten in the slot of the
\* master by one of an earlier job, the late acknowledgement of the arm behind it
\* that pov_ring_handle_ack passes on counts for the whole ring.
AcceptedMeansDone ==
  [][accepted' # accepted /\ quiet /\ losses = 0
       => \A j \in {job[0]}, a \in Arms : Done(a, j)']_vars

\* An arm executes an image command only after the last arm did, and installs a
\* firmware only after the arm behind it (pov_ring_handle_cmd,
\* pov_ring_handle_bootloader_cmd): a job that fails half way leaves no arm ahead
\* of the ones it waited for, since an arm that fails takes back nothing the arms
\* behind it have completed.  Of an image command not every arm in between need
\* have executed it: with four arms, the error of a middle one can be lost and
\* the answer of the last one still reach the arm in front.  For a firmware the
\* one way out is an arm that fails while one behind it is between installing
\* and answering (pov_fake_firmware_transaction_finish).
CommittedFromTheEnd ==
  \A a \in Arms \ {Last} :
    /\ executed[a] \subseteq executed[Last]
    /\ ~undone => installed[a] <= installed[a + 1]

\* The ring recovers: a job that finds the links quiet and meets no fault is
\* accepted, whatever earlier jobs left in the slots of the arms and, unless it
\* is a firmware, in the receive buffer of the master.
UndisturbedSucceeds ==
  [][rejected' # rejected => disturbed' \/ ~quiet]_vars

\* Nothing is on the links and no image command is waiting for its frame.
Settled ==
  \A a \in Arms : /\ pc[a] = "display"
                  /\ rx_cw[a] = << >> /\ rx_ccw[a] = << >>
                  /\ image_cmd[a] = NoMsg

\* All arms show the same image: pov_handle_end_of_image counts the frames of
\* each arm on its own, so this takes jobs that were not sent while an image
\* command was waiting.
ArmsAgree ==
  Settled /\ spaced /\ losses + late + faults = 0
    => \A a \in Arms : image_current[a] = image_current[0] /\ blend[a] = blend[0]

=============================================================================
