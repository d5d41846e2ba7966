------------------------------ MODULE MotorLink ------------------------------
(***************************************************************************)
(* The stator (projects/persistence-of-vision/stator.c), which drives the  *)
(* motor, and the master rotor arm (rotor.c), which commands it over a     *)
(* serial link with MAVLink messages (drivers/kinetis/mavlink.c).  Each    *)
(* side watches the messages of the other; a stator that hears nothing     *)
(* stops the motor.                                                        *)
(*                                                                         *)
(* Each side is one thread.  A stator step is one call of pov_stator_fsm   *)
(* or of a tim_task callback; a rotor step is one pass of its main loop,   *)
(* or of the loop inside set_motor_speed and the mavlink request functions.*)
(* Time is discrete.  Tick waits until everything that polls faster than a *)
(* tick has run, so ages count ticks and not scheduling accidents.         *)
(*                                                                         *)
(* Data: speeds are 0 or RPM; an age stops counting once past the largest  *)
(* value the code compares it with.                                        *)
(***************************************************************************)
EXTENDS Integers, Sequences, FiniteSets

CONSTANTS
  Interval,   \* POV_HEARTBEAT_INTERVAL_MS, in ticks
  Retries,    \* POV_SPEED_QUERY_RETRIES
  Room,       \* bound: messages a receive ring holds
  MaxFaults,  \* bound: lost messages, late replies, resets and read errors
  MaxJobs,    \* bound: phone commands that concern the motor link
  MaxTroubles \* bound: faults and commands together

ASSUME BoundsAssumption ==
  /\ Interval \in Nat \ {0}
  /\ Retries \in Nat \ {0}
  /\ Room \in Nat \ {0}
  /\ MaxFaults \in Nat
  /\ MaxJobs \in Nat
  /\ MaxTroubles \in Nat

VARIABLES
  \* the stator
  state, relay, target_speed, pwm, rotor_heartbeat_paused,
  silence,    \* age of last_rotor_heartbeat_ms
  beat,       \* age of the last run of heartbeat_task
  stator_rx,  \* MAVLink messages in the receive ring of the stator
  \* the master rotor
  fsm, pc, query_count, sys_status,
  unsent,     \* age of last_send_stator_heartbeat
  unheard,    \* age of last_recv_stator_heartbeat
  rotor_rx,   \* MAVLink messages in the receive ring of the rotor
  \* the world
  speed,      \* what the motor does
  due,        \* pollers that still have to run in this tick
  quiet,      \* history: age of the last message the rotor sent
  faults, jobs

stator == <<state, relay, target_speed, pwm, rotor_heartbeat_paused,
            silence, beat, stator_rx>>
rotor == <<fsm, pc, query_count, sys_status, unsent, unheard, rotor_rx>>
world == <<speed, due, quiet, faults, jobs>>
vars == <<stator, rotor, world>>

RPM == 1       \* POV_TARGET_RPM
Timeout == 2 * Interval

StatorStates == {"INIT", "TUNING_MOTOR", "WAIT_ROTOR", "ACTIVE", "SAFE_STOP",
                 "ENTER_BOOTLOADER", "BOOTLOADER"}
RotorStates == {"STARTUP", "WAIT_MOTOR", "SEND_SPEED", "DISPLAYING",
                "CHECK_CMD", "TRANSFER", "STATOR_UPDATE", "ERROR", "DEAD"}
Heartbeats == {"HB_ACTIVE", "HB_STANDBY"}
Control(rpm) == IF rpm = RPM THEN "CONTROL_RPM" ELSE "CONTROL_0"
Controls == {Control(0), Control(RPM)}
Status(rpm) == IF rpm = RPM THEN "STATUS_RPM" ELSE "STATUS_0"
ToStator == Heartbeats \cup Controls \cup {"QUERY", "BL_UPDATE"}
ToRotor == {"HB_ACTIVE", "MOTOR_ACK", "BL_ACK", Status(0), Status(RPM)}

Older(age, most) == IF age < most THEN age + 1 ELSE most

\* The port of the stator receives from the end of tuning on, and the
\* command and heartbeat tasks are in the task list from then on.
Listening == state \in {"WAIT_ROTOR", "ACTIVE", "SAFE_STOP", "ENTER_BOOTLOADER"}

\* waiting_for_motor_connection switches the receiver of the rotor on,
\* error_occurred switches it off.
Hearing == fsm \notin {"DEAD", "STARTUP"} /\ pc # "rx_off"

\* The rotor is inside a call that takes as long as it takes: the speed test
\* before the main loop, a ZMODEM transfer, a firmware update.
Blocked == \/ fsm \in {"DEAD", "STARTUP", "TRANSFER"}
           \/ fsm = "STATOR_UPDATE" /\ pc \in {"run", "flashing"}

\* As in SequencesExt, of which the link needs no more than this.
Last(ring) == ring[Len(ring)]
RemoveAt(ring, k) == SubSeq(ring, 1, k - 1) \o SubSeq(ring, k + 1, Len(ring))

Received(ring, msgs) ==
  LET all == ring \o msgs
  IN  IF Len(all) <= Room THEN all ELSE SubSeq(all, 1, Room)

\* The rotor sends msgs; what reaches a stator that does not listen is lost.
RotorSends(msgs) ==
  IF msgs = << >>
    THEN UNCHANGED <<stator_rx, quiet>>
    ELSE /\ stator_rx' = IF Listening THEN Received(stator_rx, msgs) ELSE stator_rx
         /\ quiet' = 0

StatorSends(msgs) ==
  rotor_rx' = IF Hearing THEN Received(rotor_rx, msgs) ELSE rotor_rx

Spared == faults + jobs < MaxTroubles
Fault == Spared /\ faults < MaxFaults /\ faults' = faults + 1
NoFault == UNCHANGED faults
Job == Spared /\ jobs < MaxJobs /\ jobs' = jobs + 1

Init ==
  /\ state = "INIT"
  /\ relay = "IDLE"
  /\ target_speed = 0
  /\ pwm = 0
  /\ rotor_heartbeat_paused = FALSE
  /\ silence = 0
  /\ beat = 0
  /\ stator_rx = << >>
  /\ fsm = "DEAD"
  /\ pc = "run"
  /\ query_count = 0
  /\ sys_status = "STANDBY"
  /\ unsent = 0
  /\ unheard = 0
  /\ rotor_rx = << >>
  /\ speed = 0
  /\ due = {}
  /\ quiet = 0
  /\ faults = 0
  /\ jobs = 0

-----------------------------------------------------------------------------
(* The stator. *)

Ran(poller) == due' = due \ {poller}

StatorInit ==
  /\ state = "INIT"
  /\ pwm' = 0
  /\ target_speed' = RPM
  /\ state' = "TUNING_MOTOR"
  /\ Ran("fsm")
  /\ UNCHANGED <<relay, rotor_heartbeat_paused, silence, beat, stator_rx,
                 rotor, speed, quiet, faults, jobs>>

\* Phase 1 of tuning ends once the measured speed has been stable.
StartRelay ==
  /\ state = "TUNING_MOTOR"
  /\ relay = "IDLE"
  /\ speed = RPM
  /\ relay' = "RUNNING"
  /\ target_speed' = RPM
  /\ Ran("fsm")
  /\ UNCHANGED <<state, pwm, rotor_heartbeat_paused, silence, beat, stator_rx,
                 rotor, speed, quiet, faults, jobs>>

TuningDone ==
  /\ state = "TUNING_MOTOR"
  /\ relay = "DONE"
  /\ pwm' = 0
  /\ target_speed' = 0
  /\ beat' = 0
  /\ state' = "WAIT_ROTOR"
  /\ Ran("fsm")
  /\ UNCHANGED <<relay, rotor_heartbeat_paused, silence, stator_rx,
                 rotor, speed, quiet, faults, jobs>>

\* Mutant: STANDBY is forgotten.
RotorTimedOut_NoPause == silence > Timeout

RotorTimedOut == ~rotor_heartbeat_paused /\ silence > Timeout

\* Mutant: the set point survives the stop.
SafeStop_KeepsTarget ==
  /\ state = "ACTIVE"
  /\ RotorTimedOut
  /\ pwm' = 0
  /\ state' = "SAFE_STOP"
  /\ Ran("fsm")
  /\ UNCHANGED <<relay, target_speed, rotor_heartbeat_paused, silence, beat, stator_rx,
                 rotor, speed, quiet, faults, jobs>>

SafeStop ==
  /\ state = "ACTIVE"
  /\ RotorTimedOut
  /\ pwm' = 0
  /\ target_speed' = 0
  /\ state' = "SAFE_STOP"
  /\ Ran("fsm")
  /\ UNCHANGED <<relay, rotor_heartbeat_paused, silence, beat, stator_rx,
                 rotor, speed, quiet, faults, jobs>>

\* system_reset: RAM, the receive ring and the motor driver are reset.
StatorReset ==
  /\ state' = "BOOTLOADER"
  /\ relay' = "IDLE"
  /\ target_speed' = 0
  /\ pwm' = 0
  /\ rotor_heartbeat_paused' = FALSE
  /\ silence' = 0
  /\ beat' = 0
  /\ stator_rx' = << >>
  /\ due' = due \ {"fsm", "cmd"}
  /\ UNCHANGED <<rotor, speed, quiet, jobs>>

EnterBootloader ==
  /\ state = "ENTER_BOOTLOADER"
  /\ StatorReset
  /\ NoFault

\* A pass of pov_stator_fsm that finds nothing to do.
StatorIdle ==
  /\ "fsm" \in due
  /\ \/ state \in {"SAFE_STOP", "WAIT_ROTOR"}
     \/ state = "ACTIVE" /\ ~RotorTimedOut
     \/ state = "TUNING_MOTOR" /\ relay # "DONE"
  /\ Ran("fsm")
  /\ UNCHANGED <<stator, rotor, speed, quiet, faults, jobs>>

stator_heartbeat_task ==
  /\ Listening
  /\ beat >= Interval
  /\ beat' = 0
  /\ StatorSends(<<"HB_ACTIVE">>)
  /\ UNCHANGED <<state, relay, target_speed, pwm, rotor_heartbeat_paused,
                 silence, stator_rx, fsm, pc, query_count, sys_status, unsent,
                 unheard, world>>

\* The PID (or the relay) picks the PWM; the tuner ends by itself.
control_motor ==
  /\ state \in {"TUNING_MOTOR", "ACTIVE"}
  /\ pwm' \in IF relay = "RUNNING" \/ target_speed # speed THEN {1}
              ELSE IF target_speed = 0 THEN {0} ELSE {0, 1}
  /\ relay' \in IF state = "TUNING_MOTOR" /\ relay = "RUNNING"
                  THEN {"RUNNING", "DONE"} ELSE {relay}
  /\ UNCHANGED <<state, target_speed, rotor_heartbeat_paused, silence, beat,
                 stator_rx, rotor, world>>

\* mavlink_receive_and_process on the stator: every MOTOR_CONTROL of the
\* batch sets the target speed, every BL_UPDATE is acknowledged.
BatchTarget(batch) ==
  LET controls == SelectSeq(batch, LAMBDA m: m \in Controls)
  IN  IF controls = << >> THEN target_speed
      ELSE IF Last(controls) = Control(RPM) THEN RPM ELSE 0

BatchAcks(batch) ==
  [k \in 1..Cardinality({i \in DOMAIN batch : batch[i] = "BL_UPDATE"}) |-> "BL_ACK"]

\* The handshake: SAFE_STOP becomes WAIT_ROTOR, and a WAIT_ROTOR that has just
\* stamped last_rotor_heartbeat_ms becomes ACTIVE in the same call.
StateAfterBatch == IF state \in {"SAFE_STOP", "WAIT_ROTOR"} THEN "ACTIVE" ELSE state

\* The reply to the message that ended the batch.
Reply(m) == IF m \in Controls THEN <<"MOTOR_ACK">>
            ELSE IF m = "QUERY" THEN <<Status(speed)>>
            ELSE << >>

\* Mutant: STANDBY is never taken back.
PausedAfter_Sticky(m) == rotor_heartbeat_paused \/ m = "HB_STANDBY"

PausedAfter(m) ==
  IF m \in Heartbeats THEN m = "HB_STANDBY" ELSE rotor_heartbeat_paused

process_motor_commands ==
  /\ Listening
  /\ state # "ENTER_BOOTLOADER"
  /\ stator_rx # << >>
  /\ LET last == Last(stator_rx)
     IN  /\ target_speed' = BatchTarget(stator_rx)
         /\ silence' = 0
         /\ rotor_heartbeat_paused' = PausedAfter(last)
         /\ StatorSends(BatchAcks(stator_rx) \o Reply(last))
         /\ state' \in {StateAfterBatch}
               \cup (IF last = "BL_UPDATE" THEN {"ENTER_BOOTLOADER"} ELSE {})
  /\ stator_rx' = << >>
  /\ Ran("cmd")
  /\ UNCHANGED <<relay, pwm, beat, fsm, pc, query_count, sys_status, unsent,
                 unheard, speed, quiet, faults, jobs>>

\* Mutant: the heartbeat time is stamped whether or not a packet came.
NothingReceived_Stamps ==
  /\ "cmd" \in due
  /\ stator_rx = << >>
  /\ Ran("cmd")
  /\ silence' = 0
  /\ UNCHANGED <<state, relay, target_speed, pwm, rotor_heartbeat_paused,
                 beat, stator_rx, rotor, speed, quiet, faults, jobs>>

NothingReceived ==
  /\ "cmd" \in due
  /\ stator_rx = << >>
  /\ Ran("cmd")
  /\ UNCHANGED <<stator, rotor, speed, quiet, faults, jobs>>

\* A bootloader that waits for a command sends the same heartbeat on the same
\* line (bootloader_flow, WAIT_CMD); the rotor cannot tell it from the stator.
BootloaderHeartbeat ==
  /\ state = "BOOTLOADER"
  /\ StatorSends(<<"HB_ACTIVE">>)
  /\ UNCHANGED <<stator, fsm, pc, query_count, sys_status, unsent, unheard, world>>

\* The bootloader of the stator has run (see Bootloader.tla) and started the
\* application.
StatorBoots ==
  /\ state = "BOOTLOADER"
  /\ state' = "INIT"
  /\ UNCHANGED <<relay, target_speed, pwm, rotor_heartbeat_paused, silence,
                 beat, stator_rx, rotor, world>>

-----------------------------------------------------------------------------
(* The master rotor. *)

\* A pass of the main loop ends with pov_send_stator_heartbeat_if_due.
PassEnds(msgs) ==
  LET is_due == unsent >= Interval
  IN  /\ RotorSends(msgs \o IF is_due THEN <<"HB_ACTIVE">> ELSE << >>)
      /\ unsent' = IF is_due THEN 0 ELSE unsent
      /\ Ran("rotor")

\* A step inside a pass.  Requests time out after 500 ms (3 s for an update),
\* so it takes a finished query or the end of a pass to count as having run.
Within(msgs) ==
  /\ RotorSends(msgs)
  /\ UNCHANGED <<unsent, due>>

\* The variables no rotor step changes.
RotorFrame == UNCHANGED <<state, relay, target_speed, pwm, silence, beat,
                          rotor_heartbeat_paused, speed>>

\* mavlink_receive_and_process on the rotor drains the ring.
Drain ==
  /\ rotor_rx' = << >>
  /\ sys_status' = IF \E i \in DOMAIN rotor_rx : rotor_rx[i] = "HB_ACTIVE"
                   THEN "ACTIVE" ELSE sys_status

NoDrain == UNCHANGED <<rotor_rx, sys_status>>

Goto(next, at) == fsm' = next /\ pc' = at

\* pov_rotor_alloc ends with an ACTIVE heartbeat.
pov_rotor_alloc ==
  /\ fsm = "DEAD"
  /\ Goto("STARTUP", "run")
  /\ query_count' = 0
  /\ sys_status' = "STANDBY"
  /\ unsent' = 0
  /\ unheard' = 0
  /\ rotor_rx' = << >>
  /\ RotorSends(<<"HB_ACTIVE">>)
  /\ RotorFrame
  /\ UNCHANGED <<due, faults, jobs>>

\* pov_speed_test is over and the main loop starts.
SpeedTestDone ==
  /\ fsm = "STARTUP"
  /\ Goto("WAIT_MOTOR", "rx_off")
  /\ RotorFrame
  /\ UNCHANGED <<query_count, sys_status, unsent, unheard, rotor_rx,
                 stator_rx, due, quiet, faults, jobs>>

\* A turn of the loop that waits for a stator reporting ACTIVE.
waiting_for_motor_connection ==
  /\ fsm = "WAIT_MOTOR"
  /\ Drain
  /\ IF rotor_rx # << >> /\ sys_status' = "ACTIVE"
       THEN Goto("SEND_SPEED", "run") /\ unheard' = 0
       ELSE Goto("WAIT_MOTOR", "run") /\ UNCHANGED unheard
  /\ PassEnds(<< >>)
  /\ RotorFrame
  /\ UNCHANGED <<query_count, faults, jobs>>

-----------------------------------------------------------------------------
(* set_motor_speed(rotor, Goal), for SEND_SPEED and from error_occurred, and *)
(* the requests it makes.  A request waits until a batch ends with the reply *)
(* it expects, or until it times out.                                        *)

Goal == IF fsm = "SEND_SPEED" THEN RPM ELSE 0

SendControl ==
  /\ fsm \in {"SEND_SPEED", "ERROR"}
  /\ pc = "run"
  /\ Goto(fsm, "ack")
  /\ Within(<<Control(Goal)>>)
  /\ NoDrain
  /\ RotorFrame
  /\ UNCHANGED <<query_count, unheard, faults, jobs>>

SendQuery ==
  /\ pc = "query"
  /\ Goto(fsm, "status")
  /\ Within(<<"QUERY">>)
  /\ NoDrain
  /\ RotorFrame
  /\ UNCHANGED <<query_count, unheard, faults, jobs>>

Expected == CASE pc \in {"ack", "relay_ack"} -> {"MOTOR_ACK"}
              [] pc \in {"status", "relay_status"} -> {Status(0), Status(RPM)}
              [] pc = "bl_ack" -> {"BL_ACK"}
              [] OTHER -> {}

Waiting == Expected # {}

\* The reply is not the last message of the batch, and is thrown away.
ReplyMissed ==
  /\ Waiting
  /\ rotor_rx # << >>
  /\ Last(rotor_rx) \notin Expected
  /\ Drain
  /\ Within(<< >>)
  /\ RotorFrame
  /\ UNCHANGED <<fsm, pc, query_count, unheard, faults, jobs>>

Replied == rotor_rx # << >> /\ Last(rotor_rx) \in Expected

\* A reply is late (a fault) if the stator has yet to read the request.
TimedOut ==
  /\ rotor_rx = << >>
  /\ IF Listening /\ stator_rx # << >> THEN Fault ELSE NoFault

ControlAcked ==
  /\ pc = "ack"
  /\ Replied
  /\ Drain
  /\ Goto(fsm, "query")
  /\ query_count' = 0
  /\ Within(<< >>)
  /\ RotorFrame
  /\ UNCHANGED <<unheard, faults, jobs>>

\* set_motor_speed returns; error_occurred goes on whatever the result is.
SetSpeedReturns(confirmed) ==
  /\ IF fsm = "ERROR" THEN Goto("WAIT_MOTOR", "rx_off")
     ELSE IF confirmed THEN Goto("DISPLAYING", "run")
     ELSE Goto("SEND_SPEED", "run")
  /\ query_count' = 0
  /\ PassEnds(<< >>)

ControlTimedOut ==
  /\ pc = "ack"
  /\ TimedOut
  /\ SetSpeedReturns(FALSE)
  /\ NoDrain
  /\ RotorFrame
  /\ UNCHANGED <<unheard, jobs>>

\* Mutant: one query too many.
QueryAgain_OneMore(reached) ==
  IF reached \/ query_count >= Retries
    THEN SetSpeedReturns(speed = Goal)
    ELSE /\ query_count' = query_count + 1
         /\ Goto(fsm, "query")
         /\ RotorSends(<< >>)
         /\ Ran("rotor")
         /\ UNCHANGED unsent

\* After the last query, or a good one, pov_get_rpm has the last word.
QueryAgain(reached) ==
  IF reached \/ query_count + 1 >= Retries
    THEN SetSpeedReturns(speed = Goal)
    ELSE /\ query_count' = query_count + 1
         /\ Goto(fsm, "query")
         /\ RotorSends(<< >>)
         /\ Ran("rotor")
         /\ UNCHANGED unsent

StatusReceived ==
  /\ pc = "status"
  /\ Replied
  /\ Drain
  /\ unheard' = 0
  /\ QueryAgain(Last(rotor_rx) = Status(Goal))
  /\ RotorFrame
  /\ UNCHANGED <<faults, jobs>>

QueryTimedOut ==
  /\ pc = "status"
  /\ TimedOut
  /\ NoDrain
  /\ UNCHANGED unheard
  /\ QueryAgain(FALSE)
  /\ RotorFrame
  /\ UNCHANGED jobs

-----------------------------------------------------------------------------
(* Displaying, and the phone commands that reach the motor link. *)

\* Mutant: stator messages do not count as signs of life.
display_loop_NoStamp ==
  /\ fsm = "DISPLAYING"
  /\ Drain
  /\ unheard' = unheard
  /\ \/ /\ unheard' > Timeout \/ speed # RPM
        /\ Goto("ERROR", "run")
        /\ NoFault
     \/ /\ unheard' <= Timeout /\ speed = RPM
        /\ \/ Goto("CHECK_CMD", "run") /\ NoFault
           \/ Goto("ERROR", "run") /\ Fault
  /\ PassEnds(<< >>)
  /\ RotorFrame
  /\ UNCHANGED <<query_count, jobs>>


\* The ring is read before the age of the last stator message is judged.
\* display_image ends in an error when the angle sensor sees no rotation, or
\* when the image cannot be read.
display_loop ==
  /\ fsm = "DISPLAYING"
  /\ Drain
  /\ unheard' = IF rotor_rx # << >> /\ sys_status' = "ACTIVE" THEN 0 ELSE unheard
  /\ \/ /\ unheard' > Timeout \/ speed # RPM
        /\ Goto("ERROR", "run")
        /\ NoFault
     \/ /\ unheard' <= Timeout /\ speed = RPM
        /\ \/ Goto("CHECK_CMD", "run") /\ NoFault
           \/ Goto("ERROR", "run") /\ Fault
  /\ PassEnds(<< >>)
  /\ RotorFrame
  /\ UNCHANGED <<query_count, jobs>>

CheckingPhone == fsm = "CHECK_CMD" /\ pc = "run"

\* No command, or one that leaves the link alone: the image is rewound.
NoPhoneCommand ==
  /\ CheckingPhone
  /\ \/ Goto("DISPLAYING", "run") /\ NoFault
     \/ Goto("ERROR", "run") /\ Fault
  /\ PassEnds(<< >>)
  /\ NoDrain
  /\ RotorFrame
  /\ UNCHANGED <<query_count, unheard, jobs>>

\* An image transfer, or a firmware update of the arms: STANDBY asks the
\* stator not to count the silence that follows.
StartTransfer ==
  /\ CheckingPhone
  /\ Job
  /\ Goto("TRANSFER", "run")
  /\ Within(<<"HB_STANDBY">>)
  /\ NoDrain
  /\ RotorFrame
  /\ UNCHANGED <<query_count, unheard, faults>>

\* An upload stamps last_recv_stator_heartbeat, a download does not.
EndTransfer ==
  /\ fsm = "TRANSFER"
  /\ \E next \in {"DISPLAYING", "ERROR"} : Goto(next, "run")
  /\ unheard' \in {0, unheard}
  /\ PassEnds(<<"HB_ACTIVE">>)
  /\ NoDrain
  /\ RotorFrame
  /\ UNCHANGED <<query_count, faults, jobs>>

\* The phone sets a speed or asks for the motor status; the rotor relays it.
RelayToMotor ==
  /\ CheckingPhone
  /\ Job
  /\ \/ Goto(fsm, "relay_ack") /\ \E rpm \in {0, RPM} : Within(<<Control(rpm)>>)
     \/ Goto(fsm, "relay_status") /\ Within(<<"QUERY">>)
  /\ NoDrain
  /\ RotorFrame
  /\ UNCHANGED <<query_count, unheard, faults>>

RelayReplied ==
  /\ pc \in {"relay_ack", "relay_status"}
  /\ Replied
  /\ Drain
  /\ unheard' = 0
  /\ Goto("DISPLAYING", "run")
  /\ PassEnds(<< >>)
  /\ RotorFrame
  /\ UNCHANGED <<query_count, faults, jobs>>

\* A query without an answer returns from pov_check_phone_cmd at once.
RelayTimedOut ==
  /\ pc \in {"relay_ack", "relay_status"}
  /\ TimedOut
  /\ Goto(IF pc = "relay_ack" THEN "DISPLAYING" ELSE "CHECK_CMD", "run")
  /\ PassEnds(<< >>)
  /\ NoDrain
  /\ RotorFrame
  /\ UNCHANGED <<query_count, unheard, jobs>>

-----------------------------------------------------------------------------
(* pov_stator_update_flow.  The stator is not told of the silence. *)

StartStatorUpdate ==
  /\ CheckingPhone
  /\ Job
  /\ Goto("STATOR_UPDATE", "run")
  /\ PassEnds(<< >>)
  /\ NoDrain
  /\ RotorFrame
  /\ UNCHANGED <<query_count, unheard, faults>>

\* The firmware of the stator has arrived from the phone.
SendUpdateCommand ==
  /\ fsm = "STATOR_UPDATE"
  /\ pc = "run"
  /\ Goto(fsm, "bl_ack")
  /\ Within(<<"BL_UPDATE">>)
  /\ NoDrain
  /\ RotorFrame
  /\ UNCHANGED <<query_count, unheard, faults, jobs>>

UpdateAcked ==
  /\ pc = "bl_ack"
  /\ Replied
  /\ Drain
  /\ Goto(fsm, "flashing")
  /\ Within(<< >>)
  /\ RotorFrame
  /\ UNCHANGED <<query_count, unheard, faults, jobs>>

StatorFlashed ==
  /\ pc = "flashing"
  /\ Goto("WAIT_MOTOR", "run")
  /\ PassEnds(<< >>)
  /\ NoDrain
  /\ RotorFrame
  /\ UNCHANGED <<query_count, unheard, faults, jobs>>

\* A transfer failed, or the stator did not acknowledge.
StatorUpdateFails ==
  /\ fsm = "STATOR_UPDATE"
  /\ IF pc = "bl_ack" THEN TimedOut ELSE NoFault
  /\ Goto("ERROR", "run")
  /\ PassEnds(<< >>)
  /\ NoDrain
  /\ RotorFrame
  /\ UNCHANGED <<query_count, unheard, jobs>>

-----------------------------------------------------------------------------
(* The motor, time, and what goes wrong. *)

Regulated == state \in {"TUNING_MOTOR", "ACTIVE"} /\ target_speed = RPM

MotorResponds ==
  /\ \/ Regulated /\ pwm = 1 /\ speed' = RPM
     \/ ~Regulated /\ speed' = 0
  /\ UNCHANGED <<stator, rotor, due, quiet, faults, jobs>>

Tick ==
  /\ due \subseteq (IF Blocked THEN {"rotor"} ELSE {})
  /\ Listening => beat < Interval
  /\ due' = (IF state = "BOOTLOADER" THEN {} ELSE {"fsm"})
            \cup (IF Listening THEN {"cmd"} ELSE {})
            \cup (IF Blocked THEN {} ELSE {"rotor"})
  /\ silence' = Older(silence, Timeout + 1)
  /\ beat' = IF Listening THEN Older(beat, Interval) ELSE beat
  /\ unsent' = Older(unsent, Interval)
  /\ unheard' = Older(unheard, Timeout + 1)
  /\ quiet' = Older(quiet, Timeout + 3)
  /\ UNCHANGED <<state, relay, target_speed, pwm, rotor_heartbeat_paused,
                 stator_rx, fsm, pc, query_count, sys_status, rotor_rx, speed,
                 faults, jobs>>

\* A message is damaged on the line and fails the MAVLink checksum.
Lose ==
  /\ Fault
  /\ \/ /\ \E k \in DOMAIN stator_rx : stator_rx' = RemoveAt(stator_rx, k)
        /\ UNCHANGED rotor_rx
     \/ /\ \E k \in DOMAIN rotor_rx : rotor_rx' = RemoveAt(rotor_rx, k)
        /\ UNCHANGED stator_rx
  /\ UNCHANGED <<state, relay, target_speed, pwm, rotor_heartbeat_paused,
                 silence, beat, fsm, pc, query_count, sys_status, unsent,
                 unheard, speed, due, quiet, jobs>>

\* The rotor loses power, or resets into its own bootloader after an update.
RotorDies ==
  /\ fsm # "DEAD"
  /\ IF fsm = "TRANSFER" THEN NoFault ELSE Fault
  /\ Goto("DEAD", "run")
  /\ rotor_rx' = << >>
  /\ sys_status' = "STANDBY"
  /\ query_count' = 0
  /\ unsent' = 0
  /\ unheard' = 0
  /\ due' = due \ {"rotor"}
  /\ UNCHANGED <<stator, speed, quiet, jobs>>

StatorFails ==
  /\ state # "BOOTLOADER"
  /\ Fault
  /\ StatorReset

-----------------------------------------------------------------------------
StatorStep ==
  \/ StatorInit \/ StartRelay \/ TuningDone \/ SafeStop \/ EnterBootloader
  \/ StatorIdle \/ NothingReceived

RotorStep ==
  \/ waiting_for_motor_connection
  \/ SendControl \/ SendQuery \/ ReplyMissed
  \/ ControlAcked \/ ControlTimedOut \/ StatusReceived \/ QueryTimedOut
  \/ display_loop \/ NoPhoneCommand
  \/ RelayReplied \/ RelayTimedOut
  \/ UpdateAcked

\* The blocking calls of the rotor, and the bootloaders, which end some time.
LongStep ==
  \/ pov_rotor_alloc \/ SpeedTestDone \/ EndTransfer
  \/ SendUpdateCommand \/ StatorFlashed \/ StatorUpdateFails \/ StatorBoots

Environment ==
  \/ StartTransfer \/ RelayToMotor \/ StartStatorUpdate
  \/ Lose \/ RotorDies \/ StatorFails

Next ==
  \/ StatorStep \/ stator_heartbeat_task \/ control_motor
  \/ process_motor_commands \/ BootloaderHeartbeat
  \/ RotorStep \/ LongStep \/ MotorResponds \/ Tick \/ Environment

Spec == Init /\ [][Next]_vars

\* Both main loops run for ever, time passes, the motor follows its driver,
\* tuning ends, and no blocking call blocks for ever.
Fairness ==
  /\ WF_vars(StatorStep)
  /\ WF_vars(StartRelay)
  /\ WF_vars(stator_heartbeat_task)
  /\ WF_vars(control_motor /\ relay' # "RUNNING")
  /\ WF_vars(process_motor_commands)
  /\ WF_vars(RotorStep)
  /\ WF_vars(LongStep)
  /\ WF_vars(MotorResponds)
  /\ WF_vars(Tick)

FairSpec == Spec /\ Fairness

-----------------------------------------------------------------------------
(* Properties. *)

\* The types of the two machines, their rings and the world between them.
TypeOK ==
  /\ state \in StatorStates
  /\ relay \in {"IDLE", "RUNNING", "DONE"}
  /\ target_speed \in {0, RPM}
  /\ pwm \in {0, 1}
  /\ rotor_heartbeat_paused \in BOOLEAN
  /\ silence \in 0..(Timeout + 1)
  /\ beat \in 0..Interval
  /\ stator_rx \in Seq(ToStator) /\ Len(stator_rx) <= Room
  /\ fsm \in RotorStates
  /\ pc \in {"run", "rx_off", "ack", "query", "status", "relay_ack",
             "relay_status", "bl_ack", "flashing"}
  /\ query_count \in 0..(Retries - 1)
  /\ sys_status \in {"STANDBY", "ACTIVE"}
  /\ unsent \in 0..Interval
  /\ unheard \in 0..(Timeout + 1)
  /\ rotor_rx \in Seq(ToRotor) /\ Len(rotor_rx) <= Room
  /\ speed \in {0, RPM}
  /\ due \subseteq {"fsm", "cmd", "rotor"}
  /\ quiet \in 0..(Timeout + 3)
  /\ faults \in 0..MaxFaults
  /\ jobs \in 0..MaxJobs

\* "Motor is already stopped" (stator.c, SAFE_STOP) and "motor stopped"
\* (WAIT_ROTOR): there neither the driver nor the set point drives it.
StoppedMeansStopped ==
  state \in {"SAFE_STOP", "WAIT_ROTOR"} => pwm = 0 /\ target_speed = 0

\* A rotor that has sent nothing for longer than two heartbeat intervals, plus
\* the ticks one message can wait in the ring and one check can wait, has no
\* motor running under it, unless it announced the silence with STANDBY.
SilentRotorStopsMotor ==
  quiet > Timeout + 2 /\ ~rotor_heartbeat_paused => state # "ACTIVE"

\* Nothing lost, nothing late, nothing reset: the stator does not stop the
\* motor under a rotor that displays, serves the phone or is in a transfer it
\* announced with STANDBY.
SpuriousStop ==
  /\ state # "SAFE_STOP" /\ state' = "SAFE_STOP"
  /\ faults = 0
  /\ fsm \in {"DISPLAYING", "CHECK_CMD", "TRANSFER"}

NoSpuriousStop == [][~SpuriousStop]_vars

\* Nothing lost, nothing late, nothing reset: when display_loop judges the age
\* of the last stator message it has a young one, or one in the ring.  Interval
\* >= 2, as for DisplaysAgain.
NoSpuriousDisconnect ==
  fsm = "DISPLAYING" /\ faults = 0 /\ jobs = 0 /\ unheard > Timeout => rotor_rx # << >>


\* The stator does not stay deaf to a silent rotor after a transfer.
WatchResumes == []<>~rotor_heartbeat_paused

\* "transition happens after TWO heartbeats: first ... moves to WAIT_ROTOR,
\* second confirms rotor is stable and moves to ACTIVE" (stator.c).
ActiveFromSafeStop == state = "SAFE_STOP" /\ state' = "ACTIVE"

TwoHeartbeats == [][~ActiveFromSafeStop]_vars

=============================================================================
