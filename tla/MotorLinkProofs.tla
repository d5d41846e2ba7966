--------------------------- MODULE MotorLinkProofs ---------------------------
(***************************************************************************)
(* What stator and rotor guarantee for every heartbeat interval, number of *)
(* retries, ring size and number of faults: a stopped motor is stopped,    *)
(* the motor does not run on under a silent rotor, the types hold, a rotor *)
(* that nothing disturbs does not give up a living stator, and a stator    *)
(* without faults does not stop the motor under a living rotor.            *)
(*                                                                         *)
(* IInv relates the silence the stator measures to the true one.  Calm     *)
(* follows a heartbeat from the stator's timer through the ring and the    *)
(* request that may hide it to the time stamp of the rotor.  Watched       *)
(* bounds the silence of the rotor, and the messages ahead of a STANDBY.   *)
(***************************************************************************)
EXTENDS MotorLink, TLAPS

\* The ages the argument is about.
AgesOK ==
  /\ silence \in 0..(Timeout + 1)
  /\ quiet \in 0..(Timeout + 3)

\* A message still in the ring is young: the command task empties the ring in
\* every tick, so what is there was sent in this tick or in the one before.
RingIsYoung ==
  state \in {"WAIT_ROTOR", "ACTIVE", "SAFE_STOP"} /\ stator_rx # << >> =>
    quiet <= IF "cmd" \in due THEN 1 ELSE 0

\* A port that is switched off receives nothing.
DeafRingIsEmpty == ~Listening => stator_rx = << >>

\* The silence the stator has measured is the silence of the rotor, but for
\* the tick a message may spend in the ring, and pov_stator_fsm still has to
\* look at a silence that is too long.
SilenceIsMeasured ==
  state = "ACTIVE" /\ ~rotor_heartbeat_paused =>
    /\ quiet <= silence + 1
    /\ silence > Timeout => "fsm" \in due

IInv == AgesOK /\ RingIsYoung /\ DeafRingIsEmpty /\ SilenceIsMeasured

\* The timeout of the stator is a number of ticks, at least two.
LEMMA TimeoutType == Timeout \in Nat /\ Timeout >= 2
  BY BoundsAssumption DEF Timeout

\* Both boards start silent, with empty rings.
LEMMA InitIInv == Init => IInv
  BY TimeoutType DEF Init, IInv, AgesOK, RingIsYoung, DeafRingIsEmpty, SilenceIsMeasured

\* What sending can do to the stator: put a message in its ring.
Sent ==
  /\ UNCHANGED <<stator_rx, quiet>> \/ quiet' = 0
  /\ ~Listening => UNCHANGED stator_rx

RotorEffect ==
  /\ UNCHANGED <<state, rotor_heartbeat_paused, silence>>
  /\ Sent
  /\ due' \in {due, due \ {"rotor"}}

\* A step of the rotor only fills the ring of the stator: the invariant stays.
LEMMA RotorEffectKeeps ==
  ASSUME IInv, RotorEffect
  PROVE  IInv'
<1> USE TimeoutType DEF IInv, RotorEffect, Sent
<1>1. AgesOK'
  BY DEF AgesOK
<1>2. ("cmd" \in due' <=> "cmd" \in due) /\ ("fsm" \in due' <=> "fsm" \in due)
  OBVIOUS
<1>3. RingIsYoung'
  BY <1>2 DEF RingIsYoung, AgesOK
<1>4. SilenceIsMeasured'
  BY <1>2 DEF SilenceIsMeasured, AgesOK
<1>5. DeafRingIsEmpty'
  BY DEF DeafRingIsEmpty, Listening
<1> QED
  BY <1>1, <1>3, <1>4, <1>5, SMTT(30)

\* Sending ends the silence, or finds no listener.
LEMMA SendsEffect ==
  ASSUME NEW msgs, RotorSends(msgs)
  PROVE  Sent
  BY DEF RotorSends, Sent

\* The end of a pass of the main loop sends at most a heartbeat.
LEMMA PassEffect ==
  ASSUME NEW msgs, PassEnds(msgs)
  PROVE  Sent /\ due' = due \ {"rotor"}
  BY SendsEffect DEF PassEnds, Ran

\* So does an iteration of a loop inside a request.
LEMMA WithinEffect ==
  ASSUME NEW msgs, Within(msgs)
  PROVE  Sent /\ due' = due
  BY SendsEffect DEF Within

\* The end of set_motor_speed and another query send at most a message.
LEMMA RequestEffect ==
  /\ \A b : SetSpeedReturns(b) => Sent /\ due' = due \ {"rotor"}
  /\ \A b : QueryAgain(b) => Sent /\ due' = due \ {"rotor"}
  BY PassEffect, SendsEffect DEF SetSpeedReturns, QueryAgain, Ran

\* Every pass of the rotor is such a step.
LEMMA RotorStepEffect == RotorStep => RotorEffect
<1> USE DEF RotorEffect, RotorFrame
<1>1. waiting_for_motor_connection => RotorEffect
  BY PassEffect DEF waiting_for_motor_connection
<1>2. SendControl \/ SendQuery \/ ReplyMissed \/ ControlAcked => RotorEffect
  BY WithinEffect DEF SendControl, SendQuery, ReplyMissed, ControlAcked
<1>3. ControlTimedOut \/ StatusReceived \/ QueryTimedOut => RotorEffect
  BY RequestEffect, ZenonT(30) DEF ControlTimedOut, StatusReceived, QueryTimedOut
<1>4. display_loop \/ NoPhoneCommand \/ RelayReplied \/ RelayTimedOut => RotorEffect
  BY PassEffect DEF display_loop, NoPhoneCommand, RelayReplied, RelayTimedOut
<1>5. UpdateAcked => RotorEffect
  BY WithinEffect DEF UpdateAcked
<1> QED
  BY <1>1, <1>2, <1>3, <1>4, <1>5, SMTT(30) DEF RotorStep

\* So are its start, its jobs and its death.
LEMMA OtherRotorEffect ==
  \/ pov_rotor_alloc \/ SpeedTestDone \/ EndTransfer
  \/ SendUpdateCommand \/ StatorFlashed \/ StatorUpdateFails
  \/ StartTransfer \/ RelayToMotor \/ StartStatorUpdate \/ RotorDies
  => RotorEffect
<1> USE DEF RotorEffect, RotorFrame, Sent
<1>1. pov_rotor_alloc \/ SpeedTestDone => RotorEffect
  BY SendsEffect DEF pov_rotor_alloc, SpeedTestDone
<1>2. EndTransfer \/ StatorFlashed \/ StatorUpdateFails \/ StartStatorUpdate => RotorEffect
  BY PassEffect DEF EndTransfer, StatorFlashed, StatorUpdateFails, StartStatorUpdate
<1>3. SendUpdateCommand \/ StartTransfer \/ RelayToMotor => RotorEffect
  BY WithinEffect DEF SendUpdateCommand, StartTransfer, RelayToMotor
<1>4. RotorDies => RotorEffect
  BY DEF RotorDies, stator
<1> QED
  BY <1>1, <1>2, <1>3, <1>4, SMTT(30)

\* A lost message leaves the ages alone and the rings shorter.
LEMMA LoseKeeps == IInv /\ Lose => IInv'
<1> SUFFICES ASSUME IInv, Lose PROVE IInv'
  OBVIOUS
<1>1. UNCHANGED <<state, rotor_heartbeat_paused, silence, due, quiet>>
  BY DEF Lose
<1>2. stator_rx' # << >> => stator_rx # << >>
  BY DEF Lose
<1> QED
  BY <1>1, <1>2 DEF IInv, AgesOK, RingIsYoung, DeafRingIsEmpty, Listening,
    SilenceIsMeasured

\* A pass of pov_stator_fsm, or the command task with nothing to read.
LEMMA StatorStepKeeps == IInv /\ StatorStep => IInv'
<1> SUFFICES ASSUME IInv, StatorStep PROVE IInv'
  OBVIOUS
<1> USE TimeoutType DEF IInv, AgesOK, RingIsYoung, DeafRingIsEmpty, Listening,
    SilenceIsMeasured, Ran
<1>1. CASE StatorInit \/ StartRelay
  BY <1>1 DEF StatorInit, StartRelay
<1>2. CASE TuningDone
  BY <1>2 DEF TuningDone
<1>3. CASE SafeStop
  BY <1>3 DEF SafeStop
<1>4. CASE EnterBootloader
  BY <1>4 DEF EnterBootloader, StatorReset
<1>5. CASE StatorIdle
  BY <1>5 DEF StatorIdle, RotorTimedOut, stator
<1>6. CASE NothingReceived
  BY <1>6 DEF NothingReceived, stator
<1> QED
  BY <1>1, <1>2, <1>3, <1>4, <1>5, <1>6, SMTT(30) DEF StatorStep

\* The tasks of the stator that do not read the ring.
LEMMA StatorTasksKeep ==
  IInv /\ (stator_heartbeat_task \/ control_motor \/ StatorBoots \/ StatorFails
           \/ MotorResponds \/ BootloaderHeartbeat) => IInv'
<1> SUFFICES ASSUME IInv, stator_heartbeat_task \/ control_motor \/ StatorBoots
                          \/ StatorFails \/ MotorResponds \/ BootloaderHeartbeat
             PROVE  IInv'
  OBVIOUS
<1> USE TimeoutType DEF IInv, AgesOK, RingIsYoung, DeafRingIsEmpty, Listening,
    SilenceIsMeasured
<1>1. CASE stator_heartbeat_task \/ control_motor
  BY <1>1 DEF stator_heartbeat_task, control_motor, world
<1>2. CASE StatorBoots
  BY <1>2 DEF StatorBoots, world
<1>3. CASE StatorFails
  BY <1>3 DEF StatorFails, StatorReset
<1>4. CASE MotorResponds
  BY <1>4 DEF MotorResponds, stator
<1>5. CASE BootloaderHeartbeat
  BY <1>5 DEF BootloaderHeartbeat, stator, world
<1> QED
  BY <1>1, <1>2, <1>3, <1>4, <1>5, SMTT(30)

\* A packet read from the ring was sent in this tick or the one before.
LEMMA CommandsKeep == IInv /\ process_motor_commands => IInv'
<1> SUFFICES ASSUME IInv, process_motor_commands PROVE IInv'
  OBVIOUS
<1>1. quiet <= 1
  BY TimeoutType DEF IInv, AgesOK, RingIsYoung, process_motor_commands, Listening
<1>2. silence' = 0 /\ stator_rx' = << >> /\ quiet' = quiet
  BY DEF process_motor_commands
<1> QED
  BY <1>1, <1>2, TimeoutType, SMTT(30) DEF IInv, AgesOK, RingIsYoung, DeafRingIsEmpty, Listening,
    SilenceIsMeasured

\* Time passes only once the ring has been emptied and the silence judged.
LEMMA TickKeeps == IInv /\ Tick => IInv'
<1> SUFFICES ASSUME IInv, Tick PROVE IInv'
  OBVIOUS
<1> USE TimeoutType
<1>1. "fsm" \notin due /\ "cmd" \notin due
  BY DEF Tick
<1>2. AgesOK'
  BY DEF IInv, AgesOK, Tick, Older
<1>3. RingIsYoung'
  BY <1>1 DEF IInv, AgesOK, RingIsYoung, Tick, Older, Listening
<1>4. SilenceIsMeasured'
  BY <1>1 DEF IInv, AgesOK, SilenceIsMeasured, Tick, Older
<1>5. DeafRingIsEmpty'
  BY DEF IInv, DeafRingIsEmpty, Listening, Tick
<1> QED
  BY <1>2, <1>3, <1>4, <1>5, SMTT(30) DEF IInv

\* Every step keeps the invariant.
LEMMA NextIInv == IInv /\ [Next]_vars => IInv'
<1> SUFFICES ASSUME IInv, [Next]_vars PROVE IInv'
  OBVIOUS
<1>1. CASE UNCHANGED vars
  BY <1>1 DEF vars, stator, rotor, world, IInv, AgesOK, RingIsYoung, DeafRingIsEmpty,
    Listening, SilenceIsMeasured
<1>2. CASE StatorStep
  BY <1>2, StatorStepKeeps
<1>3. CASE stator_heartbeat_task \/ control_motor \/ MotorResponds \/ BootloaderHeartbeat
  BY <1>3, StatorTasksKeep, SMTT(30)
<1>4. CASE process_motor_commands
  BY <1>4, CommandsKeep
<1>5. CASE RotorStep
  BY <1>5, RotorStepEffect, RotorEffectKeeps, SMTT(30)
<1>6. CASE LongStep
  BY <1>6, OtherRotorEffect, RotorEffectKeeps, StatorTasksKeep, SMTT(30) DEF LongStep
<1>7. CASE Tick
  BY <1>7, TickKeeps
<1>8. CASE Environment
  BY <1>8, OtherRotorEffect, RotorEffectKeeps, StatorTasksKeep, LoseKeeps, SMTT(30) DEF Environment
<1> QED
  BY <1>1, <1>2, <1>3, <1>4, <1>5, <1>6, <1>7, <1>8, SMTT(30) DEF Next

\* The ages are as the invariant says in every behaviour.
LEMMA IInvAlways == Spec => []IInv
<1>1. Init => IInv
  BY InitIInv
<1>2. IInv /\ [Next]_vars => IInv'
  BY NextIInv
<1> QED
  BY <1>1, <1>2, PTL DEF Spec

-----------------------------------------------------------------------------
\* The motor does not run on under a silent rotor: pov_stator_fsm leaves ACTIVE
\* within two heartbeat intervals, a tick for a message that was still in the
\* ring and a tick for its own check, whatever is lost, late or reset, unless
\* the rotor announced the silence with STANDBY.
THEOREM SilentRotorStopsMotorAlways == Spec => []SilentRotorStopsMotor
<1>1. IInv => SilentRotorStopsMotor
  BY TimeoutType DEF IInv, AgesOK, SilenceIsMeasured, SilentRotorStopsMotor
<1> QED
  BY <1>1, IInvAlways, PTL

\* The rotor never touches the driver or the set point of the motor.
LEMMA RotorLeavesMotor ==
  \/ RotorStep \/ pov_rotor_alloc \/ SpeedTestDone \/ EndTransfer
  \/ SendUpdateCommand \/ StatorFlashed \/ StatorUpdateFails
  \/ StartTransfer \/ RelayToMotor \/ StartStatorUpdate \/ RotorDies \/ Lose
  => UNCHANGED <<state, pwm, target_speed>>
<1>1. RotorStep => RotorFrame
  BY ZenonT(30) DEF RotorStep, waiting_for_motor_connection, SendControl, SendQuery,
    ReplyMissed, ControlAcked, ControlTimedOut, StatusReceived, QueryTimedOut,
    display_loop, NoPhoneCommand, RelayReplied, RelayTimedOut, UpdateAcked
<1>2. \/ pov_rotor_alloc \/ SpeedTestDone \/ EndTransfer
      \/ SendUpdateCommand \/ StatorFlashed \/ StatorUpdateFails
      \/ StartTransfer \/ RelayToMotor \/ StartStatorUpdate
      => RotorFrame
  BY DEF pov_rotor_alloc, SpeedTestDone, EndTransfer, SendUpdateCommand,
    StatorFlashed, StatorUpdateFails, StartTransfer, RelayToMotor,
    StartStatorUpdate
<1>3. RotorDies \/ Lose => UNCHANGED <<state, pwm, target_speed>>
  BY DEF RotorDies, Lose, stator
<1>4. RotorFrame => UNCHANGED <<state, pwm, target_speed>>
  BY DEF RotorFrame
<1> QED
  BY <1>1, <1>2, <1>3, <1>4, SMTT(30)

\* In SAFE_STOP and WAIT_ROTOR the PWM and the set point are 0: control_motor
\* keeps out of those states, every way in resets both, and the packet that
\* brings a new set point also ends the state.
THEOREM StoppedMeansStoppedAlways == Spec => []StoppedMeansStopped
<1> USE DEF StoppedMeansStopped
<1>1. Init => StoppedMeansStopped
  BY DEF Init
<1>2. StoppedMeansStopped /\ [Next]_vars => StoppedMeansStopped'
  <2> SUFFICES ASSUME StoppedMeansStopped, [Next]_vars
               PROVE  StoppedMeansStopped'
    OBVIOUS
  <2>1. CASE UNCHANGED vars
    BY <2>1, SMTT(30) DEF vars, stator
  <2>2. CASE StatorStep
    BY <2>2 DEF StatorStep, StatorInit, StartRelay, TuningDone, SafeStop,
      EnterBootloader, StatorReset, StatorIdle, NothingReceived, stator
  <2>3. CASE \/ stator_heartbeat_task \/ control_motor \/ MotorResponds \/ Tick
             \/ BootloaderHeartbeat
    BY <2>3 DEF stator_heartbeat_task, control_motor, MotorResponds, Tick,
      BootloaderHeartbeat, stator
  <2>4. CASE process_motor_commands
    <3>1. state' \notin {"SAFE_STOP", "WAIT_ROTOR"}
      BY <2>4 DEF process_motor_commands, StateAfterBatch
    <3> QED
      BY <3>1
  <2>5. CASE StatorBoots \/ StatorFails
    BY <2>5 DEF StatorBoots, StatorFails, StatorReset
  <2> QED
    BY <2>1, <2>2, <2>3, <2>4, <2>5, RotorLeavesMotor
      DEF Next, LongStep, Environment
<1> QED
  BY <1>1, <1>2, PTL DEF Spec

-----------------------------------------------------------------------------
(* Types. *)

\* What the ring of a side takes keeps its type and its room.
LEMMA ReceivedIs ==
  ASSUME NEW S, NEW ring \in Seq(S), NEW msgs \in Seq(S), Len(ring) <= Room
  PROVE  Received(ring, msgs) \in Seq(S) /\ Len(Received(ring, msgs)) <= Room
<1> DEFINE all == ring \o msgs
<1>1. all \in Seq(S) /\ Len(all) \in Nat /\ Room \in Nat \ {0}
  BY BoundsAssumption
<1> HIDE DEF all
<1>2. CASE Len(all) <= Room
  BY <1>1, <1>2 DEF Received, all
<1>3. CASE ~(Len(all) <= Room)
  <2>1. SubSeq(all, 1, Room) \in Seq(S) /\ Len(SubSeq(all, 1, Room)) = Room
    BY <1>1, <1>3
  <2> QED
    BY <1>3, <2>1, <1>1 DEF Received, all
<1> QED
  BY <1>2, <1>3

\* The rings, the ages and the counters of both sides.
StatorRing == stator_rx \in Seq(ToStator) /\ Len(stator_rx) <= Room
RotorRing == rotor_rx \in Seq(ToRotor) /\ Len(rotor_rx) <= Room

\* Sending keeps the type of the ring of the stator.
LEMMA RotorSendsTypes ==
  ASSUME TypeOK, NEW msgs \in Seq(ToStator), RotorSends(msgs)
  PROVE  StatorRing' /\ quiet' \in 0..(Timeout + 3)
<1>1. StatorRing /\ quiet \in 0..(Timeout + 3)
  BY DEF TypeOK, StatorRing
<1>2. Received(stator_rx, msgs) \in Seq(ToStator) /\ Len(Received(stator_rx, msgs)) <= Room
  BY <1>1, ReceivedIs DEF StatorRing
<1>3. 0 \in 0..(Timeout + 3)
  BY TimeoutType
<1> QED
  BY <1>1, <1>2, <1>3 DEF RotorSends, StatorRing

\* The same for the ring of the rotor.
LEMMA StatorSendsTypes ==
  ASSUME TypeOK, NEW msgs \in Seq(ToRotor), StatorSends(msgs)
  PROVE  RotorRing'
<1>1. RotorRing
  BY DEF TypeOK, RotorRing
<1>2. Received(rotor_rx, msgs) \in Seq(ToRotor) /\ Len(Received(rotor_rx, msgs)) <= Room
  BY <1>1, ReceivedIs DEF RotorRing
<1> QED
  BY <1>1, <1>2 DEF StatorSends, RotorRing

Ticked == unsent' \in 0..Interval /\ due' \subseteq {"fsm", "cmd", "rotor"}

\* The end of a pass keeps the types it touches.
LEMMA PassEndsTypes ==
  ASSUME TypeOK, NEW msgs \in Seq(ToStator), PassEnds(msgs)
  PROVE  StatorRing' /\ quiet' \in 0..(Timeout + 3) /\ Ticked
<1>1. PICK all \in Seq(ToStator) : RotorSends(all)
  <2>1. << >> \in Seq(ToStator) /\ <<"HB_ACTIVE">> \in Seq(ToStator)
    BY DEF ToStator, Heartbeats
  <2>2. (msgs \o IF unsent >= Interval THEN <<"HB_ACTIVE">> ELSE << >>) \in Seq(ToStator)
    <3> HIDE DEF ToStator
    <3> QED
      BY <2>1
  <2> QED
    BY <2>2 DEF PassEnds
<1>2. Ticked
  BY BoundsAssumption DEF PassEnds, Ticked, Ran, TypeOK
<1> QED
  BY <1>1, <1>2, RotorSendsTypes

\* So does an iteration inside a request.
LEMMA WithinTypes ==
  ASSUME TypeOK, NEW msgs \in Seq(ToStator), Within(msgs)
  PROVE  StatorRing' /\ quiet' \in 0..(Timeout + 3) /\ Ticked
<1>1. Ticked
  BY DEF Within, Ticked, TypeOK
<1> QED
  BY <1>1, RotorSendsTypes DEF Within

\* The messages that are sent.
LEMMA Messages ==
  /\ << >> \in Seq(ToStator) /\ << >> \in Seq(ToRotor)
  /\ \A m \in ToStator : <<m>> \in Seq(ToStator)
  /\ \A m \in ToRotor : <<m>> \in Seq(ToRotor)
  /\ \A rpm : Control(rpm) \in ToStator /\ Status(rpm) \in ToRotor
  /\ {"HB_ACTIVE", "HB_STANDBY", "QUERY", "BL_UPDATE"} \subseteq ToStator
  /\ {"HB_ACTIVE", "MOTOR_ACK", "BL_ACK"} \subseteq ToRotor
<1>1. \A rpm : Control(rpm) \in ToStator /\ Status(rpm) \in ToRotor
  BY DEF ToStator, ToRotor, Controls, Control, Status, RPM
<1>2. /\ {"HB_ACTIVE", "HB_STANDBY", "QUERY", "BL_UPDATE"} \subseteq ToStator
      /\ {"HB_ACTIVE", "MOTOR_ACK", "BL_ACK"} \subseteq ToRotor
  BY DEF ToStator, ToRotor, Heartbeats
<1> HIDE DEF ToStator, ToRotor
<1> QED
  BY <1>1, <1>2

Places == {"run", "rx_off", "ack", "query", "status", "relay_ack",
           "relay_status", "bl_ack", "flashing"}

\* The rotor and the links, after a step of the rotor.
RotorTypes ==
  /\ fsm' \in RotorStates
  /\ pc' \in Places
  /\ query_count' \in 0..(Retries - 1)
  /\ sys_status' \in {"STANDBY", "ACTIVE"}
  /\ unheard' \in 0..(Timeout + 1)
  /\ RotorRing'
  /\ StatorRing' /\ quiet' \in 0..(Timeout + 3) /\ Ticked
  /\ faults' \in 0..MaxFaults
  /\ jobs' \in 0..MaxJobs

\* A step of the rotor has to keep the types of its own variables only.
LEMMA RotorTypesSuffice ==
  ASSUME TypeOK, RotorFrame, RotorTypes
  PROVE  TypeOK'
BY DEF TypeOK, RotorFrame, RotorTypes, RotorRing, StatorRing, Ticked, Places

\* Reading the ring of the rotor empties it and notes a status.
LEMMA Drained ==
  ASSUME TypeOK, Drain \/ NoDrain
  PROVE  RotorRing' /\ sys_status' \in {"STANDBY", "ACTIVE"}
<1>1. << >> \in Seq(ToRotor) /\ Len(<< >>) = 0 /\ Room \in Nat
  BY BoundsAssumption
<1>2. RotorRing /\ sys_status \in {"STANDBY", "ACTIVE"}
  BY DEF TypeOK, RotorRing
<1>3. CASE Drain
  BY <1>1, <1>2, <1>3 DEF Drain, RotorRing
<1>4. CASE NoDrain
  BY <1>2, <1>4 DEF NoDrain, RotorRing
<1> QED
  BY <1>3, <1>4

\* Faults, jobs, ages and queries stay within their bounds.
LEMMA Counted ==
  ASSUME TypeOK
  PROVE  /\ NoFault => faults' \in 0..MaxFaults
         /\ Fault => faults' \in 0..MaxFaults
         /\ TimedOut => faults' \in 0..MaxFaults
         /\ Job => jobs' \in 0..MaxJobs
         /\ faults' = faults => faults' \in 0..MaxFaults
         /\ jobs' = jobs => jobs' \in 0..MaxJobs
         /\ unheard' = unheard => unheard' \in 0..(Timeout + 1)
         /\ unheard' = 0 => unheard' \in 0..(Timeout + 1)
         /\ query_count' = query_count => query_count' \in 0..(Retries - 1)
         /\ query_count' = 0 => query_count' \in 0..(Retries - 1)
         /\ fsm \in RotorStates /\ pc \in Places
BY BoundsAssumption, TimeoutType DEF TypeOK, NoFault, Fault, TimedOut, Job, Spared, Places


\* The ends of set_motor_speed and of a query lead to a known place.
LEMMA ReturnTypes ==
  ASSUME TypeOK
  PROVE  /\ \A b : SetSpeedReturns(b) =>
                /\ fsm' \in RotorStates /\ pc' \in Places /\ query_count' \in 0..(Retries - 1)
                /\ StatorRing' /\ quiet' \in 0..(Timeout + 3) /\ Ticked
         /\ \A b : QueryAgain(b) =>
                /\ fsm' \in RotorStates /\ pc' \in Places /\ query_count' \in 0..(Retries - 1)
                /\ StatorRing' /\ quiet' \in 0..(Timeout + 3) /\ Ticked
<1>1. \A b : SetSpeedReturns(b) =>
        /\ fsm' \in RotorStates /\ pc' \in Places /\ query_count' \in 0..(Retries - 1)
        /\ StatorRing' /\ quiet' \in 0..(Timeout + 3) /\ Ticked
  <2>1. ASSUME NEW b, SetSpeedReturns(b)
        PROVE  /\ fsm' \in RotorStates /\ pc' \in Places /\ query_count' \in 0..(Retries - 1)
               /\ PassEnds(<< >>)
    BY <2>1, Counted DEF SetSpeedReturns, Goto, RotorStates, Places
  <2> QED
    BY <2>1, Messages, PassEndsTypes, Zenon
<1>2. ASSUME NEW b, QueryAgain(b), ~SetSpeedReturns(speed = Goal)
      PROVE  /\ fsm' \in RotorStates /\ pc' \in Places /\ query_count' \in 0..(Retries - 1)
             /\ RotorSends(<< >>) /\ Ticked
  <2>1. query_count' \in 0..(Retries - 1)
    BY <1>2, BoundsAssumption DEF QueryAgain, TypeOK
  <2>2. fsm' \in RotorStates /\ pc' \in Places /\ RotorSends(<< >>)
    BY <1>2, Counted DEF QueryAgain, Goto, Places
  <2>3. Ticked
    BY <1>2 DEF QueryAgain, Ticked, Ran, TypeOK
  <2> QED
    BY <2>1, <2>2, <2>3
<1> QED
  BY <1>1, <1>2, Messages, RotorSendsTypes, Zenon

\* The passes of the rotor keep the types.
LEMMA RotorStepTypes ==
  ASSUME TypeOK, RotorStep
  PROVE  TypeOK'
<1> USE Messages, Counted
<1>1. CASE waiting_for_motor_connection
  <2>1. Drain /\ PassEnds(<< >>) /\ RotorFrame
    BY <1>1, Zenon DEF waiting_for_motor_connection
  <2>2. fsm' \in RotorStates /\ pc' \in Places /\ unheard' \in {0, unheard} /\ UNCHANGED <<query_count, faults, jobs>>
    BY <1>1 DEF waiting_for_motor_connection, Goto, RotorStates, Places
  <2> QED
    BY <2>1, <2>2, PassEndsTypes, Drained, RotorTypesSuffice, Zenon DEF RotorTypes
<1>2. CASE SendControl
  <2>1. Within(<<Control(Goal)>>) /\ NoDrain /\ RotorFrame /\ UNCHANGED <<query_count, unheard, faults, jobs>>
        /\ fsm' \in RotorStates /\ pc' \in Places
    BY <1>2 DEF SendControl, Goto, Places
  <2> QED
    BY <2>1, WithinTypes, Drained, RotorTypesSuffice, Zenon DEF RotorTypes
<1>3. CASE SendQuery
  <2>1. Within(<<"QUERY">>) /\ NoDrain /\ RotorFrame /\ UNCHANGED <<query_count, unheard, faults, jobs>>
        /\ fsm' \in RotorStates /\ pc' \in Places
    BY <1>3 DEF SendQuery, Goto, Places
  <2>2. <<"QUERY">> \in Seq(ToStator)
    BY Zenon
  <2> QED
    BY <2>1, <2>2, WithinTypes, Drained, RotorTypesSuffice, Zenon DEF RotorTypes
<1>4. CASE ReplyMissed \/ ControlAcked \/ UpdateAcked
  <2>1. Within(<< >>) /\ Drain /\ RotorFrame /\ UNCHANGED <<unheard, faults, jobs>>
        /\ query_count' \in {0, query_count} /\ fsm' \in RotorStates /\ pc' \in Places
    BY <1>4 DEF ReplyMissed, ControlAcked, UpdateAcked, Goto, Places
  <2> QED
    BY <2>1, WithinTypes, Drained, RotorTypesSuffice, Zenon DEF RotorTypes
<1>5. CASE ControlTimedOut
  <2>1. SetSpeedReturns(FALSE) /\ TimedOut /\ NoDrain /\ RotorFrame /\ UNCHANGED <<unheard, jobs>>
    BY <1>5, Zenon DEF ControlTimedOut
  <2> QED
    BY <2>1, ReturnTypes, Drained, RotorTypesSuffice, Zenon DEF RotorTypes
<1>6. CASE StatusReceived
  <2>1. QueryAgain(Last(rotor_rx) = Status(Goal)) /\ Drain /\ RotorFrame /\ UNCHANGED <<faults, jobs>> /\ unheard' = 0
    BY <1>6, Zenon DEF StatusReceived
  <2> QED
    BY <2>1, ReturnTypes, Drained, RotorTypesSuffice, Zenon DEF RotorTypes
<1>7. CASE QueryTimedOut
  <2>1. QueryAgain(FALSE) /\ TimedOut /\ NoDrain /\ RotorFrame /\ UNCHANGED <<unheard, jobs>>
    BY <1>7, Zenon DEF QueryTimedOut
  <2> QED
    BY <2>1, ReturnTypes, Drained, RotorTypesSuffice, Zenon DEF RotorTypes
<1>8. CASE display_loop
  <2>1. PassEnds(<< >>) /\ Drain /\ RotorFrame /\ UNCHANGED <<query_count, jobs>>
    BY <1>8, Zenon DEF display_loop
  <2>2. fsm' \in RotorStates /\ pc' \in Places /\ unheard' \in {0, unheard} /\ (Fault \/ NoFault)
    BY <1>8 DEF display_loop, Goto, RotorStates, Places
  <2> QED
    BY <2>1, <2>2, PassEndsTypes, Drained, RotorTypesSuffice, Zenon DEF RotorTypes
<1>9. CASE NoPhoneCommand
  <2>1. PassEnds(<< >>) /\ NoDrain /\ RotorFrame /\ UNCHANGED <<query_count, unheard, jobs>>
    BY <1>9, Zenon DEF NoPhoneCommand
  <2>2. fsm' \in RotorStates /\ pc' \in Places /\ (Fault \/ NoFault)
    BY <1>9 DEF NoPhoneCommand, Goto, RotorStates, Places
  <2> QED
    BY <2>1, <2>2, PassEndsTypes, Drained, RotorTypesSuffice, Zenon DEF RotorTypes
<1>10. CASE RelayReplied
  <2>1. PassEnds(<< >>) /\ Drain /\ RotorFrame /\ UNCHANGED <<query_count, faults, jobs>> /\ unheard' = 0
        /\ fsm' \in RotorStates /\ pc' \in Places
    BY <1>10 DEF RelayReplied, Goto, RotorStates, Places
  <2> QED
    BY <2>1, PassEndsTypes, Drained, RotorTypesSuffice, Zenon DEF RotorTypes
<1>11. CASE RelayTimedOut
  <2>1. PassEnds(<< >>) /\ NoDrain /\ TimedOut /\ RotorFrame /\ UNCHANGED <<query_count, unheard, jobs>>
        /\ fsm' \in RotorStates /\ pc' \in Places
    BY <1>11 DEF RelayTimedOut, Goto, RotorStates, Places
  <2> QED
    BY <2>1, PassEndsTypes, Drained, RotorTypesSuffice, Zenon DEF RotorTypes
<1> QED
  BY <1>1, <1>2, <1>3, <1>4, <1>5, <1>6, <1>7, <1>8, <1>9, <1>10, <1>11, Zenon DEF RotorStep

\* Start, jobs and death of the rotor keep the types.
LEMMA LongRotorTypes ==
  ASSUME TypeOK,
         \/ pov_rotor_alloc \/ SpeedTestDone \/ EndTransfer
         \/ SendUpdateCommand \/ StatorFlashed \/ StatorUpdateFails
         \/ StartTransfer \/ RelayToMotor \/ StartStatorUpdate \/ RotorDies
  PROVE  TypeOK'
<1> USE Messages, Counted
<1>0. << >> \in Seq(ToRotor) /\ Len(<< >>) = 0 /\ Room \in Nat /\ 0 \in 0..Interval
      /\ <<"HB_ACTIVE">> \in Seq(ToStator) /\ <<"HB_STANDBY">> \in Seq(ToStator)
      /\ <<"QUERY">> \in Seq(ToStator) /\ <<"BL_UPDATE">> \in Seq(ToStator)
  BY BoundsAssumption
<1>00. StatorRing /\ RotorRing /\ quiet \in 0..(Timeout + 3) /\ due \subseteq {"fsm", "cmd", "rotor"}
       /\ unsent \in 0..Interval
       /\ sys_status \in {"STANDBY", "ACTIVE"}
  BY DEF TypeOK, StatorRing, RotorRing
<1>1. CASE pov_rotor_alloc
  <2>1. RotorSends(<<"HB_ACTIVE">>) /\ RotorFrame /\ UNCHANGED <<due, faults, jobs>>
        /\ fsm' = "STARTUP" /\ pc' = "run" /\ query_count' = 0 /\ unheard' = 0 /\ unsent' = 0
        /\ sys_status' = "STANDBY" /\ rotor_rx' = << >>
    BY <1>1, Zenon DEF pov_rotor_alloc, Goto
  <2>2. fsm' \in RotorStates /\ pc' \in Places /\ Ticked /\ RotorRing' /\ sys_status' \in {"STANDBY", "ACTIVE"}
    BY <2>1, <1>0, <1>00 DEF RotorStates, Places, Ticked, RotorRing
  <2> QED
    BY <2>1, <2>2, <1>0, RotorSendsTypes, RotorTypesSuffice, Zenon DEF RotorTypes
<1>2. CASE SpeedTestDone
  <2>1. RotorFrame /\ UNCHANGED <<query_count, sys_status, unsent, unheard, rotor_rx,
                 stator_rx, due, quiet, faults, jobs>> /\ fsm' = "WAIT_MOTOR" /\ pc' = "rx_off"
    BY <1>2, Zenon DEF SpeedTestDone, Goto
  <2>2. fsm' \in RotorStates /\ pc' \in Places /\ Ticked /\ RotorRing' /\ StatorRing'
    BY <2>1, <1>0, <1>00 DEF RotorStates, Places, Ticked, RotorRing, StatorRing
  <2> QED
    BY <2>1, <2>2, <1>00, RotorTypesSuffice, Zenon DEF RotorTypes
<1>3. CASE EndTransfer
  <2>1. PassEnds(<<"HB_ACTIVE">>) /\ NoDrain /\ RotorFrame /\ UNCHANGED <<query_count, faults, jobs>> /\ unheard' \in {0, unheard}
        /\ fsm' \in RotorStates /\ pc' \in Places
    BY <1>3 DEF EndTransfer, Goto, RotorStates, Places
  <2> QED
    BY <2>1, <1>0, PassEndsTypes, Drained, RotorTypesSuffice, Zenon DEF RotorTypes
<1>4. CASE SendUpdateCommand
  <2>1. Within(<<"BL_UPDATE">>) /\ NoDrain /\ RotorFrame /\ UNCHANGED <<query_count, unheard, faults, jobs>>
        /\ fsm' \in RotorStates /\ pc' \in Places
    BY <1>4 DEF SendUpdateCommand, Goto, Places
  <2> QED
    BY <2>1, <1>0, WithinTypes, Drained, RotorTypesSuffice, Zenon DEF RotorTypes
<1>5. CASE StatorFlashed \/ StatorUpdateFails \/ StartStatorUpdate
  <2>1. PassEnds(<< >>) /\ NoDrain /\ RotorFrame /\ UNCHANGED <<query_count, unheard>>
        /\ fsm' \in RotorStates /\ pc' \in Places
        /\ (UNCHANGED faults \/ TimedOut \/ NoFault) /\ (UNCHANGED jobs \/ Job)
    BY <1>5 DEF StatorFlashed, StatorUpdateFails, StartStatorUpdate, Goto, RotorStates, Places
  <2> QED
    BY <2>1, PassEndsTypes, Drained, RotorTypesSuffice, Zenon DEF RotorTypes
<1>6. CASE StartTransfer
  <2>1. Within(<<"HB_STANDBY">>) /\ NoDrain /\ RotorFrame /\ UNCHANGED <<query_count, unheard, faults>> /\ Job
        /\ fsm' \in RotorStates /\ pc' \in Places
    BY <1>6 DEF StartTransfer, Goto, RotorStates, Places
  <2> QED
    BY <2>1, <1>0, WithinTypes, Drained, RotorTypesSuffice, Zenon DEF RotorTypes
<1>7. CASE RelayToMotor
  <2>1. NoDrain /\ RotorFrame /\ UNCHANGED <<query_count, unheard, faults>> /\ Job
        /\ fsm' \in RotorStates /\ pc' \in Places
    BY <1>7 DEF RelayToMotor, Goto, RotorStates, Places
  <2>2. PICK msgs \in Seq(ToStator) : Within(msgs)
    BY <1>7, <1>0, Zenon DEF RelayToMotor
  <2> QED
    BY <2>1, <2>2, WithinTypes, Drained, RotorTypesSuffice, Zenon DEF RotorTypes
<1>8. CASE RotorDies
  <2>1. fsm' = "DEAD" /\ pc' = "run" /\ rotor_rx' = << >> /\ sys_status' = "STANDBY" /\ query_count' = 0
        /\ unsent' = 0 /\ unheard' = 0 /\ due' = due \ {"rotor"} /\ UNCHANGED <<stator, speed, quiet, jobs>>
        /\ (Fault \/ NoFault)
    BY <1>8, Zenon DEF RotorDies, Goto
  <2>2. fsm' \in RotorStates /\ pc' \in Places /\ Ticked /\ RotorRing' /\ StatorRing' /\ sys_status' \in {"STANDBY", "ACTIVE"}
    BY <2>1, <1>0, <1>00 DEF RotorStates, Places, Ticked, RotorRing, StatorRing, stator
  <2>3. RotorFrame
    BY <2>1, Zenon DEF RotorFrame, stator
  <2> QED
    BY <2>1, <2>2, <2>3, <1>00, RotorTypesSuffice, Zenon DEF RotorTypes
<1> QED
  BY <1>1, <1>2, <1>3, <1>4, <1>5, <1>6, <1>7, <1>8, Zenon


\* The stator after a step of its own.
StatorTypes ==
  /\ state' \in StatorStates
  /\ relay' \in {"IDLE", "RUNNING", "DONE"}
  /\ target_speed' \in {0, RPM}
  /\ pwm' \in {0, 1}
  /\ rotor_heartbeat_paused' \in BOOLEAN
  /\ silence' \in 0..(Timeout + 1)
  /\ beat' \in 0..Interval
  /\ StatorRing'
  /\ RotorRing'
  /\ speed' \in {0, RPM}
  /\ due' \subseteq {"fsm", "cmd", "rotor"}
  /\ faults' \in 0..MaxFaults

\* A step of the stator has to keep the types of its own variables only.
LEMMA StatorTypesSuffice ==
  ASSUME TypeOK, StatorTypes,
         UNCHANGED <<fsm, pc, query_count, sys_status, unsent, unheard, quiet, jobs>>
  PROVE  TypeOK'
BY DEF TypeOK, StatorTypes, RotorRing, StatorRing

\* The steps of the stator that send nothing.
LEMMA StatorStepTypes ==
  ASSUME TypeOK, StatorStep \/ control_motor \/ StatorBoots \/ StatorFails \/ MotorResponds
  PROVE  TypeOK'
<1>0. StatorRing /\ RotorRing
  BY DEF TypeOK, StatorRing, RotorRing
<1>1. << >> \in Seq(ToStator) /\ Len(<< >>) = 0 /\ Room \in Nat /\ 0 \in 0..Interval /\ 0 \in 0..(Timeout + 1)
  BY BoundsAssumption, TimeoutType
<1>2. CASE StatorInit \/ StartRelay \/ TuningDone \/ SafeStop
  <2>1. UNCHANGED <<fsm, pc, query_count, sys_status, unsent, unheard, quiet, jobs>>
    BY <1>2 DEF StatorInit, StartRelay, TuningDone, SafeStop, rotor
  <2>2. UNCHANGED <<stator_rx, rotor_rx>>
    BY <1>2 DEF StatorInit, StartRelay, TuningDone, SafeStop, rotor
  <2>3. StatorRing' /\ RotorRing'
    BY <1>0, <2>2 DEF StatorRing, RotorRing
  <2>4. StatorTypes
    BY <1>1, <1>2, <2>3 DEF StatorInit, StartRelay, TuningDone, SafeStop, Ran, StatorTypes, TypeOK, StatorStates
  <2> QED
    BY <2>1, <2>4, StatorTypesSuffice, Zenon
<1>3. CASE EnterBootloader \/ StatorFails
  <2>1. StatorReset /\ (NoFault \/ Fault)
    BY <1>3, Zenon DEF EnterBootloader, StatorFails
  <2>2. UNCHANGED <<fsm, pc, query_count, sys_status, unsent, unheard, quiet, jobs, rotor_rx>>
    BY <2>1 DEF StatorReset, rotor
  <2>3. StatorRing' /\ RotorRing'
    BY <1>0, <1>1, <2>1, <2>2 DEF StatorRing, RotorRing, StatorReset
  <2>4. faults' \in 0..MaxFaults
    BY <2>1, Counted, Zenon
  <2>5. StatorTypes
    BY <1>1, <2>1, <2>3, <2>4 DEF StatorReset, StatorTypes, TypeOK, StatorStates
  <2> QED
    BY <2>2, <2>5, StatorTypesSuffice, Zenon
<1>4. CASE StatorIdle \/ NothingReceived
  <2>1. UNCHANGED <<stator, rotor, speed, quiet, faults, jobs>> /\ due' \subseteq due
    BY <1>4 DEF StatorIdle, NothingReceived, Ran
  <2> QED
    BY <2>1 DEF TypeOK, stator, rotor
<1>5. CASE control_motor
  <2>1. pwm' \in {0, 1} /\ relay' \in {"IDLE", "RUNNING", "DONE"}
    BY <1>5 DEF control_motor, TypeOK
  <2>2. UNCHANGED <<state, target_speed, rotor_heartbeat_paused, silence, beat,
                 stator_rx, rotor, world>>
    BY <1>5, Zenon DEF control_motor
  <2> QED
    BY <2>1, <2>2 DEF TypeOK, rotor, world
<1>6. CASE StatorBoots
  BY <1>6 DEF StatorBoots, TypeOK, rotor, world, StatorStates
<1>7. CASE MotorResponds
  BY <1>7 DEF MotorResponds, TypeOK, stator, rotor
<1> QED
  BY <1>2, <1>3, <1>4, <1>5, <1>6, <1>7, Zenon DEF StatorStep

\* What the proofs need to know of cardinalities.  It is shown at the end of the
\* module (CountingHolds), where the library's theorems on finite sets come in:
\* with them in its context every proof takes longer.
Counting ==
  /\ Cardinality({}) = 0
  /\ \A n \in Nat : \A T \in SUBSET (1..n) : Cardinality(T) \in Nat

\* One acknowledgement for each of finitely many messages.
LEMMA BatchAcksType ==
  ASSUME Counting, NEW S, NEW batch \in Seq(S)
  PROVE  BatchAcks(batch) \in Seq(ToRotor)
<1> DEFINE T == {i \in DOMAIN batch : batch[i] = "BL_UPDATE"}
<1>1. Len(batch) \in Nat /\ T \in SUBSET (1..Len(batch))
  OBVIOUS
<1>2. Cardinality(T) \in Nat
  BY <1>1, Zenon DEF Counting
<1>3. "BL_ACK" \in ToRotor
  BY DEF ToRotor
<1> DEFINE n == Cardinality(T)
<1> HIDE DEF n, ToRotor
<1>4. \A k \in Nat : [i \in 1..k |-> "BL_ACK"] \in Seq(ToRotor)
  BY <1>3
<1> QED
  BY <1>2, <1>4, Zenon DEF BatchAcks, n

\* The steps of the stator that read or write a ring.
LEMMA LinkTypes ==
  ASSUME Counting, TypeOK, stator_heartbeat_task \/ BootloaderHeartbeat \/ process_motor_commands
  PROVE  TypeOK'
<1>0. <<"HB_ACTIVE">> \in Seq(ToRotor)
  BY Messages, Zenon
<1>1. CASE stator_heartbeat_task
  <2>1. RotorRing'
    BY <1>0, <1>1, StatorSendsTypes, Zenon DEF stator_heartbeat_task
  <2>2. beat' \in 0..Interval
    BY <1>1, BoundsAssumption DEF stator_heartbeat_task
  <2> QED
    BY <1>1, <2>1, <2>2 DEF stator_heartbeat_task, TypeOK, RotorRing, world
<1>2. CASE BootloaderHeartbeat
  <2>1. RotorRing'
    BY <1>0, <1>2, StatorSendsTypes, Zenon DEF BootloaderHeartbeat
  <2> QED
    BY <1>2, <2>1 DEF BootloaderHeartbeat, TypeOK, RotorRing, stator, world
<1>3. CASE process_motor_commands
  <2>1. PICK last : /\ target_speed' = BatchTarget(stator_rx)
                    /\ silence' = 0
                    /\ rotor_heartbeat_paused' = PausedAfter(last)
                    /\ StatorSends(BatchAcks(stator_rx) \o Reply(last))
                    /\ state' \in {StateAfterBatch}
                          \cup (IF last = "BL_UPDATE" THEN {"ENTER_BOOTLOADER"} ELSE {})
    BY <1>3, Zenon DEF process_motor_commands
  <2>2. stator_rx' = << >> /\ Ran("cmd")
        /\ UNCHANGED <<relay, pwm, beat, fsm, pc, query_count, sys_status, unsent,
                 unheard, speed, quiet, faults, jobs>>
    BY <1>3, Zenon DEF process_motor_commands
  <2>3. Reply(last) \in Seq(ToRotor)
    BY Messages, Zenon DEF Reply
  <2>4. stator_rx \in Seq(ToStator) /\ state \in StatorStates
    BY DEF TypeOK
  <2>5. BatchAcks(stator_rx) \in Seq(ToRotor)
    BY <2>4, BatchAcksType, Zenon
  <2>6. \A s, t \in Seq(ToRotor) : s \o t \in Seq(ToRotor)
    <3> HIDE DEF ToRotor
    <3> QED
      OBVIOUS
  <2>7. RotorRing'
    BY <2>1, <2>3, <2>5, <2>6, StatorSendsTypes, Zenon
  <2>8. target_speed' \in {0, RPM}
    <3>1. target_speed \in {0, RPM}
      BY DEF TypeOK
    <3> QED
      BY <2>1, <3>1, Zenon DEF BatchTarget
  <2>9. rotor_heartbeat_paused' \in BOOLEAN
    <3>1. rotor_heartbeat_paused \in BOOLEAN
      BY DEF TypeOK
    <3> QED
      BY <2>1, <3>1 DEF PausedAfter
  <2>10. state' \in StatorStates
    BY <2>1, <2>4 DEF StateAfterBatch, StatorStates
  <2>11. silence' \in 0..(Timeout + 1) /\ StatorRing'
    BY <2>1, <2>2, TimeoutType, BoundsAssumption DEF StatorRing
  <2>12. due' \subseteq {"fsm", "cmd", "rotor"}
    BY <2>2 DEF Ran, TypeOK
  <2>13. StatorTypes
    BY <2>2, <2>7, <2>8, <2>9, <2>10, <2>11, <2>12, Zenon DEF StatorTypes, TypeOK
  <2> QED
    BY <2>2, <2>13, StatorTypesSuffice, Zenon
<1> QED
  BY <1>1, <1>2, <1>3, Zenon

\* Time keeps the ages within their bounds.
LEMMA TickTypes ==
  ASSUME TypeOK, Tick
  PROVE  TypeOK'
<1>1. \A most \in Nat : \A age \in 0..most : Older(age, most) \in 0..most
  BY DEF Older
<1>2. Timeout + 1 \in Nat /\ Timeout + 3 \in Nat /\ Interval \in Nat
  BY TimeoutType, BoundsAssumption
<1>3. /\ silence' \in 0..(Timeout + 1) /\ beat' \in 0..Interval /\ unsent' \in 0..Interval
      /\ unheard' \in 0..(Timeout + 1) /\ quiet' \in 0..(Timeout + 3)
  BY <1>1, <1>2, Zenon DEF Tick, TypeOK
<1>4. due' \subseteq {"fsm", "cmd", "rotor"}
  BY DEF Tick
<1> QED
  BY <1>3, <1>4 DEF Tick, TypeOK

\* What is left of a ring after a loss is still a ring.
LEMMA LoseTypes ==
  ASSUME TypeOK, Lose
  PROVE  TypeOK'
<1>1. ASSUME NEW S, NEW s \in Seq(S), Len(s) <= Room, NEW k \in DOMAIN s
      PROVE  RemoveAt(s, k) \in Seq(S) /\ Len(RemoveAt(s, k)) <= Room
  BY <1>1, BoundsAssumption DEF RemoveAt
<1>2. StatorRing /\ RotorRing
  BY DEF TypeOK, StatorRing, RotorRing
<1>3. StatorRing' /\ RotorRing'
  BY <1>1, <1>2, Zenon DEF Lose, StatorRing, RotorRing
<1>4. faults' \in 0..MaxFaults
  BY Counted, Zenon DEF Lose
<1> QED
  BY <1>3, <1>4 DEF Lose, TypeOK, StatorRing, RotorRing

\* Both boards start in states of their types.
LEMMA InitTypes ==
  ASSUME Init
  PROVE  TypeOK
<1>1. /\ << >> \in Seq(ToStator) /\ << >> \in Seq(ToRotor) /\ Len(<< >>) = 0
      /\ Interval \in Nat /\ Retries - 1 \in Nat /\ Room \in Nat /\ MaxFaults \in Nat /\ MaxJobs \in Nat
  BY BoundsAssumption
<1>2. 0 \in 0..(Timeout + 1) /\ 0 \in 0..(Timeout + 3)
  BY TimeoutType
<1>3. 0 \in 0..Interval /\ 0 \in 0..(Retries - 1) /\ 0 \in 0..MaxFaults /\ 0 \in 0..MaxJobs /\ 0 <= Room
  BY <1>1
<1>4. state \in StatorStates /\ fsm \in RotorStates
  BY DEF Init, StatorStates, RotorStates
<1>5. StatorRing /\ RotorRing
  BY <1>1, <1>3, Zenon DEF Init, StatorRing, RotorRing
<1> QED
  BY <1>2, <1>3, <1>4, <1>5, Zenon DEF Init, TypeOK, StatorRing, RotorRing

\* Every step keeps the types.
LEMMA NextTypes ==
  ASSUME Counting, TypeOK, [Next]_vars
  PROVE  TypeOK'
<1>1. CASE UNCHANGED vars
  BY <1>1 DEF vars, stator, rotor, world, TypeOK
<1>2. CASE Next
  BY <1>2, RotorStepTypes, LongRotorTypes, StatorStepTypes, LinkTypes, TickTypes, LoseTypes, Zenon
    DEF Next, LongStep, Environment
<1> QED
  BY <1>1, <1>2

-----------------------------------------------------------------------------
(* The rotor does not give up a living stator. *)

\* A run without a fault and without a command from the phone.
Undisturbed == faults = 0 /\ jobs = 0

Connected == {"SEND_SPEED", "DISPLAYING", "CHECK_CMD", "ERROR"}
Asking == pc \in {"ack", "status"}

\* The rotor starts once and runs no transfer and no update.
Phases ==
  /\ fsm \in {"DEAD", "STARTUP", "WAIT_MOTOR"} \cup Connected
  /\ pc \in {"run", "rx_off", "ack", "query", "status"}
  /\ pc \in {"ack", "query", "status"} => fsm \in {"SEND_SPEED", "ERROR"}
  /\ pc = "rx_off" => fsm = "WAIT_MOTOR"

\* The rotor is connected to a stator that listens and goes on listening.
Awake ==
  /\ state \notin {"ENTER_BOOTLOADER", "BOOTLOADER"}
  /\ sys_status = "ACTIVE" => Listening
  /\ rotor_rx # << >> => Listening
  /\ fsm \in Connected => sys_status = "ACTIVE"

\* Between two requests the ring of the stator holds at most one heartbeat.
AtRest ==
  \/ stator_rx = << >>
  \/ stator_rx = <<"HB_ACTIVE">> /\ unsent <= IF "cmd" \in due THEN 1 ELSE 0

\* The request is the last message that was sent.
Asked ==
  /\ \A i \in DOMAIN stator_rx : stator_rx[i] # "BL_UPDATE"
  /\ pc = "ack" /\ stator_rx # << >> => Last(stator_rx) \in Controls
  /\ pc = "status" /\ stator_rx # << >> => Last(stator_rx) = "QUERY"
  /\ pc = "query" \/ fsm = "DEAD" => stator_rx = << >>
  /\ pc \in {"run", "rx_off"} => AtRest

\* The ring of the rotor holds heartbeats and replies to the request that was
\* read.
Answered ==
  /\ \A i \in DOMAIN rotor_rx : rotor_rx[i] = "HB_ACTIVE" \/ rotor_rx[i] \in Expected
  /\ (\E i \in DOMAIN rotor_rx : rotor_rx[i] \in Expected) => stator_rx = << >>

\* A heartbeat is in the ring of the rotor, or it has hidden the reply.
Hidden ==
  \/ \E i \in DOMAIN rotor_rx : rotor_rx[i] = "HB_ACTIVE"
  \/ Asking /\ stator_rx = << >> /\ rotor_rx = << >>

Soon(age) == IF "rotor" \in due THEN age <= 2 \/ (beat = 1 /\ age = 3)
                                ELSE age = 0 \/ age + beat <= 2
Now(age) == IF "rotor" \in due THEN beat <= 1 /\ age + beat <= 2
                               ELSE beat = 0 /\ age = 0

\* The stator is heard while the speed is set, and while the rotor displays.
Heard ==
  /\ fsm = "SEND_SPEED" =>
       /\ (\A i \in DOMAIN rotor_rx : rotor_rx[i] = "HB_ACTIVE") => Len(rotor_rx) <= 1
       /\ Soon(unheard)
       /\ Hidden => Now(unheard)
  /\ fsm \in {"DISPLAYING", "CHECK_CMD"} /\ rotor_rx = << >> => unheard <= beat + 2

Calm == Phases /\ Awake /\ Asked /\ Answered /\ Heard
CInv == Undisturbed => Calm

\* Heartbeats are further apart than the passes of the rotor, and a ring holds a
\* heartbeat and a reply.
Paced == Interval >= 2 /\ Room >= 2

\* What a ring that takes one message holds.
LEMMA ReceivedOne ==
  ASSUME NEW S, NEW r \in Seq(S), NEW m \in S, Len(r) <= Room, NEW q, q = Received(r, <<m>>)
  PROVE  /\ Len(r) < Room => Len(q) = Len(r) + 1 /\ q[Len(q)] = m
         /\ Len(r) = Room => q = r
         /\ q \in Seq(S) /\ q # << >>
         /\ \A i \in DOMAIN r : i \in DOMAIN q /\ q[i] = r[i]
         /\ \A i \in DOMAIN q : (i \in DOMAIN r /\ q[i] = r[i]) \/ q[i] = m
<1> DEFINE all == r \o <<m>>
<1>1. /\ all \in Seq(S) /\ Len(all) = Len(r) + 1 /\ all[Len(r) + 1] = m
      /\ \A i \in 1..Len(r) : all[i] = r[i]
      /\ Len(r) \in Nat /\ Room \in Nat \ {0}
  BY BoundsAssumption
<1> HIDE DEF all
<1>2. DOMAIN r = 1..Len(r) /\ DOMAIN all = 1..(Len(r) + 1)
  BY <1>1
<1>3. CASE Len(r) < Room
  <2>1. Len(all) <= Room
    BY <1>1, <1>3
  <2>2. q = all
    BY <2>1, Zenon DEF Received, all
  <2>3. q # << >>
    BY <1>1, <2>2
  <2>4. \A i \in 1..(Len(r) + 1) : i \in 1..Len(r) \/ i = Len(r) + 1
    BY <1>1
  <2>5. \A i \in 1..Len(r) : i \in 1..(Len(r) + 1)
    BY <1>1
  <2>6. Len(r) # Room
    BY <1>1, <1>3
  <2>7. Len(q) = Len(r) + 1 /\ q[Len(q)] = m
    BY <1>1, <2>2
  <2>8. \A i \in DOMAIN r : i \in DOMAIN q /\ q[i] = r[i]
    BY <1>1, <1>2, <2>2, <2>5, Zenon
  <2>9. \A i \in DOMAIN q : (i \in DOMAIN r /\ q[i] = r[i]) \/ q[i] = m
    BY <1>1, <1>2, <2>2, <2>4, Zenon
  <2> QED
    BY <1>1, <2>2, <2>3, <2>6, <2>7, <2>8, <2>9, Zenon
<1>4. CASE Len(r) = Room
  <2>1. ~(Len(all) <= Room)
    BY <1>1, <1>4
  <2>2. q = SubSeq(all, 1, Room)
    BY <2>1, Zenon DEF Received, all
  <2>3. q \in Seq(S) /\ Len(q) = Len(r) /\ \A i \in 1..Len(r) : q[i] = r[i]
    BY <1>1, <1>4, <2>2
  <2>4. q = r
    BY <2>3
  <2>5. r # << >> /\ ~(Len(r) < Room)
    BY <1>1, <1>4
  <2> QED
    BY <2>4, <2>5, Zenon
<1> QED
  BY <1>1, <1>3, <1>4

\* The empty message changes nothing.
LEMMA ReceivedNone ==
  ASSUME NEW S, NEW r \in Seq(S), Len(r) <= Room
  PROVE  Received(r, << >>) = r
<1>1. r \o << >> = r
  OBVIOUS
<1> QED
  BY <1>1, Zenon DEF Received

\* Neither a fault nor a command goes unnoticed.
LEMMA NoTrouble ==
  ASSUME TypeOK, Undisturbed'
  PROVE  ~Fault /\ ~Job
BY DEF TypeOK, Undisturbed, Fault, Job

\* Steps that change nothing Calm is about.
LEMMA FrameCalm ==
  ASSUME Calm, UNCHANGED <<fsm, pc, sys_status, rotor_rx, stator_rx, unsent, unheard>>,
         "rotor" \in due' <=> "rotor" \in due,
         ("cmd" \in due' <=> "cmd" \in due) \/ stator_rx = << >>,
         beat' = beat \/ ~Listening,
         Listening => Listening', state' \notin {"ENTER_BOOTLOADER", "BOOTLOADER"}
  PROVE  Calm'
<1>1. Phases'
  BY DEF Calm, Phases
<1>2. Awake'
  BY DEF Calm, Awake
<1>3. Asked'
  BY DEF Calm, Asked, AtRest
<1>4. Answered'
  BY DEF Calm, Answered, Expected
<1>5. CASE beat' = beat
  <2>1. Hidden' <=> Hidden
    BY DEF Hidden, Asking
  <2>2. (Soon(unheard)' <=> Soon(unheard)) /\ (Now(unheard)' <=> Now(unheard))
    BY <1>5 DEF Soon, Now
  <2>3. Heard'
    BY <1>5, <2>1, <2>2 DEF Calm, Heard
  <2> QED
    BY <1>1, <1>2, <1>3, <1>4, <2>3 DEF Calm
<1>6. CASE ~Listening
  <2>1. fsm \notin Connected
    BY <1>6 DEF Calm, Awake
  <2>2. Heard'
    BY <2>1 DEF Heard, Connected
  <2> QED
    BY <1>1, <1>2, <1>3, <1>4, <2>2 DEF Calm
<1> QED
  BY <1>5, <1>6

\* The stator's own steps neither deafen it nor touch a ring.
LEMMA StatorCalm ==
  ASSUME TypeOK, Calm, StatorStep \/ control_motor \/ MotorResponds \/ StatorBoots
  PROVE  Calm'
<1>0. state \notin {"ENTER_BOOTLOADER", "BOOTLOADER"}
  BY DEF Calm, Awake
<1>1. CASE StatorInit \/ StartRelay \/ SafeStop
  BY <1>1, FrameCalm DEF StatorInit, StartRelay, SafeStop, Ran, Listening, rotor
<1>2. CASE TuningDone
  BY <1>2, FrameCalm DEF TuningDone, Ran, Listening, rotor
<1>3. CASE StatorIdle
  BY <1>0, <1>3, FrameCalm DEF StatorIdle, Ran, Listening, rotor, stator
<1>4. CASE NothingReceived
  BY <1>0, <1>4, FrameCalm DEF NothingReceived, Ran, Listening, rotor, stator
<1>5. CASE control_motor
  BY <1>0, <1>5, FrameCalm DEF control_motor, Listening, rotor, world
<1>6. CASE MotorResponds
  BY <1>0, <1>6, FrameCalm DEF MotorResponds, Listening, rotor, stator
<1>7. ~EnterBootloader /\ ~StatorBoots
  BY <1>0 DEF EnterBootloader, StatorBoots
<1> QED
  BY <1>1, <1>2, <1>3, <1>4, <1>5, <1>6, <1>7, Zenon DEF StatorStep

\* Expected, by the place.
LEMMA ExpectedIs ==
  /\ pc = "ack" => Expected = {"MOTOR_ACK"}
  /\ pc = "status" => Expected = {Status(0), Status(RPM)}
  /\ pc \in {"run", "rx_off", "query"} => Expected = {}
  /\ pc' = "ack" => Expected' = {"MOTOR_ACK"}
  /\ pc' = "status" => Expected' = {Status(0), Status(RPM)}
  /\ pc' \in {"run", "rx_off", "query"} => Expected' = {}
  /\ "HB_ACTIVE" \notin {"MOTOR_ACK"} /\ "HB_ACTIVE" \notin {Status(0), Status(RPM)}
<1>1. "HB_ACTIVE" \notin {"MOTOR_ACK"} /\ "HB_ACTIVE" \notin {Status(0), Status(RPM)}
  BY DEF Status, RPM
<1> QED
  BY <1>1 DEF Expected

\* A heartbeat of the stator.
LEMMA HeartbeatCalm ==
  ASSUME Paced, TypeOK, Calm, stator_heartbeat_task
  PROVE  Calm'
<1>1. /\ Listening /\ beat >= Interval /\ beat' = 0
      /\ rotor_rx' = IF Hearing THEN Received(rotor_rx, <<"HB_ACTIVE">>) ELSE rotor_rx
      /\ UNCHANGED <<state, stator_rx, fsm, pc, sys_status, unsent, unheard, due>>
  BY DEF stator_heartbeat_task, StatorSends, world
<1>2. rotor_rx \in Seq(ToRotor) /\ Len(rotor_rx) <= Room /\ "HB_ACTIVE" \in ToRotor
  BY DEF TypeOK, ToRotor
<1>3. /\ \A i \in DOMAIN rotor_rx : i \in DOMAIN rotor_rx' /\ rotor_rx'[i] = rotor_rx[i]
      /\ \A i \in DOMAIN rotor_rx' : (i \in DOMAIN rotor_rx /\ rotor_rx'[i] = rotor_rx[i]) \/ rotor_rx'[i] = "HB_ACTIVE"
      /\ Hearing => rotor_rx' # << >>
      /\ Hearing /\ Len(rotor_rx) < Room => Len(rotor_rx') = Len(rotor_rx) + 1
  <2>1. CASE Hearing
    <3>1. rotor_rx' = Received(rotor_rx, <<"HB_ACTIVE">>)
      BY <1>1, <2>1
    <3> HIDE DEF ToRotor
    <3> QED
      BY <1>2, <3>1, ReceivedOne
  <2>2. CASE ~Hearing
    BY <1>1, <2>2
  <2> QED
    BY <2>1, <2>2
<1>4. Phases'
  BY <1>1 DEF Calm, Phases
<1>5. Awake'
  BY <1>1 DEF Calm, Awake, Listening
<1>6. Asked'
  BY <1>1 DEF Calm, Asked, AtRest
<1>7. Expected' = Expected /\ "HB_ACTIVE" \notin Expected
  <2>1. pc \in {"run", "rx_off", "ack", "query", "status"} /\ pc' = pc
    BY <1>1 DEF Calm, Phases
  <2> QED
    BY <2>1, ExpectedIs
<1>8. Answered'
  BY <1>1, <1>3, <1>7, Zenon DEF Calm, Answered
<1>9. Heard'
  <2>1. CASE fsm = "SEND_SPEED"
    <3>0. Hearing /\ fsm' = "SEND_SPEED"
      BY <1>1, <2>1 DEF Hearing, Calm, Phases
    <3>1. beat \in Nat /\ unheard \in Nat /\ beat >= 2
      BY <1>1, BoundsAssumption DEF TypeOK, Paced
    <3>2. ~Hidden /\ Soon(unheard)
      BY <2>1, <3>1 DEF Calm, Heard, Now
    <3>3. Soon(unheard)' /\ Now(unheard)'
      BY <1>1, <3>1, <3>2 DEF Soon, Now
    <3>4. ASSUME \A i \in DOMAIN rotor_rx' : rotor_rx'[i] = "HB_ACTIVE" PROVE Len(rotor_rx') <= 1
      <4>1. \A i \in DOMAIN rotor_rx : rotor_rx[i] = "HB_ACTIVE"
        BY <1>3, <3>4, Zenon
      <4>2. DOMAIN rotor_rx = {}
        BY <3>2, <4>1, Zenon DEF Hidden
      <4>3. Len(rotor_rx) = 0 /\ Len(rotor_rx) < Room
        <5>1. DOMAIN rotor_rx = 1..Len(rotor_rx) /\ Len(rotor_rx) \in Nat
          BY <1>2
        <5> QED
          BY <4>2, <5>1, BoundsAssumption DEF Paced
      <4>4. Len(rotor_rx') = 0 + 1
        BY <1>3, <3>0, <4>3, Zenon
      <4> QED
        BY <4>4
    <3> QED
      BY <3>0, <3>3, <3>4 DEF Heard
  <2>2. CASE fsm # "SEND_SPEED"
    <3>1. fsm \in {"DISPLAYING", "CHECK_CMD"} => Hearing
      BY DEF Hearing, Calm, Phases
    <3> QED
      BY <1>1, <1>3, <2>2, <3>1, Zenon DEF Heard
  <2> QED
    BY <2>1, <2>2
<1> QED
  BY <1>4, <1>5, <1>6, <1>8, <1>9 DEF Calm


\* A ring that is at rest asks for nothing.
LEMMA RestAsked ==
  ASSUME AtRest', pc' \in {"run", "rx_off"}, fsm' # "DEAD"
  PROVE  Asked'
<1>1. \A i \in DOMAIN stator_rx' : stator_rx'[i] # "BL_UPDATE"
  <2>1. CASE stator_rx' = << >>
    BY <2>1
  <2>2. CASE stator_rx' = <<"HB_ACTIVE">>
    BY <2>2
  <2> QED
    BY <2>1, <2>2 DEF AtRest
<1> QED
  BY <1>1 DEF Asked

\* A heartbeat finds the ring empty: the one before it has been read.
LEMMA RingGetsHeartbeat ==
  ASSUME Paced, stator_rx = << >>, unsent' = 0, RotorSends(<<"HB_ACTIVE">>)
  PROVE  AtRest'
<1>1. Received(<< >>, <<"HB_ACTIVE">>) = <<"HB_ACTIVE">>
  <2>1. << >> \o <<"HB_ACTIVE">> = <<"HB_ACTIVE">>
    OBVIOUS
  <2>2. Len(<<"HB_ACTIVE">>) <= Room
    BY BoundsAssumption
  <2> QED
    BY <2>1, <2>2, Zenon DEF Received
<1>2. stator_rx' = <<"HB_ACTIVE">> \/ stator_rx' = << >>
  BY <1>1 DEF RotorSends
<1> QED
  BY <1>2 DEF AtRest

\* A pass that sends at most a heartbeat leaves at most a heartbeat.
LEMMA PassAtRest ==
  ASSUME Paced, TypeOK, AtRest, PassEnds(<< >>)
  PROVE  AtRest' /\ "rotor" \notin due'
<1>1. due' = due \ {"rotor"}
  BY DEF PassEnds, Ran
<1>2. CASE unsent >= Interval
  <2>1. << >> \o <<"HB_ACTIVE">> = <<"HB_ACTIVE">>
    OBVIOUS
  <2>2. RotorSends(<<"HB_ACTIVE">>) /\ unsent' = 0
    BY <1>2, <2>1, Zenon DEF PassEnds
  <2>3. stator_rx = << >>
    BY <1>2, BoundsAssumption DEF AtRest, Paced, TypeOK
  <2> QED
    BY <1>1, <2>2, <2>3, RingGetsHeartbeat
<1>3. CASE ~(unsent >= Interval)
  <2>1. << >> \o << >> = << >>
    OBVIOUS
  <2>2. RotorSends(<< >>) /\ unsent' = unsent
    BY <1>3, <2>1, Zenon DEF PassEnds
  <2> QED
    BY <1>1, <2>2 DEF RotorSends, AtRest
<1> QED
  BY <1>2, <1>3

\* Reading the ring of the rotor keeps the rotor connected.
LEMMA DrainAwake ==
  ASSUME TypeOK, Awake, Drain \/ NoDrain, state' = state
  PROVE  /\ sys_status = "ACTIVE" => sys_status' = "ACTIVE"
         /\ (fsm' \in Connected => sys_status' = "ACTIVE") => Awake'
<1>1. CASE Drain
  <2>1. rotor_rx = << >> => DOMAIN rotor_rx = {}
    OBVIOUS
  <2>2. sys_status' = sys_status \/ (sys_status' = "ACTIVE" /\ rotor_rx # << >>)
    BY <1>1, <2>1 DEF Drain
  <2>3. rotor_rx' = << >>
    BY <1>1 DEF Drain
  <2> QED
    BY <2>2, <2>3 DEF Awake, Listening
<1>2. CASE NoDrain
  BY <1>2 DEF NoDrain, Awake, Listening
<1> QED
  BY <1>1, <1>2

\* A pass that ends in a state in which the rotor asks for nothing and its ring
\* is empty.
LEMMA PassCalm ==
  ASSUME Paced, TypeOK, Calm, AtRest, PassEnds(<< >>), Drain \/ NoDrain, RotorFrame,
         rotor_rx' = << >>,
         \/ fsm' \in {"WAIT_MOTOR", "SEND_SPEED", "DISPLAYING", "CHECK_CMD", "ERROR"} /\ pc' = "run"
         \/ fsm' = "WAIT_MOTOR" /\ pc' = "rx_off",
         fsm' \in Connected => sys_status' = "ACTIVE",
         fsm' = "SEND_SPEED" => unheard' = 0 \/ unheard' + beat <= 2,
         fsm' \in {"DISPLAYING", "CHECK_CMD"} => unheard' <= beat + 2
  PROVE  Calm'
<1>1. AtRest' /\ "rotor" \notin due'
  BY PassAtRest
<1>2. Phases'
  BY DEF Phases, Connected
<1>3. Awake'
  BY DrainAwake DEF Calm, RotorFrame
<1>4. Asked'
  BY <1>1, RestAsked
<1>5. Answered'
  BY DEF Answered
<1>6. ~Hidden'
  BY DEF Hidden, Asking
<1>7. beat' = beat
  BY DEF RotorFrame
<1>8. Heard'
  BY <1>1, <1>6, <1>7 DEF Heard, Soon
<1> QED
  BY <1>2, <1>3, <1>4, <1>5, <1>8 DEF Calm

\* The rotor waits for the first heartbeat of the stator.
LEMMA WaitingCalm ==
  ASSUME Paced, TypeOK, Calm, waiting_for_motor_connection
  PROVE  Calm'
<1>1. pc \in {"run", "rx_off"}
  BY DEF waiting_for_motor_connection, Calm, Phases
<1>2. AtRest
  BY <1>1 DEF Calm, Asked
<1>3. /\ Drain /\ RotorFrame /\ PassEnds(<< >>) /\ rotor_rx' = << >> /\ pc' = "run"
      /\ (fsm' = "SEND_SPEED" /\ unheard' = 0 /\ sys_status' = "ACTIVE") \/ fsm' = "WAIT_MOTOR"
  BY DEF waiting_for_motor_connection, Drain, Goto
<1> QED
  BY <1>2, <1>3, PassCalm DEF Connected

\* The rotor displays, and checks the age of the last heartbeat.
LEMMA DisplayCalm ==
  ASSUME Paced, TypeOK, Calm, display_loop
  PROVE  Calm'
<1>1. pc = "run" /\ sys_status = "ACTIVE"
  BY DEF display_loop, Calm, Phases, Awake, Connected
<1>2. AtRest
  BY <1>1 DEF Calm, Asked
<1>3. /\ Drain /\ RotorFrame /\ PassEnds(<< >>) /\ rotor_rx' = << >> /\ pc' = "run"
      /\ fsm' \in {"ERROR", "CHECK_CMD"}
      /\ unheard' = IF rotor_rx # << >> /\ sys_status' = "ACTIVE" THEN 0 ELSE unheard
  BY DEF display_loop, Drain, Goto
<1>4. sys_status' = "ACTIVE"
  BY <1>1, <1>3, DrainAwake DEF Calm, RotorFrame
<1>5. unheard' <= beat + 2
  <2>1. rotor_rx = << >> => unheard <= beat + 2
    BY DEF display_loop, Calm, Heard
  <2>2. 0 <= beat + 2
    BY DEF TypeOK
  <2> QED
    BY <1>3, <1>4, <2>1, <2>2
<1> QED
  BY <1>2, <1>3, <1>4, <1>5, PassCalm DEF Connected

\* A pass that leaves the ring of the rotor alone.
LEMMA NoPhoneCalm ==
  ASSUME Paced, TypeOK, Calm, NoPhoneCommand
  PROVE  Calm'
<1>1. pc = "run" /\ fsm = "CHECK_CMD" /\ pc' = "run" /\ fsm' \in {"DISPLAYING", "ERROR"}
  BY DEF NoPhoneCommand, CheckingPhone, Goto
<1>2. AtRest /\ sys_status = "ACTIVE"
  BY <1>1 DEF Calm, Asked, Awake, Connected
<1>3. /\ NoDrain /\ RotorFrame /\ PassEnds(<< >>) /\ rotor_rx' = rotor_rx
      /\ unheard' = unheard /\ beat' = beat /\ state' = state
  BY DEF NoPhoneCommand, NoDrain, RotorFrame
<1>4. AtRest' /\ "rotor" \notin due'
  BY <1>2, <1>3, PassAtRest
<1>5. Phases'
  BY <1>1 DEF Phases, Connected
<1>6. Awake'
  BY <1>2, <1>3, DrainAwake DEF Calm
<1>7. Asked'
  BY <1>1, <1>4, RestAsked
<1>8. Answered'
  BY <1>1, <1>3, ExpectedIs DEF Calm, Answered
<1>9. Heard'
  BY <1>1, <1>3 DEF Calm, Heard
<1> QED
  BY <1>5, <1>6, <1>7, <1>8, <1>9 DEF Calm

\* The start of the rotor and the end of the speed test.
LEMMA AllocCalm ==
  ASSUME Paced, TypeOK, Calm, pov_rotor_alloc \/ SpeedTestDone
  PROVE  Calm'
<1>1. CASE pov_rotor_alloc
  <2>1. stator_rx = << >> /\ fsm' = "STARTUP" /\ pc' = "run" /\ sys_status' = "STANDBY" /\ rotor_rx' = << >>
    BY <1>1 DEF pov_rotor_alloc, Calm, Asked, Goto
  <2>2. AtRest'
    BY <1>1, <2>1, RingGetsHeartbeat DEF pov_rotor_alloc
  <2>3. Asked'
    BY <2>1, <2>2, RestAsked
  <2>4. Phases' /\ Answered' /\ Heard'
    BY <2>1 DEF Phases, Answered, Heard
  <2>5. Awake'
    BY <1>1, <2>1 DEF pov_rotor_alloc, RotorFrame, Calm, Awake, Connected
  <2> QED
    BY <2>3, <2>4, <2>5 DEF Calm
<1>2. CASE SpeedTestDone
  <2>1. pc = "run" /\ fsm' = "WAIT_MOTOR" /\ pc' = "rx_off" /\ state' = state
        /\ UNCHANGED <<stator_rx, rotor_rx, sys_status, unsent, due>>
    BY <1>2 DEF SpeedTestDone, Calm, Phases, Goto, RotorFrame
  <2>2. Asked'
    BY <2>1 DEF Calm, Asked, AtRest
  <2>3. Answered'
    BY <2>1, ExpectedIs DEF Calm, Answered
  <2>4. Phases' /\ Heard'
    BY <2>1 DEF Phases, Heard
  <2>5. Awake'
    BY <2>1 DEF Calm, Awake, Connected, Listening
  <2> QED
    BY <2>2, <2>3, <2>4, <2>5 DEF Calm
<1> QED
  BY <1>1, <1>2

\* A request goes to a ring with room for it.
LEMMA RequestCalm ==
  ASSUME Paced, TypeOK, Calm, AtRest, NEW m \in ToStator, Within(<<m>>), NoDrain,
         RotorFrame, unheard' = unheard, fsm' = fsm, fsm \in {"SEND_SPEED", "ERROR"},
         pc \in {"run", "query"},
         (pc' = "ack" /\ m \in Controls) \/ (pc' = "status" /\ m = "QUERY")
  PROVE  Calm'
<1>1. sys_status = "ACTIVE" /\ Listening /\ UNCHANGED <<state, beat, rotor_rx, sys_status, unsent, due>>
  BY DEF Calm, Awake, Connected, NoDrain, RotorFrame, Within
<1>2. stator_rx' = Received(stator_rx, <<m>>)
  <2>1. <<m>> # << >>
    OBVIOUS
  <2> QED
    BY <1>1, <2>1 DEF Within, RotorSends
<1>3. stator_rx \in Seq(ToStator) /\ Len(stator_rx) <= Room /\ Len(stator_rx) < Room
  <2>1. Len(stator_rx) <= 1
    <3>1. CASE stator_rx = << >>
      BY <3>1
    <3>2. CASE stator_rx = <<"HB_ACTIVE">>
      BY <3>2
    <3> QED
      BY <3>1, <3>2 DEF AtRest
  <2>2. stator_rx \in Seq(ToStator) /\ Len(stator_rx) <= Room
    BY DEF TypeOK
  <2> HIDE DEF ToStator
  <2> QED
    BY <2>1, <2>2, BoundsAssumption DEF Paced
<1>4. /\ stator_rx' # << >> /\ stator_rx'[Len(stator_rx')] = m
      /\ \A i \in DOMAIN stator_rx' : (i \in DOMAIN stator_rx /\ stator_rx'[i] = stator_rx[i]) \/ stator_rx'[i] = m
  <2> HIDE DEF ToStator
  <2> QED
    BY <1>2, <1>3, ReceivedOne
<1>5. m # "BL_UPDATE"
  BY DEF Controls, Control
<1>6. \A i \in DOMAIN stator_rx' : stator_rx'[i] # "BL_UPDATE"
  BY <1>4, <1>5, Zenon DEF Calm, Asked
<1>7. Asked'
  <2>1. Last(stator_rx') = m
    BY <1>4, Zenon DEF Last
  <2>2. Last(stator_rx)' = m
    BY <2>1
  <2>3. pc' = "ack" => m \in Controls
    OBVIOUS
  <2>4. pc' = "status" => m = "QUERY"
    OBVIOUS
  <2>5. pc' \notin {"query", "run", "rx_off"} /\ fsm' # "DEAD"
    OBVIOUS
  <2> QED
    BY <1>6, <2>2, <2>3, <2>4, <2>5 DEF Asked
<1>8. Phases'
  BY DEF Phases, Connected
<1>9. Awake'
  BY <1>1, DrainAwake DEF Calm
<1>10. \A i \in DOMAIN rotor_rx : rotor_rx[i] = "HB_ACTIVE"
  BY ExpectedIs DEF Calm, Answered
<1>11. "HB_ACTIVE" \notin Expected'
  BY ExpectedIs
<1>12. Answered'
  BY <1>1, <1>10, <1>11, Zenon DEF Answered
<1>13. Hidden' => Hidden
  BY <1>1, <1>4 DEF Hidden
<1>14. (Soon(unheard) => Soon(unheard)') /\ (Now(unheard) => Now(unheard)')
  BY <1>1 DEF Soon, Now
<1>15. Heard'
  BY <1>1, <1>13, <1>14 DEF Calm, Heard
<1> QED
  BY <1>7, <1>8, <1>9, <1>12, <1>15 DEF Calm

\* The two requests of set_motor_speed.
LEMMA SendCalm ==
  ASSUME Paced, TypeOK, Calm, SendControl \/ SendQuery
  PROVE  Calm'
<1>1. CASE SendControl
  <2>1. AtRest
    BY <1>1 DEF SendControl, Calm, Asked
  <2>2. Control(Goal) \in ToStator /\ Control(Goal) \in Controls
    BY DEF Control, Controls, ToStator, Goal
  <2> QED
    BY <1>1, <2>1, <2>2, RequestCalm DEF SendControl, Goto
<1>2. CASE SendQuery
  <2>1. AtRest /\ fsm \in {"SEND_SPEED", "ERROR"}
    BY <1>2 DEF SendQuery, Calm, Asked, Phases, AtRest
  <2>2. "QUERY" \in ToStator
    BY DEF ToStator
  <2> QED
    BY <1>2, <2>1, <2>2, RequestCalm DEF SendQuery, Goto
<1> QED
  BY <1>1, <1>2

\* Inside a request: the rotor waits for a stator that listens.
LEMMA AskingIs ==
  ASSUME Calm, Waiting
  PROVE  pc \in {"ack", "status"} /\ fsm \in {"SEND_SPEED", "ERROR"} /\ sys_status = "ACTIVE" /\ Listening
<1>1. pc \in {"ack", "status"}
  BY ExpectedIs DEF Waiting, Calm, Phases
<1> QED
  BY <1>1 DEF Calm, Phases, Awake, Connected

\* The reply is in the ring once the request has been read.
LEMMA RepliedIs ==
  ASSUME TypeOK, Calm, Replied
  PROVE  stator_rx = << >> /\ Waiting
<1>1. Len(rotor_rx) \in DOMAIN rotor_rx
  <2>1. rotor_rx \in Seq(ToRotor) /\ rotor_rx # << >>
    BY DEF TypeOK, Replied
  <2> HIDE DEF ToRotor
  <2> QED
    BY <2>1
<1> QED
  BY <1>1, Zenon DEF Calm, Answered, Replied, Last, Waiting

\* A batch whose last message is not the reply leaves the request waiting.
LEMMA MissedCalm ==
  ASSUME Paced, TypeOK, Calm, ReplyMissed
  PROVE  Calm'
<1>1. pc \in {"ack", "status"} /\ fsm \in {"SEND_SPEED", "ERROR"} /\ sys_status = "ACTIVE"
  BY AskingIs DEF ReplyMissed
<1>2. Drain /\ rotor_rx' = << >> /\ UNCHANGED <<state, beat, unheard, fsm, pc, stator_rx, unsent, due>>
  BY DEF ReplyMissed, Drain, Within, RotorSends, RotorFrame
<1>3. Hidden
  <2>1. rotor_rx \in Seq(ToRotor) /\ rotor_rx # << >>
    BY DEF TypeOK, ReplyMissed
  <2>2. Len(rotor_rx) \in DOMAIN rotor_rx
    <3> HIDE DEF ToRotor
    <3> QED
      BY <2>1
  <2> QED
    BY <2>2, Zenon DEF Calm, Answered, ReplyMissed, Last, Hidden
<1>4. Phases' /\ Asked'
  BY <1>2 DEF Calm, Phases, Asked, AtRest
<1>5. Awake'
  BY <1>1, <1>2, DrainAwake DEF Calm
<1>6. Answered'
  BY <1>2 DEF Answered
<1>7. Heard'
  BY <1>1, <1>2, <1>3 DEF Calm, Heard, Soon, Now
<1> QED
  BY <1>4, <1>5, <1>6, <1>7 DEF Calm

\* The acknowledgement has been read: the rotor goes on to query the speed.
LEMMA AckedCalm ==
  ASSUME Paced, TypeOK, Calm, ControlAcked
  PROVE  Calm'
<1>1. stator_rx = << >> /\ fsm \in {"SEND_SPEED", "ERROR"} /\ sys_status = "ACTIVE"
  BY RepliedIs, AskingIs DEF ControlAcked
<1>2. Drain /\ rotor_rx' = << >> /\ pc' = "query" /\ UNCHANGED <<state, beat, unheard, fsm, stator_rx, unsent, due>>
  BY DEF ControlAcked, Drain, Within, RotorSends, RotorFrame, Goto
<1>3. Phases' /\ Asked'
  BY <1>1, <1>2 DEF Phases, Asked, Connected
<1>4. Awake'
  BY <1>1, <1>2, DrainAwake DEF Calm
<1>5. Answered' /\ ~Hidden'
  BY <1>2 DEF Answered, Hidden, Asking
<1>6. Heard'
  BY <1>1, <1>2, <1>5 DEF Calm, Heard, Soon
<1> QED
  BY <1>3, <1>4, <1>5, <1>6 DEF Calm

\* A request that ends has heard the stator, or has missed its reply to a
\* heartbeat that has just come.
Fresh == unheard' = 0 \/ unheard' + beat <= 2

\* set_motor_speed returns with its request answered or given up.
LEMMA SpeedReturnsCalm ==
  ASSUME Paced, TypeOK, Calm, Waiting, stator_rx = << >>, Drain \/ NoDrain, RotorFrame,
         rotor_rx' = << >>, fsm = "SEND_SPEED" => Fresh, unheard' \in Nat,
         NEW confirmed, SetSpeedReturns(confirmed)
  PROVE  Calm'
<1>1. fsm \in {"SEND_SPEED", "ERROR"} /\ sys_status = "ACTIVE"
  BY AskingIs
<1>2. AtRest /\ PassEnds(<< >>)
  BY DEF AtRest, SetSpeedReturns
<1>3. sys_status' = "ACTIVE"
  BY <1>1, DrainAwake DEF Calm, RotorFrame
<1>4. \/ fsm = "ERROR" /\ fsm' = "WAIT_MOTOR" /\ pc' = "rx_off"
      \/ fsm = "SEND_SPEED" /\ fsm' \in {"DISPLAYING", "SEND_SPEED"} /\ pc' = "run"
  BY <1>1 DEF SetSpeedReturns, Goto
<1>5. fsm = "SEND_SPEED" => unheard' <= beat + 2
  <2>1. beat \in Nat
    BY BoundsAssumption DEF TypeOK
  <2>2. fsm = "SEND_SPEED" => unheard' = 0 \/ unheard' + beat <= 2
    BY Zenon DEF Fresh
  <2>3. \A u, b \in Nat : u = 0 \/ u + b <= 2 => u <= b + 2
    OBVIOUS
  <2> QED
    BY <2>1, <2>2, <2>3, Zenon
<1> QED
  BY <1>1, <1>2, <1>3, <1>4, <1>5, PassCalm DEF Connected, Fresh

\* A query ends: it is repeated, or set_motor_speed returns.
LEMMA QueryCalm ==
  ASSUME Paced, TypeOK, Calm, Waiting, stator_rx = << >>, Drain \/ NoDrain, RotorFrame,
         rotor_rx' = << >>, fsm = "SEND_SPEED" => Fresh, unheard' \in Nat,
         NEW reached, QueryAgain(reached)
  PROVE  Calm'
<1>1. CASE reached \/ query_count + 1 >= Retries
  <2>1. SetSpeedReturns(speed = Goal)
    BY <1>1, Zenon DEF QueryAgain
  <2> QED
    BY <2>1, SpeedReturnsCalm
<1>2. CASE ~(reached \/ query_count + 1 >= Retries)
  <2>1. fsm' = fsm /\ pc' = "query" /\ stator_rx' = << >> /\ due' = due \ {"rotor"} /\ unsent' = unsent
    BY <1>2 DEF QueryAgain, Goto, RotorSends, Ran
  <2>2. fsm \in {"SEND_SPEED", "ERROR"} /\ sys_status = "ACTIVE"
    BY AskingIs
  <2>3. Phases' /\ Asked'
    BY <2>1, <2>2 DEF Phases, Asked, Connected
  <2>4. Awake'
    BY <2>2, DrainAwake DEF Calm, RotorFrame
  <2>5. Answered' /\ ~Hidden'
    BY <2>1 DEF Answered, Hidden, Asking
  <2>6. Heard'
    BY <2>1, <2>2, <2>5 DEF Heard, Soon, Fresh, RotorFrame
  <2> QED
    BY <2>3, <2>4, <2>5, <2>6 DEF Calm
<1> QED
  BY <1>1, <1>2

\* A request times out only because its reply was missed.
LEMMA TimedOutIs ==
  ASSUME TypeOK, Calm, Undisturbed', Waiting, TimedOut, unheard' = unheard, NoDrain
  PROVE  /\ stator_rx = << >> /\ rotor_rx' = << >> /\ unheard' \in Nat
         /\ fsm = "SEND_SPEED" => Fresh
<1>1. stator_rx = << >> /\ rotor_rx = << >>
  BY AskingIs, NoTrouble DEF TimedOut
<1>2. Hidden
  BY <1>1, AskingIs DEF Hidden, Asking
<1>3. fsm = "SEND_SPEED" => Fresh
  BY <1>2 DEF Calm, Heard, Now, Fresh
<1> QED
  BY <1>1, <1>3 DEF NoDrain, TypeOK

\* The three ways a request ends keep Calm.
LEMMA RequestEndsCalm ==
  ASSUME Paced, TypeOK, Calm, Undisturbed', ControlTimedOut \/ StatusReceived \/ QueryTimedOut
  PROVE  Calm'
<1>1. CASE ControlTimedOut
  <2>1. Waiting
    BY <1>1, ExpectedIs DEF ControlTimedOut, Waiting
  <2> QED
    BY <1>1, <2>1, TimedOutIs, SpeedReturnsCalm DEF ControlTimedOut
<1>2. CASE StatusReceived
  <2>1. stator_rx = << >> /\ Waiting
    BY <1>2, RepliedIs DEF StatusReceived
  <2>2. rotor_rx' = << >> /\ unheard' \in Nat /\ Fresh
    BY <1>2 DEF StatusReceived, Drain, Fresh
  <2> QED
    BY <1>2, <2>1, <2>2, QueryCalm DEF StatusReceived
<1>3. CASE QueryTimedOut
  <2>1. Waiting
    BY <1>3, ExpectedIs DEF QueryTimedOut, Waiting
  <2> QED
    BY <1>3, <2>1, TimedOutIs, QueryCalm DEF QueryTimedOut
<1> QED
  BY <1>1, <1>2, <1>3

\* A tick passes only when every poller has run.
LEMMA TickCalm ==
  ASSUME Paced, TypeOK, Calm, DeafRingIsEmpty, Tick
  PROVE  Calm'
<1>1. /\ due \subseteq (IF Blocked THEN {"rotor"} ELSE {})
      /\ UNCHANGED <<state, stator_rx, fsm, pc, sys_status, rotor_rx>>
      /\ Listening => beat < Interval
      /\ Listening => "cmd" \in due'
      /\ ~Blocked => "rotor" \in due'
  BY DEF Tick
<1>2. /\ Interval \in Nat /\ beat \in Nat /\ unsent \in Nat /\ unheard \in Nat /\ Timeout = 2 * Interval
      /\ Interval >= 2 /\ unsent <= Interval
  BY BoundsAssumption DEF TypeOK, Timeout, Paced
<1>3. /\ Listening => beat' = beat + 1
      /\ unsent' <= unsent + 1 /\ unsent' \in Nat
      /\ unheard <= 2 => unheard' = unheard + 1
      /\ unheard' <= unheard + 1 /\ unheard' \in Nat
  <2>1. Listening => beat' = beat + 1
    BY <1>1, <1>2 DEF Tick, Older
  <2>2. unsent' <= unsent + 1 /\ unsent' \in Nat
    BY <1>2 DEF Tick, Older
  <2>3. /\ unheard <= 2 => unheard' = unheard + 1
        /\ unheard' <= unheard + 1 /\ unheard' \in Nat
    <3>1. unheard \in 0..(Timeout + 1)
      BY DEF TypeOK
    <3>2. unheard' = IF unheard < Timeout + 1 THEN unheard + 1 ELSE Timeout + 1
      BY DEF Tick, Older
    <3> QED
      BY <1>2, <3>1, <3>2
  <2> QED
    BY <2>1, <2>2, <2>3
<1>4. Phases'
  BY <1>1 DEF Calm, Phases
<1>5. Awake'
  BY <1>1 DEF Calm, Awake, Listening
<1>6. AtRest => AtRest'
  <2>1. "cmd" \notin due
    BY <1>1
  <2>2. stator_rx # << >> => "cmd" \in due'
    BY <1>1 DEF DeafRingIsEmpty
  <2> QED
    BY <1>1, <1>2, <1>3, <2>1, <2>2 DEF AtRest
<1>7. Asked'
  BY <1>1, <1>6 DEF Calm, Asked
<1>8. Answered'
  BY <1>1 DEF Calm, Answered, Expected
<1>9. Heard'
  <2>1. CASE fsm = "SEND_SPEED"
    <3>1. ~Blocked /\ Listening
      BY <2>1 DEF Blocked, Calm, Awake, Connected
    <3>2. "rotor" \notin due /\ "rotor" \in due'
      BY <1>1, <3>1
    <3>3. Hidden' => Hidden
      BY <1>1 DEF Hidden, Asking
    <3>4. Soon(unheard) => Soon(unheard)'
      BY <1>2, <1>3, <3>1, <3>2 DEF Soon
    <3>5. Now(unheard) => Now(unheard)'
      BY <1>2, <1>3, <3>1, <3>2 DEF Now
    <3> QED
      BY <1>1, <2>1, <3>3, <3>4, <3>5 DEF Calm, Heard
  <2>2. CASE fsm \in {"DISPLAYING", "CHECK_CMD"}
    <3>1. Listening
      BY <2>2 DEF Calm, Awake, Connected
    <3>2. rotor_rx = << >> => unheard <= beat + 2
      BY <2>2 DEF Calm, Heard
    <3> QED
      BY <1>1, <1>2, <1>3, <2>2, <3>1, <3>2 DEF Heard
  <2> QED
    BY <1>1, <2>1, <2>2 DEF Heard
<1> QED
  BY <1>4, <1>5, <1>7, <1>8, <1>9 DEF Calm

\* A batch without an update command needs no acknowledgement.
LEMMA NoAcks ==
  ASSUME Counting, NEW batch, \A i \in DOMAIN batch : batch[i] # "BL_UPDATE"
  PROVE  BatchAcks(batch) = << >>
<1>1. {i \in DOMAIN batch : batch[i] = "BL_UPDATE"} = {} /\ Cardinality({}) = 0
  BY Zenon DEF Counting
<1>2. BatchAcks(batch) = [k \in 1..0 |-> "BL_ACK"]
  BY <1>1, Zenon DEF BatchAcks
<1> QED
  BY <1>2

\* Without an update command, the stator sends the reply to the last message.
LEMMA OnlyReply ==
  ASSUME Counting, TypeOK, Calm, process_motor_commands
  PROVE  /\ StatorSends(Reply(Last(stator_rx)))
         /\ Listening' /\ state' # "ENTER_BOOTLOADER"
<1>1. Len(stator_rx) \in DOMAIN stator_rx
  <2>1. stator_rx \in Seq(ToStator) /\ stator_rx # << >>
    BY DEF TypeOK, process_motor_commands
  <2> HIDE DEF ToStator
  <2> QED
    BY <2>1
<1>2. Last(stator_rx) # "BL_UPDATE"
  BY <1>1, Zenon DEF Calm, Asked, Last
<1>4. BatchAcks(stator_rx) = << >>
  BY NoAcks, Zenon DEF Calm, Asked
<1>5. Reply(Last(stator_rx)) \in Seq(ToRotor)
  <2>1. /\ <<"MOTOR_ACK">> \in Seq(ToRotor)
        /\ <<Status(speed)>> \in Seq(ToRotor)
        /\ << >> \in Seq(ToRotor)
    BY Messages
  <2> QED
    BY <2>1, Zenon DEF Reply
<1>6. << >> \o Reply(Last(stator_rx)) = Reply(Last(stator_rx))
  <2> HIDE DEF Reply, ToRotor
  <2> QED
    BY <1>5
<1>7. StatorSends(BatchAcks(stator_rx) \o Reply(Last(stator_rx)))
  BY DEF process_motor_commands
<1>8. StatorSends(Reply(Last(stator_rx)))
  BY <1>4, <1>6, <1>7, Zenon
<1>9. state' = StateAfterBatch
  BY <1>2 DEF process_motor_commands
<1> QED
  BY <1>8, <1>9 DEF StateAfterBatch, process_motor_commands, Listening

\* The command task answers the request it read.
LEMMA CommandsCalm ==
  ASSUME Counting, Paced, TypeOK, Calm, process_motor_commands
  PROVE  Calm'
<1>1. /\ UNCHANGED <<beat, fsm, pc, sys_status, unsent, unheard>>
      /\ stator_rx # << >> /\ stator_rx' = << >> /\ due' = due \ {"cmd"}
      /\ Listening
  BY DEF process_motor_commands, Ran
<1>2. StatorSends(Reply(Last(stator_rx))) /\ Listening' /\ state' # "ENTER_BOOTLOADER"
  BY OnlyReply
<1>3. Phases'
  BY <1>1 DEF Calm, Phases
<1>4. Awake'
  BY <1>1, <1>2 DEF Calm, Awake, Listening
<1>5. Asked'
  BY <1>1 DEF Asked, AtRest
<1>6. (Soon(unheard) => Soon(unheard)') /\ (Now(unheard) => Now(unheard)')
  BY <1>1 DEF Soon, Now
<1>7. rotor_rx \in Seq(ToRotor) /\ Len(rotor_rx) <= Room
  BY DEF TypeOK
<1>8. CASE pc \in {"ack", "status"}
  <2>1. PICK m \in ToRotor : m \in Expected /\ m \in Expected' /\ Reply(Last(stator_rx)) = <<m>>
    <3>1. CASE pc = "ack"
      <4>1. Reply(Last(stator_rx)) = <<"MOTOR_ACK">>
        BY <1>1, <3>1 DEF Calm, Asked, Reply
      <4> QED
        BY <1>1, <3>1, <4>1, ExpectedIs, Messages
    <3>2. CASE pc = "status"
      <4>1. Last(stator_rx) = "QUERY" /\ "QUERY" \notin Controls
        BY <1>1, <3>2 DEF Calm, Asked, Controls, Control
      <4>2. Reply(Last(stator_rx)) = <<Status(speed)>>
        BY <4>1, Zenon DEF Reply
      <4>3. Status(speed) \in {Status(0), Status(RPM)}
        BY DEF TypeOK
      <4> QED
        BY <1>1, <3>2, <4>2, <4>3, ExpectedIs, Messages
    <3> QED
      BY <1>8, <3>1, <3>2
  <2>2. fsm \in {"SEND_SPEED", "ERROR"} /\ Hearing
    BY <1>8 DEF Calm, Phases, Hearing
  <2>3. rotor_rx' = Received(rotor_rx, <<m>>)
    BY <1>2, <2>1, <2>2, Zenon DEF StatorSends
  <2>4. /\ Len(rotor_rx) < Room => Len(rotor_rx') = Len(rotor_rx) + 1 /\ rotor_rx'[Len(rotor_rx')] = m
        /\ rotor_rx' # << >>
        /\ \A i \in DOMAIN rotor_rx' : (i \in DOMAIN rotor_rx /\ rotor_rx'[i] = rotor_rx[i]) \/ rotor_rx'[i] = m
        /\ rotor_rx' \in Seq(ToRotor)
    <3> HIDE DEF ToRotor
    <3> QED
      BY <1>7, <2>1, <2>3, ReceivedOne
  <2>5. \A i \in DOMAIN rotor_rx : rotor_rx[i] = "HB_ACTIVE"
    BY <1>1 DEF Calm, Answered
  <2>6. Answered'
    BY <1>1, <2>1, <2>4, <2>5, Zenon DEF Answered
  <2>7. m # "HB_ACTIVE"
    BY <1>8, <2>1, ExpectedIs
  <2>8. Hidden' => Hidden
    BY <2>4, <2>7, Zenon DEF Hidden
  <2>9. Heard'
    <3>1. CASE fsm = "SEND_SPEED"
      <4>1. Len(rotor_rx) <= 1
        BY <2>5, <3>1 DEF Calm, Heard
      <4>2. Len(rotor_rx) < Room /\ Len(rotor_rx) \in Nat
        <5> HIDE DEF ToRotor
        <5> QED
          BY <1>7, <4>1, BoundsAssumption DEF Paced
      <4>3. Len(rotor_rx') \in DOMAIN rotor_rx' /\ rotor_rx'[Len(rotor_rx')] = m
        <5> HIDE DEF ToRotor
        <5> QED
          BY <2>4, <4>2
      <4>4. ~\A i \in DOMAIN rotor_rx' : rotor_rx'[i] = "HB_ACTIVE"
        BY <2>7, <4>3
      <4> QED
        BY <1>1, <1>6, <2>8, <3>1, <4>4 DEF Calm, Heard
    <3>2. CASE fsm = "ERROR"
      BY <1>1, <3>2 DEF Heard
    <3> QED
      BY <2>2, <3>1, <3>2
  <2> QED
    BY <1>3, <1>4, <1>5, <2>6, <2>9 DEF Calm
<1>9. CASE pc \in {"run", "rx_off"}
  <2>1. stator_rx = <<"HB_ACTIVE">>
    BY <1>1, <1>9 DEF Calm, Asked, AtRest
  <2>2. Reply(Last(stator_rx)) = << >>
    <3>1. Last(<<"HB_ACTIVE">>) = "HB_ACTIVE"
      BY DEF Last
    <3>2. "HB_ACTIVE" \notin Controls /\ "HB_ACTIVE" # "QUERY"
      BY DEF Controls, Control
    <3> QED
      BY <2>1, <3>1, <3>2, Zenon DEF Reply
  <2>3. rotor_rx' = rotor_rx
    <3>1. Received(rotor_rx, << >>) = rotor_rx
      BY <1>7, ReceivedNone
    <3> QED
      BY <1>2, <2>2, <3>1, Zenon DEF StatorSends
  <2>4. Answered'
    BY <1>1, <1>9, <2>3, ExpectedIs DEF Calm, Answered
  <2>5. Hidden' => Hidden
    BY <1>1, <1>9, <2>3 DEF Hidden, Asking
  <2>6. Heard'
    BY <1>1, <1>6, <2>3, <2>5 DEF Calm, Heard
  <2> QED
    BY <1>3, <1>4, <1>5, <2>4, <2>6 DEF Calm
<1>10. pc # "query"
  BY <1>1 DEF Calm, Asked
<1> QED
  BY <1>8, <1>9, <1>10 DEF Calm, Phases

\* Troubles are counted.
LEMMA Troubles ==
  ASSUME Next
  PROVE  (faults' = faults \/ Fault) /\ (jobs' = jobs \/ Job)
<1> USE DEF NoFault
<1>2. CASE StatorStep \/ stator_heartbeat_task \/ control_motor
  BY <1>2 DEF StatorStep, StatorInit, StartRelay, TuningDone, SafeStop, EnterBootloader,
    StatorReset, StatorIdle, NothingReceived, stator_heartbeat_task, control_motor, world
<1>3. CASE process_motor_commands \/ BootloaderHeartbeat \/ MotorResponds \/ Tick
  BY <1>3 DEF process_motor_commands, BootloaderHeartbeat, MotorResponds, Tick, world
<1>4. CASE RotorStep
  <2>1. CASE waiting_for_motor_connection \/ SendControl \/ SendQuery \/ ReplyMissed \/ ControlAcked
    BY <2>1 DEF waiting_for_motor_connection, SendControl, SendQuery, ReplyMissed, ControlAcked
  <2>2. CASE ControlTimedOut \/ StatusReceived \/ QueryTimedOut
    BY <2>2 DEF ControlTimedOut, StatusReceived, QueryTimedOut, TimedOut
  <2>3. CASE display_loop \/ NoPhoneCommand \/ RelayReplied \/ RelayTimedOut \/ UpdateAcked
    BY <2>3 DEF display_loop, NoPhoneCommand, RelayReplied, RelayTimedOut, UpdateAcked, TimedOut
  <2> QED
    BY <1>4, <2>1, <2>2, <2>3, Zenon DEF RotorStep
<1>5. CASE LongStep
  BY <1>5 DEF LongStep, pov_rotor_alloc, SpeedTestDone, EndTransfer,
    SendUpdateCommand, StatorFlashed, StatorUpdateFails, StatorBoots, TimedOut, world
<1>6. CASE Environment
  BY <1>6 DEF Environment, StartTransfer, RelayToMotor, StartStatorUpdate,
    Lose, RotorDies, StatorFails, StatorReset
<1> QED
  BY <1>2, <1>3, <1>4, <1>5, <1>6, Zenon DEF Next

\* Troubles are never forgotten.
LEMMA TroublesStay ==
  ASSUME TypeOK, Next, Undisturbed'
  PROVE  Undisturbed
BY Troubles DEF TypeOK, Undisturbed, Fault, Job

\* Every step keeps Calm until a fault or a command from the phone.
LEMMA NextCalm ==
  ASSUME Counting, Paced, TypeOK, DeafRingIsEmpty, CInv, Next
  PROVE  CInv'
<1> SUFFICES ASSUME Undisturbed' PROVE Calm'
  BY DEF CInv
<1>1. Calm
  BY TroublesStay DEF CInv
<1>2. ~Fault /\ ~Job
  BY NoTrouble
<1>3. /\ fsm \notin {"TRANSFER", "STATOR_UPDATE"} /\ pc \notin {"relay_ack", "relay_status", "bl_ack", "flashing"}
      /\ state # "BOOTLOADER"
  BY <1>1 DEF Calm, Phases, Awake, Connected
<1>4. CASE StatorStep \/ control_motor \/ MotorResponds
  BY <1>1, <1>4, StatorCalm
<1>5. CASE stator_heartbeat_task
  BY <1>1, <1>5, HeartbeatCalm
<1>6. CASE process_motor_commands
  BY <1>1, <1>6, CommandsCalm
<1>7. CASE Tick
  BY <1>1, <1>7, TickCalm
<1>8. CASE RotorStep
  <2>1. ~RelayReplied /\ ~RelayTimedOut /\ ~UpdateAcked
    BY <1>3 DEF RelayReplied, RelayTimedOut, UpdateAcked
  <2> QED
    BY <1>1, <1>8, <2>1, WaitingCalm, SendCalm, MissedCalm, AckedCalm, RequestEndsCalm,
      DisplayCalm, NoPhoneCalm, Zenon DEF RotorStep
<1>9. CASE LongStep
  <2>1. ~EndTransfer /\ ~SendUpdateCommand /\ ~StatorFlashed /\ ~StatorUpdateFails /\ ~StatorBoots
    BY <1>3 DEF EndTransfer, SendUpdateCommand, StatorFlashed, StatorUpdateFails, StatorBoots
  <2> QED
    BY <1>1, <1>9, <2>1, AllocCalm, Zenon DEF LongStep
<1>10. ~BootloaderHeartbeat
  BY <1>3 DEF BootloaderHeartbeat
<1>11. ~Environment
  <2>1. ~StartTransfer /\ ~RelayToMotor /\ ~StartStatorUpdate
    BY <1>2 DEF StartTransfer, RelayToMotor, StartStatorUpdate
  <2>2. ~Lose /\ ~RotorDies /\ ~StatorFails
    BY <1>2, <1>3 DEF Lose, RotorDies, StatorFails
  <2> QED
    BY <2>1, <2>2, Zenon DEF Environment
<1> QED
  BY <1>4, <1>5, <1>6, <1>7, <1>8, <1>9, <1>10, <1>11, Zenon DEF Next

\* Neither board has sent anything yet.
LEMMA InitCalm == Init => CInv
<1> SUFFICES ASSUME Init PROVE Calm
  BY DEF CInv
<1>1. Phases
  BY DEF Init, Phases
<1>2. Awake
  BY DEF Init, Awake, Connected
<1>3. Asked
  BY DEF Init, Asked, AtRest
<1>4. Answered
  BY DEF Init, Answered
<1>5. Heard
  BY DEF Init, Heard
<1> QED
  BY <1>1, <1>2, <1>3, <1>4, <1>5 DEF Calm

\* A rotor that is connected has heard the stator within the timeout.
LEMMA CalmSuffices == Paced /\ TypeOK /\ CInv => NoSpuriousDisconnect
<1> SUFFICES ASSUME Paced, TypeOK, CInv, fsm = "DISPLAYING", Undisturbed, rotor_rx = << >>
             PROVE  ~(unheard > Timeout)
  BY DEF NoSpuriousDisconnect, Undisturbed
<1>1. unheard <= beat + 2
  BY DEF CInv, Calm, Heard
<1> QED
  BY <1>1, BoundsAssumption DEF TypeOK, Timeout, Paced

\* A step that changes nothing.
LEMMA UnchangedCalm ==
  ASSUME CInv, UNCHANGED vars
  PROVE  CInv'
<1>1. UNCHANGED <<fsm, pc, sys_status, rotor_rx, stator_rx, unsent, unheard, due, beat, state, faults, jobs>>
  BY DEF vars, stator, rotor, world
<1>2. Undisturbed' => Calm
  BY <1>1 DEF Undisturbed, CInv
<1>3. Calm => state \notin {"ENTER_BOOTLOADER", "BOOTLOADER"}
  BY DEF Calm, Awake
<1>4. Calm => Calm'
  BY <1>1, <1>3, FrameCalm DEF Listening
<1> QED
  BY <1>2, <1>4 DEF CInv

-----------------------------------------------------------------------------
(* The stator does not stop the motor under a rotor that is there. *)

\* The places where the rotor waits for a reply.
Calls == {"ack", "status", "relay_ack", "relay_status", "bl_ack"}
Shown == {"DISPLAYING", "CHECK_CMD"}
One(b) == IF b THEN 1 ELSE 0

\* A ring of the stator holds a request, one of the rotor holds a reply.
Requests(ring) == \E i \in DOMAIN ring : ring[i] \notin Heartbeats
Replies(ring) == \E i \in DOMAIN ring : ring[i] # "HB_ACTIVE"

\* Where the rotor is in each of its states.
Course ==
  /\ pc \in {"ack", "query", "status"} => fsm \in {"SEND_SPEED", "ERROR"}
  /\ pc \in {"relay_ack", "relay_status"} => fsm = "CHECK_CMD"
  /\ pc \in {"bl_ack", "flashing"} => fsm = "STATOR_UPDATE"
  /\ pc = "rx_off" => fsm = "WAIT_MOTOR"
  /\ fsm = "TRANSFER" => jobs >= 1

\* A request or its reply is under way only while the rotor waits for it, and
\* a reply only once the ring of the stator has been emptied.
Exchange ==
  /\ Requests(stator_rx) => pc \in Calls
  /\ Replies(rotor_rx) => pc \in Calls /\ stator_rx = << >>
  /\ pc = "query" => stator_rx = << >>

\* A rotor that waits has just sent its request, one that displays sends a
\* heartbeat when the last one is an interval old.
Speaking ==
  /\ pc \in Calls => quiet <= One("rotor" \in due)
  /\ fsm # "DEAD" => quiet <= unsent \/ unsent = Interval
  /\ fsm \in Shown => quiet <= unsent /\ ("rotor" \notin due => unsent < Interval)

\* The stator has measured no more silence than there was; while a message
\* waits in its ring, no more than an interval and the tick it waits.
Measured ==
  state = "ACTIVE" =>
    /\ stator_rx = << >> => silence <= quiet
    /\ ~rotor_heartbeat_paused /\ fsm \in Shown \cup {"TRANSFER"} /\ stator_rx # << >>
         => silence <= Interval + One("cmd" \in due)

\* During a transfer the stator has read STANDBY, or it is what it reads last.
Announced ==
  fsm = "TRANSFER" =>
    /\ stator_rx # << >> => Last(stator_rx) = "HB_STANDBY"
    /\ state = "ACTIVE" /\ ~rotor_heartbeat_paused => stator_rx # << >>

\* Between two requests the ring holds the two heartbeats of each transfer and
\* at most one other.
Most == 2 * jobs + One(unsent <= One("cmd" \in due))
Sparse ==
  pc \notin Calls =>
    /\ fsm = "TRANSFER" => Len(stator_rx) <= Most - 1
    /\ fsm = "DEAD" => Len(stator_rx) <= 2 * jobs
    /\ Len(stator_rx) <= Most

Watched == Course /\ Exchange /\ Speaking /\ Measured /\ Announced /\ Sparse
WInv == faults = 0 => Watched

\* A ring has room for the two heartbeats of every transfer.
Roomy == Interval >= 2 /\ Room >= 2 * MaxJobs

\* The numbers behind the ring and the ages.
Numbers ==
  /\ Interval \in Nat /\ Room \in Nat /\ MaxJobs \in Nat /\ Interval >= 2 /\ Room >= 1 /\ Room >= 2 * MaxJobs
  /\ silence \in Nat /\ unsent \in Nat /\ unsent <= Interval /\ quiet \in Nat /\ jobs \in Nat
  /\ Len(stator_rx) \in Nat /\ (stator_rx = << >> => Len(stator_rx) = 0)

\* The numbers behind the ring and the ages are natural numbers.
LEMMA NumbersHold ==
  ASSUME Roomy, TypeOK
  PROVE  Numbers
<1>1. Len(stator_rx) \in Nat /\ (stator_rx = << >> => Len(stator_rx) = 0)
  <2>1. stator_rx \in Seq(ToStator)
    BY DEF TypeOK
  <2> HIDE DEF ToStator
  <2> QED
    BY <2>1
<1>2. silence \in Nat /\ unsent \in Nat /\ unsent <= Interval /\ quiet \in Nat /\ jobs \in Nat
  BY BoundsAssumption, TimeoutType DEF TypeOK
<1> QED
  BY <1>1, <1>2, BoundsAssumption DEF Numbers, Roomy

\* What a ring holds that takes heartbeats.
LEMMA ReceivedBeats ==
  ASSUME NEW r \in Seq(ToStator), NEW msgs \in Seq(Heartbeats), msgs # << >>,
         NEW q, q = Received(r, msgs)
  PROVE  /\ q # << >> /\ Len(q) <= Len(r) + Len(msgs)
         /\ Requests(q) => Requests(r)
<1> DEFINE all == r \o msgs
<1>1. /\ all \in Seq(ToStator) /\ Len(all) = Len(r) + Len(msgs) /\ Len(msgs) > 0
      /\ \A i \in 1..Len(all) : (i \in 1..Len(r) /\ all[i] = r[i]) \/ all[i] \in Heartbeats
      /\ Len(r) \in Nat /\ Len(msgs) \in Nat /\ Room \in Nat \ {0}
  <2>1. msgs \in Seq(ToStator)
    BY DEF ToStator
  <2>2. all \in Seq(ToStator) /\ Len(all) = Len(r) + Len(msgs) /\ Len(msgs) > 0
        /\ Len(r) \in Nat /\ Len(msgs) \in Nat /\ Room \in Nat \ {0}
    <3> HIDE DEF ToStator, Heartbeats
    <3> QED
      BY <2>1, BoundsAssumption
  <2>3. \A i \in 1..Len(all) : (i \in 1..Len(r) /\ all[i] = r[i]) \/ all[i] \in Heartbeats
    <3> HIDE DEF ToStator, Heartbeats
    <3> QED
      BY <2>1, <2>2
  <2> QED
    BY <2>2, <2>3
<1> HIDE DEF all
<1>2. q \in Seq(ToStator) /\ q # << >> /\ Len(q) <= Len(all) /\ \A i \in 1..Len(q) : i \in 1..Len(all) /\ q[i] = all[i]
  <2> HIDE DEF ToStator
  <2>1. CASE Len(all) <= Room
    <3>1. q = all
      BY <2>1, Zenon DEF Received, all
    <3> QED
      BY <1>1, <3>1
  <2>2. CASE ~(Len(all) <= Room)
    <3>1. q = SubSeq(all, 1, Room)
      BY <2>2, Zenon DEF Received, all
    <3>2. q \in Seq(ToStator) /\ Len(q) = Room /\ \A i \in 1..Room : q[i] = all[i]
      BY <1>1, <2>2, <3>1
    <3>3. q # << >>
      BY <1>1, <3>2
    <3>4. Room <= Len(all) /\ \A i \in 1..Room : i \in 1..Len(all)
      BY <1>1, <2>2
    <3> QED
      BY <3>2, <3>3, <3>4, Zenon
  <2> QED
    BY <2>1, <2>2
<1>3. DOMAIN q = 1..Len(q) /\ DOMAIN r = 1..Len(r)
  BY <1>2
<1>4. Requests(q) => Requests(r)
  BY <1>1, <1>2, <1>3, Zenon DEF Requests
<1> QED
  BY <1>1, <1>2, <1>4

\* What n heartbeats do to the link.
Beats(n) ==
  IF n = 0 THEN UNCHANGED <<stator_rx, quiet>>
  ELSE /\ quiet' = 0
       /\ Listening <=> stator_rx' # << >>
       /\ Len(stator_rx') <= Len(stator_rx) + n
       /\ Requests(stator_rx') => Requests(stator_rx)

\* Sending heartbeats.
LEMMA BeatsSent ==
  ASSUME TypeOK, DeafRingIsEmpty, NEW msgs \in Seq(Heartbeats), RotorSends(msgs)
  PROVE  Beats(Len(msgs))
<1>0. stator_rx \in Seq(ToStator) /\ Len(stator_rx) \in Nat /\ Len(msgs) \in Nat
      /\ (msgs = << >> <=> Len(msgs) = 0)
  <2>1. stator_rx \in Seq(ToStator)
    BY DEF TypeOK
  <2> HIDE DEF ToStator, Heartbeats
  <2> QED
    BY <2>1
<1>1. CASE msgs = << >>
  BY <1>0, <1>1 DEF Beats, RotorSends
<1>2. CASE msgs # << >> /\ Listening
  BY <1>0, <1>2, ReceivedBeats, Zenon DEF Beats, RotorSends
<1>3. CASE msgs # << >> /\ ~Listening
  <2>1. stator_rx' = stator_rx /\ stator_rx = << >> /\ quiet' = 0
    BY <1>3 DEF RotorSends, DeafRingIsEmpty
  <2>2. Len(stator_rx) <= Len(stator_rx) + Len(msgs)
    BY <1>0
  <2> QED
    BY <1>0, <1>3, <2>1, <2>2, Zenon DEF Beats
<1> QED
  BY <1>1, <1>2, <1>3

\* What the end of a pass does to the link.
Passed(n) ==
  /\ due' = due \ {"rotor"}
  /\ \/ unsent < Interval /\ unsent' = unsent /\ Beats(n)
     \/ unsent = Interval /\ unsent' = 0 /\ Beats(n + 1)

\* The end of a pass sends a heartbeat that is due.
LEMMA PassBeats ==
  ASSUME TypeOK, DeafRingIsEmpty
  PROVE  /\ PassEnds(<< >>) => Passed(0)
         /\ PassEnds(<<"HB_ACTIVE">>) => Passed(1)
<1> DEFINE H == "HB_ACTIVE"
<1>1. /\ << >> \in Seq(Heartbeats) /\ <<H>> \in Seq(Heartbeats) /\ <<H>> \o <<H>> \in Seq(Heartbeats)
      /\ Len(<< >>) = 0 /\ Len(<<H>>) = 1 /\ Len(<<H>> \o <<H>>) = 2
      /\ << >> \o << >> = << >> /\ << >> \o <<H>> = <<H>>
      /\ <<H>> \o << >> = <<H>>
  <2>1. H \in Heartbeats
    BY DEF Heartbeats
  <2>2. << >> \in Seq(Heartbeats) /\ <<H>> \in Seq(Heartbeats)
    <3> HIDE DEF H, Heartbeats
    <3> QED
      BY <2>1
  <2>3. << >> \o << >> = << >> /\ << >> \o <<H>> = <<H>> /\ <<H>> \o << >> = <<H>>
    <3> HIDE DEF H
    <3> QED
      OBVIOUS
  <2>4. <<H>> \o <<H>> \in Seq(Heartbeats) /\ Len(<<H>> \o <<H>>) = 2
    <3> HIDE DEF H, Heartbeats
    <3> QED
      BY <2>2
  <2> QED
    BY <2>2, <2>3, <2>4
<1>2. unsent \in Nat /\ Interval \in Nat /\ unsent <= Interval
  BY BoundsAssumption DEF TypeOK
<1>3. /\ RotorSends(<< >>) => Beats(0)
      /\ RotorSends(<<H>>) => Beats(1)
      /\ RotorSends(<<H>> \o <<H>>) => Beats(2)
  <2>1. RotorSends(<< >>) => Beats(Len(<< >>))
    BY <1>1, BeatsSent, Zenon
  <2>2. RotorSends(<<H>>) => Beats(Len(<<H>>))
    BY <1>1, BeatsSent, Zenon
  <2>3. RotorSends(<<H>> \o <<H>>) => Beats(Len(<<H>> \o <<H>>))
    BY <1>1, BeatsSent, Zenon
  <2> QED
    BY <1>1, <2>1, <2>2, <2>3, Zenon
<1>4. CASE unsent >= Interval
  <2>1. unsent = Interval /\ 0 + 1 = 1 /\ 1 + 1 = 2
    BY <1>2, <1>4
  <2>2. PassEnds(<< >>) => RotorSends(<<H>>) /\ unsent' = 0 /\ due' = due \ {"rotor"}
    BY <1>1, <1>4, Zenon DEF PassEnds, Ran
  <2>3. PassEnds(<<H>>) => RotorSends(<<H>> \o <<H>>) /\ unsent' = 0 /\ due' = due \ {"rotor"}
    BY <1>1, <1>4, Zenon DEF PassEnds, Ran
  <2> QED
    BY <1>3, <2>1, <2>2, <2>3, Zenon DEF Passed
<1>5. CASE ~(unsent >= Interval)
  <2>1. unsent < Interval
    BY <1>2, <1>5
  <2>2. PassEnds(<< >>) => RotorSends(<< >>) /\ unsent' = unsent /\ due' = due \ {"rotor"}
    BY <1>1, <1>5, Zenon DEF PassEnds, Ran
  <2>3. PassEnds(<<H>>) => RotorSends(<<H>>) /\ unsent' = unsent /\ due' = due \ {"rotor"}
    BY <1>1, <1>5, Zenon DEF PassEnds, Ran
  <2> QED
    BY <1>3, <2>1, <2>2, <2>3, Zenon DEF Passed
<1> QED
  BY <1>4, <1>5

\* The link before a step, and the types after it.
Before == Numbers /\ Numbers' /\ DeafRingIsEmpty /\ pc \in Places /\ Watched

\* A pass of the main loop that ends with nothing under way.
LEMMA PassWatched ==
  ASSUME Before, RotorFrame, Passed(0), ~Replies(rotor_rx'), jobs' >= jobs,
         fsm \notin {"TRANSFER", "DEAD"}, stator_rx = << >> \/ pc \notin Calls,
         fsm' \in {"WAIT_MOTOR", "SEND_SPEED", "ERROR", "STATOR_UPDATE"} \cup Shown,
         pc' = "run" \/ (pc' = "rx_off" /\ fsm' = "WAIT_MOTOR"),
         fsm' \in Shown => fsm \in Shown \/ (pc = "status" /\ stator_rx = << >>)
  PROVE  Watched'
<1> USE DEF Before, Watched
<1>1. /\ UNCHANGED <<state, rotor_heartbeat_paused, silence>>
      /\ "rotor" \notin due' /\ ("cmd" \in due' <=> "cmd" \in due)
      /\ \/ unsent < Interval /\ unsent' = unsent /\ stator_rx' = stator_rx /\ quiet' = quiet
         \/ /\ unsent = Interval /\ unsent' = 0 /\ quiet' = 0
            /\ Listening <=> stator_rx' # << >>
            /\ Len(stator_rx') <= Len(stator_rx) + 1
            /\ Requests(stator_rx') => Requests(stator_rx)
  BY DEF RotorFrame, Passed, Beats
<1>2. pc' \notin Calls /\ fsm' \notin {"TRANSFER", "DEAD"} /\ pc' # "query"
  BY DEF Calls, Shown
<1>3. Course'
  BY <1>2 DEF Course
<1>4. ~Requests(stator_rx)
  <2>1. stator_rx = << >> => ~Requests(stator_rx)
    BY DEF Requests
  <2> QED
    BY <2>1 DEF Exchange
<1>5. Exchange'
  BY <1>1, <1>2, <1>4 DEF Exchange
<1>6. Speaking'
  BY <1>1, <1>2 DEF Speaking, Numbers
<1>7. Announced'
  BY <1>2 DEF Announced
<1>8. Sparse'
  BY <1>1, <1>2 DEF Sparse, Most, One, Numbers
<1>9. ASSUME state = "ACTIVE", stator_rx' = << >> PROVE silence' <= quiet'
  BY <1>1, <1>9 DEF Measured, Listening
<1>10. ASSUME state = "ACTIVE", ~rotor_heartbeat_paused, fsm' \in Shown
       PROVE  silence' <= Interval + One("cmd" \in due')
  <2>1. CASE stator_rx # << >>
    BY <1>1, <1>10, <2>1 DEF Measured, One
  <2>2. CASE stator_rx = << >>
    <3>1. silence <= quiet
      BY <1>10, <2>2 DEF Measured
    <3>2. quiet <= Interval
      BY <1>10 DEF Speaking, Calls, One, Numbers
    <3> QED
      BY <1>1, <3>1, <3>2 DEF One, Numbers
  <2> QED
    BY <2>1, <2>2
<1>11. Measured'
  BY <1>1, <1>2, <1>9, <1>10 DEF Measured
<1> QED
  BY <1>3, <1>5, <1>6, <1>7, <1>8, <1>11

\* A message is sent.
Put == quiet' = 0 /\ (Listening <=> stator_rx' # << >>)

\* The rotor sends a request, and waits.
LEMMA RequestWatched ==
  ASSUME Before, RotorFrame, Put, UNCHANGED <<unsent, due>>, ~Replies(rotor_rx'),
         jobs' >= jobs, fsm \notin {"TRANSFER", "DEAD"}, fsm' = fsm, pc' \in Calls,
         pc' \in {"ack", "status"} => fsm \in {"SEND_SPEED", "ERROR"},
         pc' \in {"relay_ack", "relay_status"} => fsm = "CHECK_CMD",
         pc' = "bl_ack" => fsm = "STATOR_UPDATE"
  PROVE  Watched'
<1> USE DEF Before, Watched
<1>1. UNCHANGED <<state, rotor_heartbeat_paused, silence>>
  BY DEF RotorFrame
<1>2. Course' /\ Announced' /\ Sparse'
  BY DEF Course, Announced, Sparse, Calls
<1>3. Exchange'
  BY DEF Exchange, Calls
<1>4. Speaking'
  BY DEF Speaking, Put, Numbers, One
<1>5. ASSUME state = "ACTIVE", ~rotor_heartbeat_paused, fsm \in Shown
      PROVE  silence <= Interval + One("cmd" \in due)
  <2>1. CASE stator_rx # << >>
    BY <1>5, <2>1 DEF Measured
  <2>2. CASE stator_rx = << >>
    <3>1. silence <= quiet /\ quiet <= unsent
      BY <1>5, <2>2 DEF Measured, Speaking
    <3> QED
      BY <3>1 DEF One, Numbers
  <2> QED
    BY <2>1, <2>2
<1>6. Measured'
  BY <1>1, <1>5 DEF Measured, Put, Listening
<1> QED
  BY <1>2, <1>3, <1>4, <1>6

\* The rotor goes on without a message: it has a reply it goes on from, or
\* starts its main loop.
LEMMA StillWatched ==
  ASSUME Before, RotorFrame, UNCHANGED <<stator_rx, quiet, unsent, jobs>>, ~Replies(rotor_rx'),
         due' \in {due, due \ {"rotor"}},
         \/ UNCHANGED <<fsm, pc, due>>
         \/ /\ fsm' = fsm /\ stator_rx = << >>
            /\ \/ pc' = "query" /\ fsm \in {"SEND_SPEED", "ERROR"}
               \/ pc' = "flashing" /\ fsm = "STATOR_UPDATE"
         \/ fsm = "STARTUP" /\ fsm' = "WAIT_MOTOR" /\ pc' = "rx_off"
  PROVE  Watched'
<1> USE DEF Before, Watched
<1>1. UNCHANGED <<state, rotor_heartbeat_paused, silence>> /\ ("cmd" \in due' <=> "cmd" \in due)
  BY DEF RotorFrame
<1>2. Course' /\ Announced'
  BY <1>1 DEF Course, Announced
<1>3. Exchange'
  <2>1. stator_rx = << >> => ~Requests(stator_rx)
    BY DEF Requests
  <2>2. fsm = "STARTUP" => pc = "run"
    BY DEF Course, Places
  <2> QED
    BY <2>1, <2>2 DEF Exchange, Calls
<1>4. Speaking'
  BY DEF Speaking, Numbers, Calls, Shown
<1>5. Measured'
  BY <1>1 DEF Measured, Shown, One
<1>6. Sparse'
  <2>1. fsm = "STARTUP" => pc = "run"
    BY DEF Course, Places
  <2> QED
    BY <1>1, <2>1 DEF Sparse, Most, One, Numbers, Calls
<1> QED
  BY <1>2, <1>3, <1>4, <1>5, <1>6

\* The rotor starts, and greets the stator.
LEMMA AllocWatched ==
  ASSUME Before, TypeOK, pov_rotor_alloc
  PROVE  Watched'
<1> USE DEF Before, Watched
<1>1. /\ fsm = "DEAD" /\ fsm' = "STARTUP" /\ pc' = "run" /\ unsent' = 0 /\ rotor_rx' = << >>
      /\ UNCHANGED <<state, rotor_heartbeat_paused, silence, due, jobs>>
      /\ RotorSends(<<"HB_ACTIVE">>)
  BY DEF pov_rotor_alloc, Goto, RotorFrame
<1>2. /\ quiet' = 0 /\ (Listening <=> stator_rx' # << >>)
      /\ Len(stator_rx') <= Len(stator_rx) + 1
      /\ Requests(stator_rx') => Requests(stator_rx)
  <2>1. <<"HB_ACTIVE">> \in Seq(Heartbeats) /\ Len(<<"HB_ACTIVE">>) = 1
    BY DEF Heartbeats
  <2>2. Beats(1)
    BY <1>1, <2>1, BeatsSent, Zenon
  <2> QED
    BY <2>2 DEF Beats
<1>3. pc = "run"
  BY <1>1 DEF Course, Places
<1>4. Course' /\ Announced' /\ Speaking'
  BY <1>1, <1>2 DEF Course, Announced, Speaking, Calls, Shown, Numbers
<1>5. Exchange'
  BY <1>1, <1>2, <1>3 DEF Exchange, Calls, Replies
<1>6. Measured'
  BY <1>1, <1>2 DEF Measured, Shown, Listening
<1>7. Sparse'
  BY <1>1, <1>2, <1>3 DEF Sparse, Most, One, Numbers, Calls
<1> QED
  BY <1>4, <1>5, <1>6, <1>7

\* The rotor resets at the end of an update of its own.
LEMMA DiesWatched ==
  ASSUME Before, RotorDies, fsm = "TRANSFER"
  PROVE  Watched'
<1> USE DEF Before, Watched
<1>1. /\ fsm' = "DEAD" /\ pc' = "run" /\ unsent' = 0 /\ rotor_rx' = << >> /\ due' = due \ {"rotor"}
      /\ UNCHANGED <<state, rotor_heartbeat_paused, silence, stator_rx, quiet, jobs>>
  BY DEF RotorDies, Goto, stator
<1>2. pc = "run"
  BY DEF Course, Places
<1>3. Course' /\ Announced' /\ Speaking' /\ Measured'
  BY <1>1 DEF Course, Announced, Speaking, Measured, Calls, Shown
<1>4. Exchange'
  BY <1>1, <1>2 DEF Exchange, Calls, Replies
<1>5. Sparse'
  BY <1>1, <1>2 DEF Sparse, Most, One, Numbers, Calls
<1> QED
  BY <1>3, <1>4, <1>5

\* A transfer starts: STANDBY finds room and is the last message.
LEMMA StartWatched ==
  ASSUME Before, TypeOK, StartTransfer
  PROVE  Watched'
<1> USE DEF Before, Watched
<1>1. /\ fsm = "CHECK_CMD" /\ pc = "run" /\ fsm' = "TRANSFER" /\ pc' = "run" /\ jobs' = jobs + 1 /\ jobs < MaxJobs
      /\ UNCHANGED <<state, rotor_heartbeat_paused, silence, due, unsent, rotor_rx>>
      /\ RotorSends(<<"HB_STANDBY">>)
  BY DEF StartTransfer, CheckingPhone, Job, Goto, RotorFrame, Within, NoDrain
<1>2. /\ quiet' = 0 /\ (Listening <=> stator_rx' # << >>)
      /\ Len(stator_rx') <= Len(stator_rx) + 1
      /\ Requests(stator_rx') => Requests(stator_rx)
  <2>1. <<"HB_STANDBY">> \in Seq(Heartbeats) /\ Len(<<"HB_STANDBY">>) = 1
    BY DEF Heartbeats
  <2>2. Beats(1)
    BY <1>1, <2>1, BeatsSent, Zenon
  <2> QED
    BY <2>2 DEF Beats
<1>3. Len(stator_rx) < Room
  BY <1>1 DEF Sparse, Most, One, Numbers, Calls
<1>4. stator_rx' # << >> => Last(stator_rx') = "HB_STANDBY"
  <2>1. <<"HB_STANDBY">> # << >>
    OBVIOUS
  <2>2. stator_rx' # << >> => stator_rx' = Received(stator_rx, <<"HB_STANDBY">>)
    BY <1>1, <1>2, <2>1, Zenon DEF RotorSends
  <2>3. "HB_STANDBY" \in ToStator /\ stator_rx \in Seq(ToStator) /\ Len(stator_rx) <= Room
    BY Messages DEF TypeOK
  <2>4. stator_rx' # << >> => stator_rx'[Len(stator_rx')] = "HB_STANDBY"
    <3> HIDE DEF ToStator
    <3> QED
      BY <1>3, <2>2, <2>3, ReceivedOne
  <2> QED
    BY <2>4, Zenon DEF Last
<1>5. Course' /\ Speaking'
  BY <1>1, <1>2 DEF Course, Speaking, Calls, Shown, Numbers
<1>6. Exchange'
  BY <1>1, <1>2 DEF Exchange, Calls
<1>7. Announced'
  BY <1>1, <1>2, <1>4 DEF Announced, Listening
<1>8. Sparse'
  BY <1>1, <1>2 DEF Sparse, Most, One, Numbers, Calls
<1>9. ASSUME state = "ACTIVE", ~rotor_heartbeat_paused
      PROVE  silence <= Interval + One("cmd" \in due)
  <2>1. CASE stator_rx # << >>
    BY <1>1, <1>9, <2>1 DEF Measured, Shown
  <2>2. CASE stator_rx = << >>
    <3>1. silence <= quiet /\ quiet <= unsent
      BY <1>1, <1>9, <2>2 DEF Measured, Speaking, Shown
    <3> QED
      BY <3>1 DEF One, Numbers
  <2> QED
    BY <2>1, <2>2
<1>10. Measured'
  BY <1>1, <1>2, <1>9 DEF Measured, Listening
<1> QED
  BY <1>5, <1>6, <1>7, <1>8, <1>10

\* A transfer ends, and the rotor is back.
LEMMA EndWatched ==
  ASSUME Before, TypeOK, EndTransfer
  PROVE  Watched'
<1> USE DEF Before, Watched
<1>1. /\ fsm = "TRANSFER" /\ fsm' \in {"DISPLAYING", "ERROR"} /\ pc' = "run"
      /\ UNCHANGED <<state, rotor_heartbeat_paused, silence, rotor_rx, jobs>>
      /\ PassEnds(<<"HB_ACTIVE">>)
  BY DEF EndTransfer, Goto, RotorFrame, NoDrain
<1>2. /\ quiet' = 0 /\ (Listening <=> stator_rx' # << >>)
      /\ Requests(stator_rx') => Requests(stator_rx)
      /\ "rotor" \notin due' /\ ("cmd" \in due' <=> "cmd" \in due)
      /\ \/ unsent < Interval /\ unsent' = unsent /\ Len(stator_rx') <= Len(stator_rx) + 1
         \/ unsent = Interval /\ unsent' = 0 /\ Len(stator_rx') <= Len(stator_rx) + 2
  <2>1. Passed(1)
    BY <1>1, PassBeats, Zenon
  <2> QED
    BY <2>1 DEF Passed, Beats
<1>3. pc = "run"
  BY <1>1 DEF Course, Places
<1>4. Course' /\ Announced' /\ Speaking'
  BY <1>1, <1>2 DEF Course, Announced, Speaking, Calls, Shown, Numbers
<1>5. Exchange'
  BY <1>1, <1>2, <1>3 DEF Exchange, Calls
<1>6. Sparse'
  BY <1>1, <1>2, <1>3 DEF Sparse, Most, One, Numbers, Calls
<1>7. Measured'
  BY <1>1, <1>2 DEF Measured, Announced, Listening, Shown, One
<1> QED
  BY <1>4, <1>5, <1>6, <1>7

\* Time passes once the stator has read its ring and the rotor has had its turn.
LEMMA TickWatched ==
  ASSUME Before, Tick
  PROVE  Watched'
<1> USE DEF Before, Watched
<1>1. /\ "cmd" \notin due /\ (~Blocked => "rotor" \notin due /\ "rotor" \in due')
      /\ Listening <=> "cmd" \in due'
      /\ UNCHANGED <<state, rotor_heartbeat_paused, stator_rx, fsm, pc, rotor_rx, jobs>>
  BY DEF Tick
<1>2. /\ unsent' = IF unsent < Interval THEN unsent + 1 ELSE Interval
      /\ silence' <= silence + 1
      /\ quiet' = quiet + 1 \/ (quiet' = Timeout + 3 /\ quiet >= Timeout + 3)
      /\ silence' <= Timeout + 1
  BY TimeoutType DEF Tick, Older, Numbers
<1>3. Timeout = 2 * Interval
  BY DEF Timeout
<1>4. Course' /\ Announced' /\ Exchange'
  BY <1>1 DEF Course, Announced, Exchange
<1>5. Speaking'
  <2>1. pc \in Calls \/ fsm \in Shown => ~Blocked
    BY DEF Course, Calls, Shown, Blocked
  <2>2. pc' \in Calls => quiet' <= One("rotor" \in due')
    BY <1>1, <1>2, <1>3, <2>1 DEF Speaking, One, Numbers
  <2>3. fsm' # "DEAD" => quiet' <= unsent' \/ unsent' = Interval
    BY <1>1, <1>2, <1>3 DEF Speaking, Numbers
  <2>4. fsm' \in Shown => quiet' <= unsent' /\ "rotor" \in due'
    BY <1>1, <1>2, <1>3, <2>1 DEF Speaking, Numbers
  <2> QED
    BY <2>2, <2>3, <2>4 DEF Speaking
<1>6. Measured'
  BY <1>1, <1>2, <1>3 DEF Measured, One, Numbers, Listening
<1>7. Sparse'
  BY <1>1, <1>2 DEF Sparse, Most, One, Numbers, DeafRingIsEmpty, Course
<1> QED
  BY <1>4, <1>5, <1>6, <1>7

\* A step of the stator that reads nothing, or a reset of the stator.
LEMMA StatorWatched ==
  ASSUME Before, UNCHANGED <<fsm, pc, unsent, quiet, jobs>>,
         Replies(rotor_rx') => Replies(rotor_rx), "rotor" \in due' <=> "rotor" \in due,
         \/ stator_rx' = stator_rx /\ ("cmd" \in due' <=> "cmd" \in due)
         \/ stator_rx' = << >>,
         state' = "ACTIVE" => /\ state = "ACTIVE" /\ stator_rx' = stator_rx
                              /\ UNCHANGED <<silence, rotor_heartbeat_paused>>
  PROVE  Watched'
<1> USE DEF Before, Watched
<1>1. stator_rx' = << >> => ~Requests(stator_rx')
  BY DEF Requests
<1>2. Course' /\ Announced' /\ Speaking'
  BY DEF Course, Announced, Speaking, Numbers, One
<1>3. Exchange'
  BY <1>1 DEF Exchange
<1>4. Measured'
  BY DEF Measured, One
<1>5. Sparse'
  BY DEF Sparse, Most, One, Numbers, Course
<1> QED
  BY <1>2, <1>3, <1>4, <1>5

\* Heartbeats get no reply.
LEMMA BeatsUnanswered ==
  ASSUME Counting, TypeOK, process_motor_commands, ~Requests(stator_rx)
  PROVE  rotor_rx' = rotor_rx
<1>1. stator_rx \in Seq(ToStator) /\ stator_rx # << >> /\ rotor_rx \in Seq(ToRotor) /\ Len(rotor_rx) <= Room
  BY DEF TypeOK, process_motor_commands
<1>2. Len(stator_rx) \in DOMAIN stator_rx
  <2> HIDE DEF ToStator
  <2> QED
    BY <1>1
<1>3. Last(stator_rx) \in Heartbeats /\ \A i \in DOMAIN stator_rx : stator_rx[i] \in Heartbeats
  BY <1>2, Zenon DEF Requests, Last
<1>4. \A m \in Heartbeats : m # "BL_UPDATE" /\ m # "QUERY" /\ m \notin Controls
  BY DEF Heartbeats, Controls, Control
<1>5. BatchAcks(stator_rx) = << >> /\ Reply(Last(stator_rx)) = << >>
  BY <1>3, <1>4, NoAcks, Zenon DEF Reply
<1>6. << >> \o << >> = << >>
  OBVIOUS
<1>7. Received(rotor_rx, << >>) = rotor_rx
  BY <1>1, ReceivedNone
<1>8. StatorSends(BatchAcks(stator_rx) \o Reply(Last(stator_rx)))
  BY DEF process_motor_commands
<1> QED
  BY <1>5, <1>6, <1>7, <1>8, Zenon DEF StatorSends

\* The command task reads the ring.
LEMMA CommandsWatched ==
  ASSUME Counting, Before, TypeOK, process_motor_commands
  PROVE  Watched'
<1> USE DEF Before, Watched
<1>1. /\ stator_rx # << >> /\ stator_rx' = << >> /\ silence' = 0
      /\ rotor_heartbeat_paused' = PausedAfter(Last(stator_rx))
      /\ UNCHANGED <<fsm, pc, unsent, quiet, jobs>>
      /\ due' = due \ {"cmd"}
  BY DEF process_motor_commands, Ran
<1>2. Course' /\ Speaking'
  BY <1>1 DEF Course, Speaking, Numbers, One
<1>3. Exchange'
  <2>1. ~Requests(stator_rx')
    BY <1>1 DEF Requests
  <2>2. Replies(rotor_rx') => pc \in Calls
    BY BeatsUnanswered DEF Exchange
  <2> QED
    BY <1>1, <2>1, <2>2 DEF Exchange
<1>4. Measured'
  BY <1>1 DEF Measured, Numbers
<1>5. Announced'
  BY <1>1 DEF Announced, PausedAfter, Heartbeats
<1>6. Sparse'
  BY <1>1 DEF Sparse, Most, One, Numbers, Course
<1> QED
  BY <1>2, <1>3, <1>4, <1>5, <1>6

\* The stator sends a heartbeat, which is no reply.
LEMMA BeatIsNoReply ==
  ASSUME TypeOK, StatorSends(<<"HB_ACTIVE">>)
  PROVE  Replies(rotor_rx') => Replies(rotor_rx)
<1>1. CASE Hearing
  <2>1. rotor_rx \in Seq(ToRotor) /\ Len(rotor_rx) <= Room /\ "HB_ACTIVE" \in ToRotor
    BY DEF TypeOK, ToRotor
  <2>2. rotor_rx' = Received(rotor_rx, <<"HB_ACTIVE">>)
    BY <1>1 DEF StatorSends
  <2>3. \A i \in DOMAIN rotor_rx' : (i \in DOMAIN rotor_rx /\ rotor_rx'[i] = rotor_rx[i]) \/ rotor_rx'[i] = "HB_ACTIVE"
    <3> HIDE DEF ToRotor
    <3> QED
      BY <2>1, <2>2, ReceivedOne
  <2> QED
    BY <2>3, Zenon DEF Replies
<1>2. CASE ~Hearing
  BY <1>2 DEF StatorSends
<1> QED
  BY <1>1, <1>2

\* The steps of the stator that read nothing.
LEMMA StatorStepWatched ==
  ASSUME Before, TypeOK,
         StatorStep \/ control_motor \/ MotorResponds \/ StatorBoots
         \/ stator_heartbeat_task \/ BootloaderHeartbeat
  PROVE  Watched'
<1>1. CASE StatorInit \/ StartRelay \/ SafeStop \/ TuningDone
  BY <1>1, StatorWatched DEF StatorInit, StartRelay, SafeStop, TuningDone, Ran, rotor
<1>2. CASE EnterBootloader
  BY <1>2, StatorWatched DEF EnterBootloader, StatorReset, rotor
<1>3. CASE StatorIdle
  BY <1>3, StatorWatched DEF StatorIdle, Ran, rotor, stator
<1>4. CASE NothingReceived
  BY <1>4, StatorWatched DEF NothingReceived, Ran, rotor, stator
<1>5. CASE control_motor \/ StatorBoots
  BY <1>5, StatorWatched DEF control_motor, StatorBoots, rotor, world
<1>6. CASE MotorResponds
  BY <1>6, StatorWatched DEF MotorResponds, rotor, stator
<1>7. CASE stator_heartbeat_task
  BY <1>7, StatorWatched, BeatIsNoReply DEF stator_heartbeat_task, world
<1>8. CASE BootloaderHeartbeat
  BY <1>8, StatorWatched, BeatIsNoReply DEF BootloaderHeartbeat, stator, world
<1> QED
  BY <1>1, <1>2, <1>3, <1>4, <1>5, <1>6, <1>7, <1>8, Zenon DEF StatorStep

\* Inside a request: a reply, or a timeout that is no fault, finds the ring of
\* the stator empty.
LEMMA CallEnds ==
  ASSUME Before, TypeOK, pc \in Calls, Replied \/ (TimedOut /\ faults = 0 /\ faults' = 0)
  PROVE  stator_rx = << >>
<1>1. CASE Replied
  <2>1. Len(rotor_rx) \in DOMAIN rotor_rx
    <3>1. rotor_rx \in Seq(ToRotor) /\ rotor_rx # << >>
      BY <1>1 DEF TypeOK, Replied
    <3> HIDE DEF ToRotor
    <3> QED
      BY <3>1
  <2>2. "HB_ACTIVE" \notin Expected
    BY DEF Expected, Status, RPM
  <2>3. Replies(rotor_rx)
    BY <1>1, <2>1, <2>2, Zenon DEF Replied, Last, Replies
  <2> QED
    BY <2>3 DEF Before, Watched, Exchange
<1>2. CASE TimedOut /\ faults = 0 /\ faults' = 0
  BY <1>2 DEF TimedOut, Fault, Before, DeafRingIsEmpty
<1> QED
  BY <1>1, <1>2

\* A ring that has been read, and one that holds no reply, hold none.
LEMMA NoReplies ==
  ASSUME Before, TypeOK
  PROVE  /\ Drain => ~Replies(rotor_rx')
         /\ NoDrain /\ pc \notin Calls => ~Replies(rotor_rx')
         /\ NoDrain /\ TimedOut => ~Replies(rotor_rx')
BY DEF Drain, NoDrain, TimedOut, Replies, Before, Watched, Exchange

\* The passes of the rotor that end with nothing under way.
LEMMA PassesWatched ==
  ASSUME Before, TypeOK, faults = 0, faults' = 0,
         \/ waiting_for_motor_connection \/ display_loop \/ NoPhoneCommand
         \/ RelayReplied \/ RelayTimedOut \/ StartStatorUpdate
         \/ StatorFlashed \/ StatorUpdateFails
  PROVE  Watched'
<1> USE PassBeats, NoReplies
<1>0. DeafRingIsEmpty /\ Course /\ pc \in Places /\ jobs \in Nat
  BY DEF Before, Watched, Numbers
<1>1. CASE waiting_for_motor_connection
  <2>1. Drain /\ PassEnds(<< >>) /\ RotorFrame /\ jobs' = jobs /\ pc' = "run"
        /\ fsm' \in {"WAIT_MOTOR", "SEND_SPEED"} /\ fsm = "WAIT_MOTOR"
    BY <1>1 DEF waiting_for_motor_connection, Goto
  <2>2. pc \notin Calls
    BY <1>0, <2>1 DEF Course, Calls
  <2> QED
    BY <1>0, <2>1, <2>2, PassWatched DEF Shown
<1>2. CASE display_loop
  <2>1. Drain /\ PassEnds(<< >>) /\ RotorFrame /\ jobs' = jobs /\ pc' = "run"
        /\ fsm' \in {"ERROR", "CHECK_CMD"} /\ fsm = "DISPLAYING"
    BY <1>2 DEF display_loop, Goto
  <2>2. pc \notin Calls
    BY <1>0, <2>1 DEF Course, Calls
  <2> QED
    BY <1>0, <2>1, <2>2, PassWatched DEF Shown
<1>3. CASE NoPhoneCommand \/ StartStatorUpdate
  <2>1. NoDrain /\ PassEnds(<< >>) /\ RotorFrame /\ jobs' >= jobs /\ pc' = "run"
        /\ fsm' \in {"DISPLAYING", "ERROR", "STATOR_UPDATE"} /\ fsm = "CHECK_CMD" /\ pc = "run"
    BY <1>0, <1>3 DEF NoPhoneCommand, StartStatorUpdate, CheckingPhone, Job, Goto
  <2> QED
    BY <1>0, <2>1, PassWatched DEF Shown, Calls
<1>4. CASE RelayReplied \/ RelayTimedOut
  <2>1. (Replied /\ Drain) \/ (TimedOut /\ NoDrain)
    BY <1>4, Zenon DEF RelayReplied, RelayTimedOut
  <2>2. PassEnds(<< >>) /\ RotorFrame /\ jobs' = jobs /\ pc' = "run" /\ fsm' \in Shown
        /\ pc \in {"relay_ack", "relay_status"}
    BY <1>4 DEF RelayReplied, RelayTimedOut, Goto, Shown
  <2>3. stator_rx = << >> /\ fsm = "CHECK_CMD" /\ ~Replies(rotor_rx')
    BY <1>0, <2>1, <2>2, CallEnds DEF Course, Calls
  <2> QED
    BY <1>0, <2>2, <2>3, PassWatched DEF Shown
<1>5. CASE StatorFlashed
  <2>1. NoDrain /\ PassEnds(<< >>) /\ RotorFrame /\ jobs' = jobs /\ pc' = "run"
        /\ fsm' = "WAIT_MOTOR" /\ pc = "flashing"
    BY <1>5 DEF StatorFlashed, Goto
  <2>2. fsm = "STATOR_UPDATE"
    BY <1>0, <2>1 DEF Course
  <2> QED
    BY <1>0, <2>1, <2>2, PassWatched DEF Shown, Calls
<1>6. CASE StatorUpdateFails
  <2>1. NoDrain /\ PassEnds(<< >>) /\ RotorFrame /\ jobs' = jobs /\ pc' = "run"
        /\ fsm' = "ERROR" /\ fsm = "STATOR_UPDATE" /\ (pc = "bl_ack" => TimedOut)
    BY <1>6 DEF StatorUpdateFails, Goto
  <2>2. pc \in Calls => pc = "bl_ack"
    BY <1>0, <2>1 DEF Course, Calls
  <2>3. ~Replies(rotor_rx') /\ (stator_rx = << >> \/ pc \notin Calls)
    BY <2>1, <2>2, CallEnds
  <2> QED
    BY <1>0, <2>1, <2>3, PassWatched DEF Shown
<1> QED
  BY <1>1, <1>2, <1>3, <1>4, <1>5, <1>6, Zenon

\* Sending one message.
LEMMA PutOne ==
  ASSUME TypeOK, DeafRingIsEmpty, NEW m \in ToStator, Within(<<m>>)
  PROVE  Put /\ UNCHANGED <<unsent, due>>
<1>1. stator_rx \in Seq(ToStator) /\ Len(stator_rx) <= Room /\ <<m>> # << >>
  BY DEF TypeOK
<1>2. Received(stator_rx, <<m>>) # << >>
  <2> HIDE DEF ToStator
  <2> QED
    BY <1>1, ReceivedOne
<1>3. quiet' = 0 /\ stator_rx' = IF Listening THEN Received(stator_rx, <<m>>) ELSE stator_rx
  BY <1>1, Zenon DEF Within, RotorSends
<1> QED
  BY <1>2, <1>3 DEF Put, Within, DeafRingIsEmpty

\* The requests of the rotor.
LEMMA RequestsWatched ==
  ASSUME Before, TypeOK, SendControl \/ SendQuery \/ RelayToMotor \/ SendUpdateCommand
  PROVE  Watched'
<1>0. DeafRingIsEmpty /\ Course /\ pc \in Places /\ jobs \in Nat
  BY DEF Before, Watched, Numbers
<1>1. PICK m \in ToStator : Within(<<m>>)
  BY Messages, Zenon DEF SendControl, SendQuery, RelayToMotor, SendUpdateCommand
<1>2. Put /\ UNCHANGED <<unsent, due>>
  BY <1>0, <1>1, PutOne
<1>3. /\ NoDrain /\ RotorFrame /\ jobs' >= jobs /\ fsm' = fsm
      /\ \/ fsm \in {"SEND_SPEED", "ERROR"} /\ pc = "run" /\ pc' = "ack"
         \/ pc = "query" /\ pc' = "status"
         \/ fsm = "CHECK_CMD" /\ pc = "run" /\ pc' \in {"relay_ack", "relay_status"}
         \/ fsm = "STATOR_UPDATE" /\ pc = "run" /\ pc' = "bl_ack"
  BY <1>0 DEF SendControl, SendQuery, RelayToMotor, SendUpdateCommand, Goto, CheckingPhone, Job
<1>4. ~Replies(rotor_rx')
  BY <1>3, NoReplies DEF Calls
<1> QED
  BY <1>0, <1>2, <1>3, <1>4, RequestWatched DEF Calls, Course

\* The replies, and the ends of set_motor_speed.
LEMMA RepliesWatched ==
  ASSUME Before, TypeOK, faults = 0, faults' = 0,
         \/ ReplyMissed \/ ControlAcked \/ UpdateAcked
         \/ ControlTimedOut \/ StatusReceived \/ QueryTimedOut
  PROVE  Watched'
<1>0. DeafRingIsEmpty /\ Course /\ pc \in Places /\ jobs \in Nat
  BY DEF Before, Watched, Numbers
<1>1. CASE ReplyMissed
  BY <1>1, NoReplies, StillWatched DEF ReplyMissed, Within, RotorSends
<1>2. CASE ControlAcked \/ UpdateAcked
  <2>1. /\ Replied /\ Drain /\ RotorFrame /\ fsm' = fsm /\ UNCHANGED <<stator_rx, quiet, unsent, due, jobs>>
        /\ (pc = "ack" /\ pc' = "query") \/ (pc = "bl_ack" /\ pc' = "flashing")
    BY <1>2 DEF ControlAcked, UpdateAcked, Within, RotorSends, Goto
  <2>2. stator_rx = << >>
    BY <2>1, CallEnds DEF Calls
  <2> QED
    BY <1>0, <2>1, <2>2, NoReplies, StillWatched DEF Course
<1>3. CASE ControlTimedOut \/ StatusReceived \/ QueryTimedOut
  <2>1. /\ (Replied /\ Drain) \/ (TimedOut /\ NoDrain)
        /\ RotorFrame /\ jobs' = jobs /\ pc \in {"ack", "status"}
        /\ SetSpeedReturns(FALSE) \/ (pc = "status" /\ \E b : QueryAgain(b))
    BY <1>3, Zenon DEF ControlTimedOut, StatusReceived, QueryTimedOut
  <2>2. stator_rx = << >> /\ fsm \in {"SEND_SPEED", "ERROR"} /\ ~Replies(rotor_rx')
    BY <1>0, <2>1, CallEnds, NoReplies DEF Course, Calls
  <2>3. ASSUME NEW b, SetSpeedReturns(b), b = FALSE \/ pc = "status" PROVE Watched'
    <3>1. /\ PassEnds(<< >>)
          /\ \/ fsm' = "WAIT_MOTOR" /\ pc' = "rx_off"
             \/ fsm' = "SEND_SPEED" /\ pc' = "run"
             \/ fsm' = "DISPLAYING" /\ pc' = "run" /\ pc = "status"
      BY <2>3 DEF SetSpeedReturns, Goto
    <3> QED
      BY <1>0, <2>1, <2>2, <3>1, PassBeats, PassWatched DEF Shown
  <2>4. ASSUME NEW b, QueryAgain(b), pc = "status" PROVE Watched'
    <3>1. CASE SetSpeedReturns(speed = Goal)
      BY <2>3, <2>4, <3>1
    <3>2. CASE ~SetSpeedReturns(speed = Goal)
      <4>1. fsm' = fsm /\ pc' = "query" /\ UNCHANGED <<stator_rx, quiet, unsent>> /\ due' = due \ {"rotor"}
        BY <2>4, <3>2 DEF QueryAgain, Goto, RotorSends, Ran
      <4> QED
        BY <2>1, <2>2, <4>1, StillWatched
    <3> QED
      BY <3>1, <3>2
  <2> QED
    BY <2>1, <2>3, <2>4, Zenon
<1> QED
  BY <1>1, <1>2, <1>3, Zenon

\* A fault is counted and never forgotten.
LEMMA FaultsStay ==
  ASSUME TypeOK, faults' = faults \/ Fault, faults' = 0
  PROVE  faults = 0 /\ ~Fault
BY DEF TypeOK, Fault

\* Every step keeps the watch until a fault.
LEMMA NextWatched ==
  ASSUME Counting, Roomy, TypeOK, TypeOK', DeafRingIsEmpty, WInv, Next
  PROVE  WInv'
<1> SUFFICES ASSUME faults' = 0 PROVE Watched'
  BY DEF WInv
<1>1. faults = 0 /\ ~Fault
  BY Troubles, FaultsStay
<1>2. Numbers' 
  <2>1. ASSUME Roomy' PROVE Numbers'
    BY <2>1, NumbersHold, PTL
  <2> QED
    BY <2>1 DEF Roomy
<1>3. Before
  BY <1>1, <1>2, NumbersHold DEF Before, WInv, TypeOK, Places
<1>4. CASE StatorStep \/ control_motor \/ MotorResponds \/ stator_heartbeat_task \/ BootloaderHeartbeat
  BY <1>3, <1>4, StatorStepWatched
<1>5. CASE process_motor_commands
  BY <1>3, <1>5, CommandsWatched
<1>6. CASE Tick
  BY <1>3, <1>6, TickWatched
<1>7. CASE RotorStep
  BY <1>1, <1>3, <1>7, PassesWatched, RequestsWatched, RepliesWatched, Zenon DEF RotorStep
<1>8. CASE LongStep
  <2>1. CASE SpeedTestDone
    <3>1. RotorFrame /\ UNCHANGED <<stator_rx, rotor_rx, quiet, unsent, jobs, due>>
          /\ fsm = "STARTUP" /\ fsm' = "WAIT_MOTOR" /\ pc' = "rx_off"
      BY <2>1 DEF SpeedTestDone, Goto
    <3>2. pc \notin Calls
      BY <1>3, <3>1 DEF Before, Watched, Course, Calls
    <3>3. ~Replies(rotor_rx')
      BY <1>3, <3>1, <3>2 DEF Before, Watched, Exchange
    <3> QED
      BY <1>3, <3>1, <3>3, StillWatched
  <2> QED
    BY <1>1, <1>3, <1>8, <2>1, AllocWatched, EndWatched, RequestsWatched, PassesWatched,
      StatorStepWatched, Zenon DEF LongStep
<1>9. CASE Environment
  <2>1. CASE RotorDies
    <3>1. fsm = "TRANSFER"
      BY <1>1, <2>1 DEF RotorDies
    <3> QED
      BY <1>3, <2>1, <3>1, DiesWatched
  <2>2. ~Lose /\ ~StatorFails
    BY <1>1 DEF Lose, StatorFails
  <2> QED
    BY <1>1, <1>3, <1>9, <2>1, <2>2, StartWatched, RequestsWatched, PassesWatched, Zenon DEF Environment
<1> QED
  BY <1>4, <1>5, <1>6, <1>7, <1>8, <1>9, Zenon DEF Next

\* Both boards start silent.
LEMMA InitWatched == Init => WInv
<1> SUFFICES ASSUME Init PROVE Watched
  BY DEF WInv
<1>1. Course /\ Speaking /\ Measured /\ Announced
  BY DEF Init, Course, Speaking, Measured, Announced, Calls, Shown
<1>2. Exchange
  BY DEF Init, Exchange, Requests, Replies
<1>3. Sparse
  <2>1. Len(<< >>) = 0
    OBVIOUS
  <2> QED
    BY <2>1 DEF Init, Sparse, Most, One
<1> QED
  BY <1>1, <1>2, <1>3 DEF Watched

\* A step that changes nothing.
LEMMA UnchangedWatched ==
  ASSUME WInv, UNCHANGED vars
  PROVE  WInv'
<1>1. UNCHANGED <<fsm, pc, rotor_rx, stator_rx, unsent, quiet, silence, due, state,
                  rotor_heartbeat_paused, faults, jobs>>
  BY DEF vars, stator, rotor, world
<1>2. Watched => Watched'
  BY <1>1 DEF Watched, Course, Exchange, Speaking, Measured, Announced, Sparse, Most
<1> QED
  BY <1>1, <1>2 DEF WInv

\* The calm is kept by a step or a stutter.
LEMMA StepCalm ==
  ASSUME Counting, Paced, TypeOK, IInv, CInv, [Next]_vars
  PROVE  CInv'
<1>1. CASE Next
  BY <1>1, NextCalm DEF IInv
<1>2. CASE UNCHANGED vars
  BY <1>2, UnchangedCalm
<1> QED
  BY <1>1, <1>2

\* The watch is kept by a step or a stutter.
LEMMA StepWatched ==
  ASSUME Counting, Roomy, TypeOK, TypeOK', IInv, WInv, [Next]_vars
  PROVE  WInv'
<1>1. CASE Next
  BY <1>1, NextWatched DEF IInv
<1>2. CASE UNCHANGED vars
  BY <1>2, UnchangedWatched
<1> QED
  BY <1>1, <1>2

\* pov_stator_fsm stops the motor only after more silence than the watch allows.
LEMMA WatchedSuffices ==
  ASSUME Roomy, TypeOK, WInv, [Next]_vars
  PROVE  ~SpuriousStop
<1> SUFFICES ASSUME SpuriousStop PROVE FALSE
  OBVIOUS
<1>1. Numbers /\ Watched /\ Timeout = 2 * Interval
  BY NumbersHold DEF WInv, SpuriousStop, Timeout
<1>2. SafeStop
  <2>1. state' # state /\ state' = "SAFE_STOP"
    BY DEF SpuriousStop
  <2>2. Next
    BY <2>1, Zenon DEF vars, stator
  <2>3. ~StatorInit /\ ~StartRelay /\ ~TuningDone /\ ~EnterBootloader /\ ~StatorIdle /\ ~NothingReceived
    BY <2>1 DEF StatorInit, StartRelay, TuningDone, EnterBootloader, StatorReset, StatorIdle,
      NothingReceived, stator
  <2>4. ~stator_heartbeat_task /\ ~control_motor /\ ~BootloaderHeartbeat /\ ~MotorResponds /\ ~Tick
    BY <2>1 DEF stator_heartbeat_task, control_motor, BootloaderHeartbeat, MotorResponds, Tick, stator
  <2>5. ~process_motor_commands /\ ~StatorBoots /\ ~StatorFails
    BY <2>1 DEF process_motor_commands, StateAfterBatch, StatorBoots, StatorFails, StatorReset, Listening
  <2> QED
    BY <2>1, <2>2, <2>3, <2>4, <2>5, RotorLeavesMotor, Zenon DEF Next, StatorStep, LongStep, Environment
<1>3. state = "ACTIVE" /\ ~rotor_heartbeat_paused /\ silence > Timeout /\ fsm \in Shown \cup {"TRANSFER"}
  BY <1>2 DEF SafeStop, RotorTimedOut, SpuriousStop, Shown
<1>4. CASE stator_rx # << >>
  BY <1>1, <1>3, <1>4 DEF Watched, Measured, One, Numbers
<1>5. CASE stator_rx = << >>
  <2>1. fsm \in Shown
    BY <1>1, <1>3, <1>5 DEF Watched, Announced
  <2>2. silence <= quiet /\ quiet <= unsent
    BY <1>1, <1>3, <1>5, <2>1 DEF Watched, Measured, Speaking
  <2> QED
    BY <1>1, <1>3, <2>2 DEF Numbers
<1> QED
  BY <1>4, <1>5

-----------------------------------------------------------------------------
(* The theorems. *)

INSTANCE FiniteSetTheorems

\* The facts about cardinalities used above.
LEMMA CountingHolds == Counting
<1>1. Cardinality({}) = 0
  BY FS_EmptySet
<1>2. ASSUME NEW n \in Nat, NEW T \in SUBSET (1..n) PROVE Cardinality(T) \in Nat
  <2>1. IsFiniteSet(1..n)
    BY FS_Interval
  <2>2. IsFiniteSet(T)
    BY <2>1, FS_Subset
  <2> QED
    BY <2>2, FS_CardinalityType
<1> QED
  BY <1>1, <1>2 DEF Counting

\* The types hold whatever the two sides, the motor and the faults do.
THEOREM TypeCorrect == Spec => []TypeOK
<1>1. Init => TypeOK
  BY InitTypes
<1>2. TypeOK /\ [Next]_vars => TypeOK'
  BY CountingHolds, NextTypes
<1> QED
  BY <1>1, <1>2, PTL DEF Spec

\* With nothing lost, late or reset and before the first phone job, the rotor
\* does not take a living stator for disconnected, whatever the number of retries
\* and however the two main loops, their tasks and the heartbeats interleave,
\* provided that heartbeats are at least two ticks apart (5000 ms, where a request
\* may take 500 ms) and a ring holds a heartbeat and a reply.
THEOREM NoSpuriousDisconnectAlways ==
  ASSUME Interval >= 2, Room >= 2
  PROVE  Spec => []NoSpuriousDisconnect
<1>1. Paced
  BY DEF Paced
<1>2. Init => CInv
  BY InitCalm
<1>3. TypeOK /\ IInv /\ CInv /\ [Next]_vars => CInv'
  BY <1>1, CountingHolds, StepCalm, Zenon
<1>4. TypeOK /\ CInv => NoSpuriousDisconnect
  BY <1>1, CalmSuffices
<1> QED
  BY <1>2, <1>3, <1>4, TypeCorrect, IInvAlways, PTL DEF Spec

\* With nothing lost, late or reset, the stator does not stop the motor under a
\* rotor that displays, serves the phone or is in a transfer it announced, for
\* every interval of at least two ticks, number of retries and number of phone
\* commands, provided that a ring has room for the two heartbeats of every
\* transfer: a STANDBY the ring drops would be a silence nobody announced.
THEOREM NoSpuriousStopAlways ==
  ASSUME Interval >= 2, Room >= 2 * MaxJobs
  PROVE  Spec => NoSpuriousStop
<1>1. Roomy
  BY DEF Roomy
<1>2. Init => WInv
  BY InitWatched
<1>3. TypeOK /\ TypeOK' /\ IInv /\ WInv /\ [Next]_vars => WInv'
  BY <1>1, CountingHolds, StepWatched, Zenon
<1>4. TypeOK /\ WInv /\ [Next]_vars => [~SpuriousStop]_vars
  BY <1>1, WatchedSuffices
<1> QED
  BY <1>2, <1>3, <1>4, TypeCorrect, IInvAlways, PTL DEF Spec, NoSpuriousStop

=============================================================================
