-------------------------- MODULE RobotRuntime --------------------------
(***************************************************************************)
(* The robot microcontroller's command gate                                *)
(* (src/firmware/robot/runtime.h, RobotRuntime) under the Arduino loop     *)
(* that drives it (robot.ino, loop()).                                     *)
(*                                                                         *)
(* The firmware is one thread.  loop() reads the clock once, hands every   *)
(* frame that has arrived to HandleFrame with that reading, and ends with  *)
(* Tick.  Both clocks of the code are modular: millis() wraps at           *)
(* ClockModulus (2^32) and frame sequences at SeqModulus (2^16).           *)
(***************************************************************************)
EXTENDS Integers, Sequences

CONSTANTS
  SeqModulus, ClockModulus,
  HeartbeatTimeout,   \* heartbeat_timeout_ms_
  MaxLoopTime,        \* longest time between two readings of the clock
  CommandIds,         \* motion command UUIDs
  NoId,               \* the cleared last_motion_command_id_
  ManualInputs,       \* whether ManualReset and ObservePhysicalEstop are wired
  MaxSilence,         \* bound on the time since the last heartbeat
  MaxAccepted         \* bound on the number of accepted motions

ASSUME RuntimeAssumption ==
  /\ SeqModulus \in Nat \ {0} /\ ClockModulus \in Nat \ {0}
  /\ HeartbeatTimeout \in Nat /\ MaxLoopTime \in Nat \ {0}
  /\ MaxSilence \in Nat /\ MaxAccepted \in Nat
  /\ NoId \notin CommandIds /\ ManualInputs \in BOOLEAN

VARIABLES
  robot,       \* the fields of RobotRuntime
  now,         \* now_ms, the reading of the clock in this turn of loop()
  silence,     \* true time since the last accepted heartbeat (history)
  accepted,    \* identities of the motions accepted so far (history)
  watched      \* one accepted frame and how far sequences moved since (history)

vars == <<robot, now, silence, accepted, watched>>

States == {"kSafe", "kReady", "kEstop"}
Sequences16 == 0 .. SeqModulus - 1

Robots ==
  [state : States, physical_estop_active : BOOLEAN, heartbeat_seen : BOOLEAN,
   heartbeat_healthy : BOOLEAN, sequence_seen : BOOLEAN,
   motion_command_seen : BOOLEAN, last_sequence : Sequences16,
   last_motion_command_id : CommandIds \cup {NoId},
   last_heartbeat_ms : 0 .. ClockModulus - 1]

PowerOn ==
  [state |-> "kSafe", physical_estop_active |-> FALSE, heartbeat_seen |-> FALSE,
   heartbeat_healthy |-> FALSE, sequence_seen |-> FALSE,
   motion_command_seen |-> FALSE, last_sequence |-> 0,
   last_motion_command_id |-> NoId, last_heartbeat_ms |-> 0]

\* What ParseFrame can return.  A frame is "invalid" when parsing fails, "other"
\* when its type is known but is no command for the robot; payload_ok is
\* ValidateMotionPayload's answer.
Frames ==
  [type : {"invalid"}]
  \cup [type : {"heartbeat", "estop", "other"}, sequence : Sequences16]
  \cup [type : {"motion"}, sequence : Sequences16, command_id : CommandIds,
        payload_ok : BOOLEAN]

HalfWindow == SeqModulus \div 2

\* How far forward candidate lies from previous, in uint16_t arithmetic.
Ahead(candidate, previous) == (candidate - previous) % SeqModulus

\* Seeded fault: only a repeated sequence is refused.
SequenceDiffers(candidate, previous) == Ahead(candidate, previous) # 0

SequenceIsFresh(candidate, previous) ==
  Ahead(candidate, previous) # 0 /\ Ahead(candidate, previous) < HalfWindow

\* Seeded fault: the subtraction is signed, so it turns negative at the wrap.
SignedHeartbeatAge(r, t) == t - r.last_heartbeat_ms

HeartbeatAge(r, t) == (t - r.last_heartbeat_ms) % ClockModulus

---------------------------------------------------------------------------
(* The methods, as functions of the fields and the clock reading.          *)

AfterPhysicalEstop(r, active) ==
  [r EXCEPT !.physical_estop_active = active,
            !.state = IF active THEN "kEstop" ELSE @]

\* Seeded fault: a lost heartbeat ends kEstop too.
AfterTickLeavingEstop(r, t) ==
  IF ~r.heartbeat_seen THEN [r EXCEPT !.heartbeat_healthy = FALSE, !.state = "kSafe"]
  ELSE [r EXCEPT !.heartbeat_healthy = HeartbeatAge(r, t) <= HeartbeatTimeout,
                 !.state = IF HeartbeatAge(r, t) > HeartbeatTimeout
                           THEN "kSafe" ELSE @]

AfterTick(r, t) ==
  IF ~r.heartbeat_seen
  THEN [r EXCEPT !.heartbeat_healthy = FALSE,
                 !.state = IF @ = "kReady" THEN "kSafe" ELSE @]
  ELSE [r EXCEPT !.heartbeat_healthy = HeartbeatAge(r, t) <= HeartbeatTimeout,
                 !.state = IF HeartbeatAge(r, t) > HeartbeatTimeout /\ @ # "kEstop"
                           THEN "kSafe" ELSE @]

AfterManualReset(r, t) ==
  LET ticked == AfterTick(r, t)
  IN IF ticked.physical_estop_active \/ ~ticked.heartbeat_healthy THEN ticked
     ELSE [ticked EXCEPT !.state = "kReady"]

\* Seeded fault: any heartbeat makes the robot ready.
AfterHeartbeatAlwaysReady(r, t) ==
  [r EXCEPT !.last_heartbeat_ms = t, !.heartbeat_seen = TRUE,
            !.heartbeat_healthy = TRUE, !.state = "kReady"]

AfterHeartbeat(r, t) ==
  [r EXCEPT !.last_heartbeat_ms = t, !.heartbeat_seen = TRUE,
            !.heartbeat_healthy = TRUE,
            !.state = IF @ = "kSafe" /\ ~r.physical_estop_active
                      THEN "kReady" ELSE @]

MotionPermitted(r) ==
  r.state = "kReady" /\ r.heartbeat_healthy /\ ~r.physical_estop_active

\* Seeded fault: the verdict of the last tick is used as it is.
MotionDispatchWithoutTick(r, frame, t) ==
  IF ~frame.payload_ok THEN [robot |-> r, result |-> "kMotionRejectedInvalidPayload"]
  ELSE IF ~MotionPermitted(r) THEN [robot |-> r, result |-> "kMotionRejectedUnsafe"]
  ELSE [robot |-> [r EXCEPT !.motion_command_seen = TRUE,
                            !.last_motion_command_id = frame.command_id],
        result |-> "kMotionDeferred"]

\* The motion branch of HandleFrame, after the sequence has been taken.
MotionDispatch(r, frame, t) ==
  LET ticked == AfterTick(r, t)
  IN CASE ~frame.payload_ok ->
            [robot |-> r, result |-> "kMotionRejectedInvalidPayload"]
       [] frame.payload_ok /\ ~MotionPermitted(ticked) ->
            [robot |-> ticked, result |-> "kMotionRejectedUnsafe"]
       [] frame.payload_ok /\ MotionPermitted(ticked)
            /\ ticked.motion_command_seen
            /\ ticked.last_motion_command_id = frame.command_id ->
            [robot |-> ticked, result |-> "kRejectedReplay"]
       [] OTHER ->
            [robot |-> [ticked EXCEPT !.motion_command_seen = TRUE,
                                      !.last_motion_command_id = frame.command_id],
             result |-> "kMotionDeferred"]

Stale(r, frame) ==
  r.sequence_seen /\ ~SequenceIsFresh(frame.sequence, r.last_sequence)

\* HandleFrame: the fields it leaves and the DispatchResult it returns.
Dispatch(r, frame, t) ==
  IF frame.type = "invalid"
    THEN [robot |-> r, result |-> "kRejectedInvalidFrame"]
  ELSE IF Stale(r, frame)
    THEN [robot |-> r, result |-> "kRejectedReplay"]
  ELSE LET taken == [r EXCEPT !.sequence_seen = TRUE,
                              !.last_sequence = frame.sequence]
       IN CASE frame.type = "heartbeat" ->
                 [robot |-> AfterHeartbeat(taken, t),
                  result |-> "kHeartbeatAccepted"]
            [] frame.type = "estop" ->
                 [robot |-> [taken EXCEPT !.state = "kEstop"],
                  result |-> "kEstopLatched"]
            [] frame.type = "motion" -> MotionDispatch(taken, frame, t)
            [] OTHER -> [robot |-> taken, result |-> "kMessageIgnored"]

\* AckStatusForDispatch and SendAcknowledgement: the answer to each dispatch,
\* which is none for a frame that does not parse.
AckStatusForDispatch(result) ==
  CASE result \in {"kHeartbeatAccepted", "kEstopLatched", "kMotionDeferred"} -> "OK"
    [] result = "kMotionRejectedUnsafe" -> "REJECTED"
    [] result = "kRejectedReplay" -> "STALE"
    [] OTHER -> "INVALID"

Answers(result) == result # "kRejectedInvalidFrame"

---------------------------------------------------------------------------
(* The state machine.                                                      *)

NoFrame == [sequence |-> 0, moved |-> 0, since_power_on |-> FALSE]

Init ==
  /\ robot = PowerOn
  /\ now \in 0 .. ClockModulus - 1
  /\ silence = 0
  /\ accepted = <<>>
  /\ watched = NoFrame

\* The history of one accepted sequence number: it may become the watched one;
\* otherwise the watched one falls behind by the distance moved.  Distances
\* beyond the window look alike.
Watch(before, sequence) ==
  LET moved == watched.moved + Ahead(sequence, before.last_sequence)
  IN \/ watched' = [sequence |-> sequence, moved |-> 0, since_power_on |-> TRUE]
     \/ watched' = [watched EXCEPT
                      !.moved = IF moved > HalfWindow THEN HalfWindow + 1 ELSE moved]

HandleFrame(frame) ==
  LET dispatch == Dispatch(robot, frame, now)
  IN /\ robot' = dispatch.robot
     /\ IF dispatch.result = "kHeartbeatAccepted"
        THEN silence' = 0 ELSE UNCHANGED silence
     /\ IF dispatch.result = "kMotionDeferred"
        THEN /\ Len(accepted) < MaxAccepted
             /\ accepted' = Append(accepted, frame.command_id)
        ELSE UNCHANGED accepted
     /\ IF frame.type = "invalid" \/ Stale(robot, frame)
        THEN UNCHANGED watched ELSE Watch(robot, frame.sequence)
     /\ UNCHANGED now

\* loop() ends with Tick; the next turn reads the clock d milliseconds later.
EndLoop(d) ==
  /\ silence + d <= MaxSilence
  /\ robot' = AfterTick(robot, now)
  /\ now' = (now + d) % ClockModulus
  /\ silence' = silence + d
  /\ UNCHANGED <<accepted, watched>>

\* The two methods robot.ino does not call yet; a board that wires the button
\* and the reset switch calls them between frames.
ObservePhysicalEstop(active) ==
  /\ ManualInputs
  /\ robot' = AfterPhysicalEstop(robot, active)
  /\ UNCHANGED <<now, silence, accepted, watched>>

ManualReset ==
  /\ ManualInputs
  /\ robot' = AfterManualReset(robot, now)
  /\ UNCHANGED <<now, silence, accepted, watched>>

Next ==
  \/ \E frame \in Frames : HandleFrame(frame)
  \/ \E d \in 1 .. MaxLoopTime : EndLoop(d)
  \/ \E active \in BOOLEAN : ObservePhysicalEstop(active)
  \/ ManualReset

Spec == Init /\ [][Next]_vars

---------------------------------------------------------------------------
(* Properties.                                                             *)

TypeOK ==
  /\ robot \in Robots
  /\ now \in 0 .. ClockModulus - 1
  /\ silence \in Nat
  /\ accepted \in Seq(CommandIds)
  /\ watched \in [sequence : Sequences16, moved : Nat, since_power_on : BOOLEAN]

\* The independent button and the watchdog are never overruled: while the button
\* is held the robot stays in kEstop whatever frames arrive, and it is only ever
\* ready on the strength of a heartbeat it has judged healthy.
NeverReadyAgainstInputs ==
  /\ robot.physical_estop_active => robot.state = "kEstop"
  /\ robot.state = "kReady" => robot.heartbeat_seen /\ robot.heartbeat_healthy

\* A latched stop ends only in kReady, with the button released and the last
\* heartbeat judged healthy: no frame, tick or button release ends it.
EstopLeftOnlyByReset ==
  [][robot.state = "kEstop" /\ robot'.state # "kEstop"
       => /\ robot'.state = "kReady"
          /\ ~robot.physical_estop_active
          /\ robot'.heartbeat_healthy
          /\ robot'.last_sequence = robot.last_sequence]_vars

\* The robot makes the promise the host's controller makes: its three states
\* are the modes of the abstract emergency stop.
Mode == CASE robot.state = "kSafe" -> "blocked"
          [] robot.state = "kReady" -> "enabled"
          [] OTHER -> "latched"

ES == INSTANCE EmergencyStop
        WITH mode <- Mode, pressed <- robot.physical_estop_active

\* Every sequence of frames, ticks and inputs is a behaviour of it, so a stop
\* is never left for kSafe, nor by a heartbeat.
ImplementsEmergencyStop == ES!Spec

\* The watchdog's deadline in true time, across the wrap of millis(): one turn
\* of loop() after the timeout, a robot without heartbeats is no longer ready.
WatchdogDeadline ==
  robot.state = "kReady" => silence <= HeartbeatTimeout + MaxLoopTime

\* A motion is accepted only while a heartbeat really is no older than the
\* timeout, even between a late heartbeat and the next tick. It is stated for
\* silences below one period of the clock (MaxSilence < ClockModulus): the age
\* is computed modulo that period, so after 2^32 ms of silence and a manual
\* reset a heartbeat of the period before would look fresh.
MotionNeedsLiveHeartbeat ==
  [][accepted' # accepted =>
       /\ silence <= HeartbeatTimeout
       /\ robot.state = "kReady" /\ ~robot.physical_estop_active]_vars

\* A frame that was accepted is refused when it arrives again, until the
\* sequences have moved more than half their range beyond it.
ReplayWindow ==
  watched.since_power_on /\ watched.moved <= HalfWindow
    => robot.sequence_seen /\ ~SequenceIsFresh(watched.sequence, robot.last_sequence)
===========================================================================
