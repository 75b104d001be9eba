----------------------------- MODULE MCChecks -----------------------------
(* The checks a candidate motion passes through, over two joints, one of   *)
(* them unknown to the robot.  Every static input is tried with good       *)
(* dynamics and every dynamic input with good candidates; each number has  *)
(* a value on both sides of each of its bounds.  The files of a good robot *)
(* are changed in up to two places.                                        *)
EXTENDS Configuration, SingleServoHil, GestureClassifier, VoiceService, Interaction,
        DigitalTwin

CONSTANTS arm, hand

PartialFunctions(S, T) == UNION {[D -> T] : D \in SUBSET S}

Good == [verified |-> TRUE, min_deg |-> -2, neutral_deg |-> 0, max_deg |-> 2]
Policy == [command_ttl_ms |-> 2, heartbeat_timeout_ms |-> 2,
           max_velocity_deg_s |-> 2, max_acceleration_deg_s2 |-> 2]
Envelope ==
  [joints |-> [n \in {arm} |-> Good],
   workspace |-> [verified |-> TRUE,
                  axes |-> [a \in {"x", "y"} |-> [min |-> -1, max |-> 1]]],
   allowed_states |-> {"ARMED"},
   robot_verified |-> TRUE, servos_verified |-> TRUE, motion_policy |-> Policy]

Envelopes ==
  {Envelope,
   [Envelope EXCEPT !.joints[arm].verified = FALSE],
   [Envelope EXCEPT !.joints[arm].neutral_deg = Missing],
   [Envelope EXCEPT !.joints[arm].neutral_deg = 2],
   [Envelope EXCEPT !.workspace.axes["y"].max = -1],
   [Envelope EXCEPT !.workspace.axes["x"].min = Missing],
   [Envelope EXCEPT !.robot_verified = FALSE],
   [Envelope EXCEPT !.servos_verified = FALSE],
   [Envelope EXCEPT !.motion_policy = Missing],
   [Envelope EXCEPT !.motion_policy.command_ttl_ms = 0]}

Points == {Missing} \cup [{"x", "y"} -> {0, 1, 2, NonFinite}]

Candidate ==
  [system_state |-> "ARMED", estop_active |-> FALSE,
   joint_targets_deg |-> [n \in {arm} |-> 0],
   workspace_point_mm |-> [a \in {"x", "y"} |-> 0]]

Candidates ==
  [system_state : {"ARMED", "FAULT"}, estop_active : BOOLEAN,
   joint_targets_deg : PartialFunctions({arm, hand}, {-3, -2, 2, NonFinite}),
   workspace_point_mm : Points]

Samples == PartialFunctions({arm, hand}, {-3, -2, 2, NonFinite})

Dynamics ==
  [command_age_ms |-> 0, heartbeat_age_ms |-> 2,
   joint_velocities_deg_s |-> [n \in {arm} |-> 0],
   joint_accelerations_deg_s2 |-> [n \in {arm} |-> 0]]

MCRequests ==
  [envelope : Envelopes, candidate : Candidates, dynamics : {Dynamics}]
  \cup [envelope : {Envelope},
        candidate : {Candidate,
                     [Candidate EXCEPT !.joint_targets_deg = <<>>]},
        dynamics : [command_age_ms : {-1, 2, 3, NonFinite},
                    heartbeat_age_ms : {-1, 0, 3, NonFinite},
                    joint_velocities_deg_s : Samples,
                    joint_accelerations_deg_s2 : {Dynamics.joint_velocities_deg_s}]
                   \cup
                   [command_age_ms : {0}, heartbeat_age_ms : {0},
                    joint_velocities_deg_s : Samples,
                    joint_accelerations_deg_s2 : Samples]]

Measurement(id) ==
  [protocol_id |-> id, min_deg |-> -2, neutral_deg |-> 0, max_deg |-> 2]

Files ==
  [system |-> "files", sections |-> Sections, simulation |-> FALSE, startup_state |-> "BOOT",
   motion |-> [command_ttl_ms |-> 2, heartbeat_interval_ms |-> 1, heartbeat_timeout_ms |-> 3,
               max_velocity_deg_s |-> 2, max_acceleration_deg_s2 |-> 2],
   motion_allowed |-> {"ARMED", "EXECUTING"}, require_manual_reset |-> TRUE,
   robot_verified |-> TRUE, servos_verified |-> TRUE,
   links |-> [shoulder_mm |-> 1, forearm_mm |-> 1], poses_given |-> TRUE,
   axes |-> [a \in {"x", "y"} |-> [min |-> -1, max |-> 1]],
   joints |-> [n \in {arm, hand} |-> Measurement(IF n = arm THEN 1 ELSE 255)]]

Changed(s) ==
  {[s EXCEPT !.sections = @ \ {"imu"}], [s EXCEPT !.simulation = TRUE],
   [s EXCEPT !.startup_state = "ARMED"], [s EXCEPT !.require_manual_reset = FALSE],
   [s EXCEPT !.motion_allowed = {}], [s EXCEPT !.motion_allowed = @ \cup {"FAULT"}],
   [s EXCEPT !.robot_verified = FALSE], [s EXCEPT !.servos_verified = FALSE],
   [s EXCEPT !.poses_given = FALSE], [s EXCEPT !.joints = <<>>]}
  \cup {[s EXCEPT !.motion[f] = x] :
          f \in DOMAIN s.motion \ {"max_velocity_deg_s"}, x \in {0, 3, 4}}
  \cup {[s EXCEPT !.motion.max_velocity_deg_s = x] : x \in {NonFinite, Infinity, 1}}
  \cup {[s EXCEPT !.links.shoulder_mm = x] : x \in {Missing, 0}}
  \cup {[s EXCEPT !.axes["y"].min = x] : x \in {Missing, NonFinite, -Infinity, 0, 1}}
  \cup {[s EXCEPT !.axes["x"].max = x] : x \in {Missing, NonFinite, Infinity, -1}}

\* A change of a joint needs that there is one.
ChangedJoint(s) ==
  IF s.joints = <<>> THEN {}
  ELSE {[s EXCEPT !.joints[arm][f] = x] :
          f \in {"min_deg", "neutral_deg", "max_deg"},
          x \in {Missing, NonFinite, Infinity, -Infinity, -2, 1, 2}}
       \cup {[s EXCEPT !.joints[arm].protocol_id = x] : x \in {Missing, 0, 255, 256}}

OneChange(s) == {s} \cup Changed(s) \cup ChangedJoint(s)
MCAllSettings == UNION {OneChange(s) : s \in OneChange(Files)}

MCMotions ==
  [candidate : {[Candidate EXCEPT !.joint_targets_deg = targets, !.system_state = state,
                                  !.workspace_point_mm["y"] = y] :
                  targets \in {[n \in {arm} |-> 2], [n \in {arm, hand} |-> 0]},
                  state \in {"ARMED", "FAULT"}, y \in {0, 1, 2}},
   dynamics : {[Dynamics EXCEPT !.command_age_ms = age,
                  !.joint_velocities_deg_s = [n \in {arm, hand} |-> 2],
                  !.joint_accelerations_deg_s2 = [n \in {arm, hand} |-> 0]] :
                 age \in {2, 3}}]

---------------------------------------------------------------------------
Calibration ==
  [protocol_id |-> 1, lower |-> -2, neutral |-> 0, upper |-> 1, test_lower |-> -1,
   test_upper |-> 1, lower_pulse |-> 3, neutral_pulse |-> 2, upper_pulse |-> 1, max_step |-> 1]

Bounded(a, step) ==
  [Calibration EXCEPT !.lower = a[1], !.neutral = a[2], !.upper = a[3],
                      !.test_lower = a[4], !.test_upper = a[5], !.max_step = step]

\* One angle of a good calibration replaced, each step, each order of pulses
MCCalibrations ==
  {Bounded([a EXCEPT ![i] = x], step) :
     a \in {<<-2, 0, 1, -1, 1>>, <<-2, 0, 1, -2, 1>>},
     i \in 1 .. 5, x \in -2 .. 1, step \in 0 .. 3}
  \cup {[Calibration EXCEPT !.lower_pulse = p[1], !.neutral_pulse = p[2],
                            !.upper_pulse = p[3]] : p \in [1 .. 3 -> 0 .. 2]}
  \cup {[Calibration EXCEPT !.protocol_id = 0]}

MCAngles == -2 .. 1

Evidence ==
  [timezone |-> TRUE, kinds |-> {"wiring", "measurement"}, checks |-> Checks,
   joint |-> arm, channel |-> 0, driver |-> "a", calibration |-> Calibration]
MCEvidences ==
  {Evidence, [Evidence EXCEPT !.timezone = FALSE], [Evidence EXCEPT !.kinds = {"wiring"}],
   [Evidence EXCEPT !.channel = 1], [Evidence EXCEPT !.joint = hand],
   [Evidence EXCEPT !.calibration.max_step = 2], [Evidence EXCEPT !.calibration.max_step = 3],
   [Evidence EXCEPT !.calibration.protocol_id = 2]}
  \cup {[Evidence EXCEPT !.checks = Checks \ {c}] : c \in Checks}
Servos(id, channel, driver) ==
  [driver |-> driver, joints |-> [n \in {arm} |-> [protocol_id |-> id, channel |-> channel]]]
MCConfigs == {Servos(1, 0, "a"), Servos(1, 1, "a"), Servos(2, 0, "a"), Servos(1, 0, "b"),
              Servos(Missing, 0, "a")}
Passed ==
  [timezone |-> TRUE, started |-> 0, completed |-> 1, outcome |-> "pass", observations |-> 1,
   unexpected_motion |-> FALSE, estop_response |-> TRUE, power_cut_response |-> TRUE,
   kinds |-> {"measurement", "video"}]
MCResults ==
  {Passed, [Passed EXCEPT !.completed = -1], [Passed EXCEPT !.observations = 0],
   [Passed EXCEPT !.estop_response = FALSE], [Passed EXCEPT !.kinds = {"measurement"}],
   [Passed EXCEPT !.unexpected_motion = TRUE],
   [Passed EXCEPT !.outcome = "fail", !.power_cut_response = FALSE]}

\* Rolls on both sides of the threshold of a swing, and some of each other kind
Sample(roll, pitch, gy, gz) ==
  [roll |-> roll, pitch |-> pitch, gx |-> 0, gy |-> gy, gz |-> gz]
MCTelemetry ==
  {Sample(roll, 0, 0, 0) : roll \in {-1200, -781, 780, 781}}
  \cup {Sample(0, -32768, 0, 0), Sample(600, 0, 0, 900), Sample(0, 0, -11000, 0),
        Sample(800, 0, 19800, 32767)}

MCGestures ==
  {[gesture |-> "WAVE", confidence |-> 90, simulation |-> FALSE],
   [gesture |-> "TILT_LEFT", confidence |-> 50, simulation |-> TRUE]}
MCVoices ==
  {[text |-> text, confidence |-> 70, simulation |-> TRUE] : text \in {"blank", "words"}}
  \cup {[text |-> "words", confidence |-> c, simulation |-> FALSE] : c \in {70, 101}}

\* Answers with at most one thing wrong
Answer ==
  [http_ok |-> TRUE, safe_to_publish |-> TRUE, response_present |-> TRUE, fields |-> TRUE,
   verified |-> TRUE, persistence_committed |-> TRUE, disposition |-> "optional",
   cue |-> "present", style |-> "standard"]
Faults ==
  {"http_ok", "safe_to_publish", "response_present", "fields", "verified",
   "persistence_committed"}
MCAnswers ==
  {[Answer EXCEPT ![fault] = FALSE] : fault \in Faults}
  \cup {[Answer EXCEPT !.style = style] : style \in DOMAIN StyleScale}
  \cup {[Answer EXCEPT !.cue = cue, !.style = "expressive"] :
          cue \in DOMAIN Offsets \cup {"none"}}
  \cup {[Answer EXCEPT !.cue = cue, !.disposition = "none"] : cue \in {"none", "think"}}
MCProfile ==
  [base |-> [lower |-> -135, upper |-> 135, home |-> 0],
   shoulder |-> [lower |-> -60, upper |-> 120, home |-> 30],
   elbow |-> [lower |-> -135, upper |-> 135, home |-> 60],
   gripper |-> [lower |-> 0, upper |-> 70, home |-> 20]]

\* Two joints of unlike reach and speed
MCPlant ==
  [n \in {arm, hand} |->
     IF n = arm THEN [lower |-> -4, upper |-> 4, home |-> 0, velocity |-> 3, acceleration |-> 2]
     ELSE [lower |-> 0, upper |-> 2, home |-> 1, velocity |-> 2, acceleration |-> 1]]

\* Targets at the ends of the reach and beyond, and of a joint the twin does not have
MCCommands ==
  [targets : {[n \in {arm} |-> x] : x \in {-4, -1, 4, 5}}
             \cup {[n \in {arm, hand} |-> x] : x \in {0, 2}} \cup {[n \in {"other"} |-> 0]},
   velocity : {1, 3}, acceleration : {1, 2}]

---------------------------------------------------------------------------
(* The components side by side; a behaviour is about one of them.          *)

VARIABLE subject

NotAsked ==
  config = NoFiles /\ loaded = "no" /\ request = NoRequest /\ verdict = Pending

ChecksInit ==
  /\ subject \in {"configuration", "documents", "guard", "gesture", "voice", "interaction", "twin"}
  /\ IF subject = "configuration" THEN ConfigurationInit ELSE NotAsked
  /\ HilInit /\ GestureInit /\ TwinInit
  /\ InteractionInit /\ (subject # "interaction" => offset = 0)
  /\ VoiceInit /\ (subject # "voice" => voice.barge_in)

ChecksNext ==
  /\ UNCHANGED subject
  /\ \/ /\ subject = "configuration" /\ ConfigurationNext
        /\ UNCHANGED <<hil, gestures, voices, interaction, twin_plant>>
     \/ /\ subject = "documents" /\ DocumentStep
        /\ UNCHANGED <<configuration, gestures, voices, interaction, twin_plant>>
     \/ /\ subject = "guard" /\ GuardStep
        /\ UNCHANGED <<configuration, gestures, voices, interaction, twin_plant>>
     \/ /\ subject = "gesture" /\ GestureNext
        /\ UNCHANGED <<configuration, hil, voices, interaction, twin_plant>>
     \/ /\ subject = "voice" /\ VoiceNext
        /\ UNCHANGED <<configuration, hil, gestures, interaction, twin_plant>>
     \/ /\ subject = "interaction" /\ InteractionNext
        /\ UNCHANGED <<configuration, hil, gestures, voices, twin_plant>>
     \/ /\ subject = "twin" /\ TwinNext
        /\ UNCHANGED <<configuration, hil, gestures, voices, interaction>>

ChecksSpec ==
  ChecksInit
    /\ [][ChecksNext]_<<subject, configuration, hil, gestures, voices, interaction, twin_plant>>
===========================================================================
