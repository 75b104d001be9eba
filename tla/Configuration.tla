-------------------------- MODULE Configuration --------------------------
(***************************************************************************)
(* From configuration files to the limits motions are held to: the loader  *)
(* (src/rci/config/loader.py), the models and the cross-file validation    *)
(* (src/rci/config/models.py, validator.py), the safety envelope built     *)
(* from them (src/rci/safety/factory.py) and the joint ids of the gateway  *)
(* (src/rci/hardware/robot_gateway.py).  The envelope is then used by the  *)
(* checks of MotionEligibility, whose request and verdict it shares.       *)
(*                                                                         *)
(* YAML can write NaN and infinities.  A NaN is NonFinite; an infinity is  *)
(* the integer Infinity, larger than every other number.                   *)
(***************************************************************************)
EXTENDS MotionEligibility

CONSTANTS
  Infinity,
  AllSettings,   \* what the files may say
  Motions        \* the [candidate, dynamics] then asked for

\* MotionSafetyPolicy.
Policies == [command_ttl_ms : Number, heartbeat_timeout_ms : Number,
             max_velocity_deg_s : Number, max_acceleration_deg_s2 : Number]

\* The fields' types: what must be a number is one, None is not a policy, and a
\* point has the coordinates that a workspace bounds.
ASSUME ConfigurationAssumption ==
  /\ Infinity \in Int
  /\ \A s \in AllSettings :
       /\ {s.motion.command_ttl_ms, s.motion.heartbeat_timeout_ms,
           s.motion.max_velocity_deg_s, s.motion.max_acceleration_deg_s2} \subseteq Number
       /\ Missing \notin Policies
  /\ \A motion \in Motions :
       /\ {motion.dynamics.command_age_ms, motion.dynamics.heartbeat_age_ms} \subseteq Number
       /\ \A values \in {motion.candidate.joint_targets_deg,
                         motion.dynamics.joint_velocities_deg_s,
                         motion.dynamics.joint_accelerations_deg_s2} :
            \A n \in DOMAIN values : values[n] \in Number
       /\ \A s \in AllSettings :
            motion.candidate.workspace_point_mm \in {Missing} \cup [DOMAIN s.axes -> Number]

VARIABLES
  config,   \* what the files say, or NoFiles when the caller made its envelope
  loaded    \* "no", "accepted" or "refused"

configuration == <<config, loaded, request, verdict>>

NoFiles == [system |-> "none"]

---------------------------------------------------------------------------
(* Loading.                                                                *)

Sections ==
  {"system", "safety", "robot", "servos", "imu", "radio", "voice", "cognition"}

\* Field(gt=0)
AboveZero(x) == Finite(x) /\ x > 0

\* The Field constraints of the models; None where the type allows it.
FieldsValid(s) ==
  /\ \A x \in {s.motion.command_ttl_ms, s.motion.heartbeat_interval_ms,
               s.motion.heartbeat_timeout_ms, s.motion.max_velocity_deg_s,
               s.motion.max_acceleration_deg_s2} : AboveZero(x)
  /\ \A x \in {s.links.shoulder_mm, s.links.forearm_mm} : x # Missing => AboveZero(x)
  /\ \A name \in DOMAIN s.joints : s.joints[name].protocol_id \in {Missing} \cup 1 .. 255

\* _validate_workspace: a pair that holds a NaN is not found to be reversed.
WorkspaceUsable(axes) ==
  \A a \in DOMAIN axes :
    /\ Missing \notin {axes[a].min, axes[a].max}
    /\ Finite(axes[a].min) /\ Finite(axes[a].max) => axes[a].min < axes[a].max

\* _validate_verified_joint
JointUsable(j) ==
  /\ {Missing, NonFinite} \cap {j.min_deg, j.neutral_deg, j.max_deg} = {}
  /\ j.min_deg < j.neutral_deg /\ j.neutral_deg < j.max_deg

\* _validate_protocol_joint_ids
IdsUsable(joints) ==
  \A name \in DOMAIN joints :
    /\ joints[name].protocol_id # Missing
    /\ \A other \in DOMAIN joints :
         joints[other].protocol_id = joints[name].protocol_id => other = name

\* validate_app_settings
ValidateAppSettings(s) ==
  /\ s.startup_state = "BOOT"
  /\ s.motion.heartbeat_timeout_ms > s.motion.heartbeat_interval_ms
  /\ s.motion.command_ttl_ms <= s.motion.heartbeat_timeout_ms
  /\ s.require_manual_reset
  /\ s.motion_allowed \subseteq {"ARMED", "EXECUTING"}
  /\ IdsUsable(s.joints)
  /\ s.servos_verified =>
       /\ DOMAIN s.joints # {}
       /\ \A name \in DOMAIN s.joints : JointUsable(s.joints[name])
  /\ s.robot_verified =>
       /\ Missing \notin {s.links.shoulder_mm, s.links.forearm_mm}
       /\ s.poses_given
       /\ WorkspaceUsable(s.axes)
  /\ s.simulation \/ (s.robot_verified /\ s.servos_verified)

\* ConfigLoader.load
Accepted(s) == s.sections = Sections /\ FieldsValid(s) /\ ValidateAppSettings(s)

---------------------------------------------------------------------------
(* What is built from settings.                                            *)

\* A rate that is infinite passes Field(gt=0), and makes the policy invalid.
Rate(x) == IF x = Infinity THEN NonFinite ELSE x

\* Seeded fault: a motion may be as old as a heartbeat.
CommandTtlOfHeartbeat(s) == s.motion.heartbeat_timeout_ms

CommandTtl(s) == s.motion.command_ttl_ms

\* build_safety_envelope
BuildSafetyEnvelope(s) ==
  [joints |->
     [name \in DOMAIN s.joints |->
        LET j == s.joints[name]
        IN [min_deg |-> j.min_deg, neutral_deg |-> j.neutral_deg, max_deg |-> j.max_deg,
            verified |-> s.servos_verified
                         /\ Missing \notin {j.min_deg, j.neutral_deg, j.max_deg}]],
   workspace |->
     [axes |-> s.axes,
      verified |-> s.robot_verified
                   /\ \A a \in DOMAIN s.axes : Missing \notin {s.axes[a].min, s.axes[a].max}],
   allowed_states |-> s.motion_allowed,
   robot_verified |-> s.robot_verified, servos_verified |-> s.servos_verified,
   motion_policy |->
     [command_ttl_ms |-> CommandTtl(s),
      heartbeat_timeout_ms |-> s.motion.heartbeat_timeout_ms,
      max_velocity_deg_s |-> Rate(s.motion.max_velocity_deg_s),
      max_acceleration_deg_s2 |-> Rate(s.motion.max_acceleration_deg_s2)]]

\* RobotGateway.from_settings: the ids by joint, or nothing when it raises.
GatewayIds(s) ==
  {ids \in {[name \in DOMAIN s.joints |-> s.joints[name].protocol_id]} :
     /\ DOMAIN ids # {}
     /\ \A name \in DOMAIN ids : ids[name] # Missing
     /\ \A m, n \in DOMAIN ids : ids[m] = ids[n] => m = n}

---------------------------------------------------------------------------

NoRequest == [envelope |-> Missing]

ConfigurationInit ==
  \/ config \in AllSettings /\ request = NoRequest /\ loaded = "no" /\ verdict = Pending
  \/ config = NoFiles /\ loaded = "no" /\ Init

Load ==
  /\ config # NoFiles /\ loaded = "no"
  /\ loaded' = IF Accepted(config) THEN "accepted" ELSE "refused"
  /\ UNCHANGED <<config, request, verdict>>

\* The envelope is built from settings, whether or not they went through the
\* loader's validation, and a motion is asked for.
Build(motion) ==
  /\ FieldsValid(config)
  /\ request' = [envelope |-> BuildSafetyEnvelope(config),
                 candidate |-> motion.candidate, dynamics |-> motion.dynamics]
  /\ UNCHANGED <<config, loaded, verdict>>

ConfigurationNext ==
  \/ Load
  \/ config # NoFiles /\ request = NoRequest /\ \E motion \in Motions : Build(motion)
  \/ request # NoRequest /\ Assess /\ UNCHANGED <<config, loaded>>

ConfigurationSpec == ConfigurationInit /\ [][ConfigurationNext]_configuration

---------------------------------------------------------------------------

Within(x, low, high) ==
  {Missing, NonFinite} \cap {x, low, high} = {} /\ low <= x /\ x <= high

\* The motion keeps the limits that the files write down.
KeepsLimits(s, candidate, dynamics) ==
  /\ candidate.system_state \in s.motion_allowed /\ ~candidate.estop_active
  /\ candidate.workspace_point_mm # Missing
  /\ \A a \in DOMAIN s.axes :
        Within(candidate.workspace_point_mm[a], s.axes[a].min, s.axes[a].max)
  /\ DOMAIN candidate.joint_targets_deg # {}
  /\ \A n \in DOMAIN candidate.joint_targets_deg :
        /\ n \in DOMAIN s.joints
        /\ Within(candidate.joint_targets_deg[n], s.joints[n].min_deg, s.joints[n].max_deg)
  /\ \A samples \in {dynamics.joint_velocities_deg_s, dynamics.joint_accelerations_deg_s2} :
        /\ DOMAIN candidate.joint_targets_deg \subseteq DOMAIN samples
        /\ DOMAIN samples \subseteq DOMAIN s.joints
  /\ \A n \in DOMAIN candidate.joint_targets_deg :
        /\ Within(dynamics.joint_velocities_deg_s[n],
                  -s.motion.max_velocity_deg_s, s.motion.max_velocity_deg_s)
        /\ Within(dynamics.joint_accelerations_deg_s2[n],
                  -s.motion.max_acceleration_deg_s2, s.motion.max_acceleration_deg_s2)
  /\ Within(dynamics.command_age_ms, 0, s.motion.command_ttl_ms)
  /\ Within(dynamics.heartbeat_age_ms, 0, s.motion.heartbeat_timeout_ms)

Answered == config # NoFiles /\ verdict # Pending
RequestKeepsLimits == KeepsLimits(config, request.candidate, request.dynamics)

\* Fail closed: whatever the files say, complete or not, validated or not, a
\* motion is approved only on a robot whose arm and servos are declared
\* measured, and only within the limits that are written down.
FailsClosed ==
  Answered /\ verdict.decision = "APPROVE" =>
    config.robot_verified /\ config.servos_verified /\ RequestKeepsLimits

\* What validation accepts for real hardware is usable: a motion within the
\* limits is approved, so no envelope is built that refuses everything; unless
\* a limit is NaN, or a rate infinite.
AcceptedIsUsable ==
  /\ Answered /\ loaded = "accepted" /\ ~config.simulation
  /\ Infinity \notin {config.motion.max_velocity_deg_s, config.motion.max_acceleration_deg_s2}
  /\ RequestKeepsLimits
  => verdict.decision = "APPROVE"

\* A motion approved under accepted files can be sent: the gateway knows its
\* joints by ids that no two of them share.
ApprovedCanBeSent ==
  Answered /\ loaded = "accepted" /\ verdict.decision = "APPROVE" =>
    \E ids \in GatewayIds(config) :
      \A m, n \in DOMAIN request.candidate.joint_targets_deg :
        ids[m] \in 1 .. 255 /\ (ids[m] = ids[n] => m = n)

\* The files govern motion: they permit no more than they say, and once accepted no
\* less.
FilesGovernMotion == FailsClosed /\ AcceptedIsUsable /\ ApprovedCanBeSent

===========================================================================
