------------------------ MODULE MotionEligibility ------------------------
(***************************************************************************)
(* The pure checks a candidate motion passes through                       *)
(* (src/rci/safety/eligibility.py, dynamics.py and models.py), and what    *)
(* they are for: SafeMotion says directly which motions may be approved.   *)
(*                                                                         *)
(* A verdict lists the violations found; the list is kept as the set of    *)
(* their codes.  Angles, coordinates, speeds and ages are integers, or     *)
(* NonFinite for NaN and the infinities, or Missing for Python's None; as  *)
(* a limit of a joint or of the workspace NonFinite is NaN, which compares *)
(* with nothing, and an infinite limit is a large integer.                 *)
(***************************************************************************)
EXTENDS Integers

CONSTANTS
  NonFinite, Missing,
  Requests      \* the [envelope, candidate, dynamics] that callers pass in

\* None is not a number, and neither is NaN.
ASSUME NotNumbersAssumption ==
  /\ NonFinite \notin Int
  /\ Missing \notin Int \cup {NonFinite}

Number == Int \cup {NonFinite}

Finite(x) == x # NonFinite

---------------------------------------------------------------------------
(* The measured envelope.                                                  *)

\* JointConstraint.verified_complete and contains.
JointVerified(c) ==
  /\ c.verified
  /\ {Missing, NonFinite} \cap {c.min_deg, c.neutral_deg, c.max_deg} = {}
  /\ c.min_deg < c.neutral_deg /\ c.neutral_deg < c.max_deg

JointContains(c, angle) ==
  JointVerified(c) /\ Finite(angle) /\ c.min_deg <= angle /\ angle <= c.max_deg

\* WorkspaceBounds: one interval per axis, and a point has one coordinate per
\* axis.
WorkspaceVerified(w) ==
  /\ w.verified
  /\ \A a \in DOMAIN w.axes :
        /\ {Missing, NonFinite} \cap {w.axes[a].min, w.axes[a].max} = {}
        /\ w.axes[a].min < w.axes[a].max

PointFinite(point) == \A a \in DOMAIN point : Finite(point[a])

WorkspaceContains(w, point) ==
  /\ WorkspaceVerified(w) /\ PointFinite(point)
  /\ \A a \in DOMAIN w.axes :
        w.axes[a].min <= point[a] /\ point[a] <= w.axes[a].max

\* MotionSafetyPolicy.valid, and the None that stands for no policy.
PolicyValid(p) ==
  /\ p # Missing
  /\ \A x \in {p.command_ttl_ms, p.heartbeat_timeout_ms,
               p.max_velocity_deg_s, p.max_acceleration_deg_s2} :
        Finite(x) /\ x > 0

---------------------------------------------------------------------------
(* assess_motion_eligibility                                               *)

JointViolation(env, name, target) ==
  CASE ~Finite(target) -> {"INVALID_NUMERIC_TARGET"}
    [] Finite(target) /\ name \notin DOMAIN env.joints -> {"UNKNOWN_JOINT"}
    [] OTHER ->
         IF ~JointVerified(env.joints[name]) THEN {"JOINT_MODEL_UNVERIFIED"}
         ELSE IF ~JointContains(env.joints[name], target)
              THEN {"JOINT_LIMIT_VIOLATION"} ELSE {}

JointViolations(env, targets) ==
  IF ~env.servos_verified THEN {"JOINT_MODEL_UNVERIFIED"}
  ELSE UNION {JointViolation(env, name, targets[name]) : name \in DOMAIN targets}

WorkspaceViolations(env, point) ==
  IF ~env.robot_verified \/ ~WorkspaceVerified(env.workspace)
    THEN {"WORKSPACE_MODEL_UNVERIFIED"}
  ELSE IF point = Missing THEN {"WORKSPACE_TARGET_REQUIRED"}
  ELSE IF ~PointFinite(point) THEN {"INVALID_NUMERIC_TARGET"}
  ELSE IF ~WorkspaceContains(env.workspace, point)
    THEN {"WORKSPACE_LIMIT_VIOLATION"}
  ELSE {}

StaticViolations(env, cand) ==
  (IF cand.system_state \in env.allowed_states THEN {} ELSE {"STATE_NOT_ALLOWED"})
  \cup (IF DOMAIN cand.joint_targets_deg # {} THEN {} ELSE {"EMPTY_JOINT_TARGETS"})
  \cup JointViolations(env, cand.joint_targets_deg)
  \cup WorkspaceViolations(env, cand.workspace_point_mm)

Verdict(violations) ==
  [decision |-> IF violations = {} THEN "APPROVE" ELSE "REJECT",
   violations |-> violations]

AssessMotionEligibility(env, cand) ==
  IF cand.estop_active
  THEN [decision |-> "ESTOP", violations |-> {"ESTOP_ACTIVE"}]
  ELSE Verdict(StaticViolations(env, cand))

---------------------------------------------------------------------------
(* assess_dynamic_motion_eligibility                                       *)

AgeViolations(age, limit, invalid, stale) ==
  IF ~Finite(age) THEN {invalid}
  ELSE IF age < 0 THEN {invalid}
  ELSE IF age > limit THEN {stale} ELSE {}

\* Seeded fault: abs() forgotten.
SignedMagnitude(x) == x

Magnitude(x) == IF x < 0 THEN -x ELSE x

\* Only samples of joints that are moved are compared with the limit.
SampleViolations(samples, targets, limit, missing, exceeded) ==
  (IF DOMAIN targets \subseteq DOMAIN samples THEN {} ELSE {missing})
  \cup UNION {IF ~Finite(samples[n]) THEN {"INVALID_NUMERIC_TARGET"}
              ELSE IF Magnitude(samples[n]) > limit THEN {exceeded} ELSE {}
              : n \in DOMAIN samples \cap DOMAIN targets}

DynamicViolations(env, cand, dyn) ==
  LET policy == env.motion_policy
      targets == cand.joint_targets_deg
      speeds == dyn.joint_velocities_deg_s
      accelerations == dyn.joint_accelerations_deg_s2
  IN AgeViolations(dyn.command_age_ms, policy.command_ttl_ms,
                   "COMMAND_AGE_INVALID", "COMMAND_STALE")
     \cup AgeViolations(dyn.heartbeat_age_ms, policy.heartbeat_timeout_ms,
                        "HEARTBEAT_AGE_INVALID", "HEARTBEAT_STALE")
     \cup SampleViolations(speeds, targets, policy.max_velocity_deg_s,
                           "VELOCITY_SAMPLE_MISSING", "VELOCITY_LIMIT_VIOLATION")
     \cup SampleViolations(accelerations, targets, policy.max_acceleration_deg_s2,
                           "ACCELERATION_SAMPLE_MISSING",
                           "ACCELERATION_LIMIT_VIOLATION")
     \cup (IF DOMAIN speeds \cup DOMAIN accelerations \subseteq DOMAIN env.joints
           THEN {} ELSE {"DYNAMIC_SAMPLE_UNKNOWN_JOINT"})

AssessDynamicMotionEligibility(env, cand, dyn) ==
  LET static == AssessMotionEligibility(env, cand)
  IN IF static.decision # "APPROVE" THEN static
     ELSE IF ~PolicyValid(env.motion_policy)
       THEN Verdict({"MOTION_POLICY_UNAVAILABLE"})
     ELSE Verdict(DynamicViolations(env, cand, dyn))

---------------------------------------------------------------------------
(* What the checks are for, stated without them.                           *)

Between(low, x, high) == x # NonFinite /\ low <= x /\ x <= high

\* The named joint has a measured range and a neutral pose inside it.
Measured(c) ==
  /\ c.verified
  /\ \A x \in {c.min_deg, c.neutral_deg, c.max_deg} : x \notin {Missing, NonFinite}
  /\ c.min_deg < c.neutral_deg /\ c.neutral_deg < c.max_deg

\* A motion is safe if the robot is measured and in a state that may move,
\* every moved joint stays within its own measured limits of position, speed
\* and acceleration, the tool stays in the workspace, nothing is said of joints
\* the robot does not have, and both clocks are fresh.
SafeMotion(env, cand, dyn) ==
  /\ ~cand.estop_active
  /\ cand.system_state \in env.allowed_states
  /\ env.servos_verified /\ env.robot_verified
  /\ WorkspaceVerified(env.workspace)
  /\ cand.workspace_point_mm # Missing
  /\ \A a \in DOMAIN cand.workspace_point_mm :
        cand.workspace_point_mm[a] # NonFinite
  /\ \A a \in DOMAIN env.workspace.axes :
        /\ env.workspace.axes[a].min <= cand.workspace_point_mm[a]
        /\ cand.workspace_point_mm[a] <= env.workspace.axes[a].max
  /\ PolicyValid(env.motion_policy)
  /\ Between(0, dyn.command_age_ms, env.motion_policy.command_ttl_ms)
  /\ Between(0, dyn.heartbeat_age_ms, env.motion_policy.heartbeat_timeout_ms)
  /\ DOMAIN cand.joint_targets_deg # {}
  /\ \A n \in DOMAIN cand.joint_targets_deg :
        /\ n \in DOMAIN env.joints \cap DOMAIN dyn.joint_velocities_deg_s
                          \cap DOMAIN dyn.joint_accelerations_deg_s2
        /\ Measured(env.joints[n])
        /\ Between(env.joints[n].min_deg, cand.joint_targets_deg[n],
                   env.joints[n].max_deg)
        /\ Between(-env.motion_policy.max_velocity_deg_s,
                   dyn.joint_velocities_deg_s[n],
                   env.motion_policy.max_velocity_deg_s)
        /\ Between(-env.motion_policy.max_acceleration_deg_s2,
                   dyn.joint_accelerations_deg_s2[n],
                   env.motion_policy.max_acceleration_deg_s2)
  /\ DOMAIN dyn.joint_velocities_deg_s \subseteq DOMAIN env.joints
  /\ DOMAIN dyn.joint_accelerations_deg_s2 \subseteq DOMAIN env.joints

---------------------------------------------------------------------------
(* One assessment, so that the checks can be run over every request.       *)

VARIABLES request, verdict

vars == <<request, verdict>>

\* The dataclasses' annotations, as far as a comparison depends on them.
WellTyped(env, dyn) ==
  /\ env.motion_policy # Missing =>
       {env.motion_policy.command_ttl_ms, env.motion_policy.heartbeat_timeout_ms,
        env.motion_policy.max_velocity_deg_s,
        env.motion_policy.max_acceleration_deg_s2} \subseteq Number
  /\ {dyn.command_age_ms, dyn.heartbeat_age_ms} \subseteq Number
  /\ \A n \in DOMAIN dyn.joint_velocities_deg_s :
        dyn.joint_velocities_deg_s[n] \in Number
  /\ \A n \in DOMAIN dyn.joint_accelerations_deg_s2 :
        dyn.joint_accelerations_deg_s2[n] \in Number

ASSUME RequestsAssumption ==
  \A r \in Requests : WellTyped(r.envelope, r.dynamics)

Pending == [decision |-> "PENDING", violations |-> {}]

Init == request \in Requests /\ verdict = Pending

Assess ==
  /\ verdict = Pending
  /\ verdict' = AssessDynamicMotionEligibility(request.envelope,
                                               request.candidate, request.dynamics)
  /\ UNCHANGED request

Next == Assess

Spec == Init /\ [][Next]_vars

\* The checks, each written as the search for something wrong, together approve
\* exactly the safe motions, whatever mixture of missing, unmeasured, infinite
\* and out-of-range data the caller passes.
ApprovesExactlySafeMotion ==
  verdict # Pending =>
    (verdict.decision = "APPROVE"
       <=> SafeMotion(request.envelope, request.candidate, request.dynamics))
===========================================================================
