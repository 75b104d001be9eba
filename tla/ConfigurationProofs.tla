----------------------- MODULE ConfigurationProofs -----------------------
(***************************************************************************)
(* The checks of MotionEligibility approve exactly the safe motions, for   *)
(* every envelope, candidate and sample set, not only the enumerated ones. *)
(* Each lemma turns one search for violations into the condition it tests. *)
(* With the envelope that is built from files this says what the files     *)
(* have to do with motion, whatever they contain.                          *)
(***************************************************************************)
EXTENDS Configuration, TLAPS

\* The per-joint loop of assess_motion_eligibility finds nothing.
LEMMA NoJointViolations ==
  ASSUME NEW env, NEW targets
  PROVE  JointViolations(env, targets) = {}
           <=> /\ env.servos_verified
               /\ \A n \in DOMAIN targets :
                    n \in DOMAIN env.joints /\ JointContains(env.joints[n], targets[n])
<1>1. ASSUME NEW n
      PROVE  JointViolation(env, n, targets[n]) = {}
               <=> n \in DOMAIN env.joints
                   /\ JointContains(env.joints[n], targets[n])
  BY DEF JointViolation, JointContains
<1>2. CASE ~env.servos_verified
  BY <1>2 DEF JointViolations
<1>3. CASE env.servos_verified
  <2>1. JointViolations(env, targets) = {}
          <=> \A n \in DOMAIN targets : JointViolation(env, n, targets[n]) = {}
    BY <1>3 DEF JointViolations
  <2> QED
    BY <1>1, <1>3, <2>1
<1> QED
  BY <1>2, <1>3

LEMMA NoWorkspaceViolations ==
  ASSUME NEW env, NEW point
  PROVE  WorkspaceViolations(env, point) = {}
           <=> /\ env.robot_verified /\ point # Missing
               /\ WorkspaceContains(env.workspace, point)
  BY DEF WorkspaceViolations, WorkspaceContains

LEMMA StaticApproval ==
  ASSUME NEW env, NEW cand
  PROVE  StaticViolations(env, cand) = {}
           <=> /\ cand.system_state \in env.allowed_states
               /\ DOMAIN cand.joint_targets_deg # {}
               /\ JointViolations(env, cand.joint_targets_deg) = {}
               /\ WorkspaceViolations(env, cand.workspace_point_mm) = {}
  BY DEF StaticViolations

\* A measured age is accepted exactly between zero and its limit.
LEMMA NoAgeViolations ==
  ASSUME NEW age \in Number, NEW limit \in Int, NEW i, NEW s
  PROVE  AgeViolations(age, limit, i, s) = {} <=> Between(0, age, limit)
<1>1. CASE age = NonFinite
  BY <1>1 DEF AgeViolations, Finite, Between
<1>2. CASE age \in Int
  BY <1>2, NotNumbersAssumption DEF AgeViolations, Finite, Between
<1> QED
  BY <1>1, <1>2 DEF Number

\* The two sample loops find nothing: every moved joint has a sample, and its
\* magnitude is within the limit.
LEMMA NoSampleViolations ==
  ASSUME NEW samples, NEW targets, NEW limit \in Int, NEW m, NEW e,
         \A n \in DOMAIN samples : samples[n] \in Number
  PROVE  SampleViolations(samples, targets, limit, m, e) = {}
           <=> \A n \in DOMAIN targets :
                 n \in DOMAIN samples /\ Between(-limit, samples[n], limit)
<1> DEFINE Bad(n) == IF ~Finite(samples[n]) THEN {"INVALID_NUMERIC_TARGET"}
                     ELSE IF Magnitude(samples[n]) > limit THEN {e} ELSE {}
<1>1. ASSUME NEW n \in DOMAIN samples
      PROVE  Bad(n) = {} <=> Between(-limit, samples[n], limit)
  <2>1. CASE samples[n] = NonFinite
    BY <2>1 DEF Finite, Between
  <2>2. CASE samples[n] \in Int
    <3>1. samples[n] # NonFinite
      BY <2>2, NotNumbersAssumption
    <3>2. ~(Magnitude(samples[n]) > limit)
            <=> -limit <= samples[n] /\ samples[n] <= limit
      BY <2>2 DEF Magnitude
    <3> QED
      BY <3>1, <3>2 DEF Finite, Between
  <2> QED
    BY <2>1, <2>2 DEF Number
<1>2. SampleViolations(samples, targets, limit, m, e) = {}
        <=> /\ DOMAIN targets \subseteq DOMAIN samples
            /\ \A n \in DOMAIN samples \cap DOMAIN targets : Bad(n) = {}
  BY DEF SampleViolations
<1> HIDE DEF Bad
<1> QED
  BY <1>1, <1>2

\* With a valid policy the dynamic checks find nothing exactly when both ages
\* and every sample are within their limits.
LEMMA DynamicApproval ==
  ASSUME NEW env, NEW cand, NEW dyn,
         WellTyped(env, dyn), PolicyValid(env.motion_policy)
  PROVE  DynamicViolations(env, cand, dyn) = {}
           <=> /\ Between(0, dyn.command_age_ms, env.motion_policy.command_ttl_ms)
               /\ Between(0, dyn.heartbeat_age_ms,
                          env.motion_policy.heartbeat_timeout_ms)
               /\ \A n \in DOMAIN cand.joint_targets_deg :
                    /\ n \in DOMAIN dyn.joint_velocities_deg_s
                    /\ Between(-env.motion_policy.max_velocity_deg_s,
                               dyn.joint_velocities_deg_s[n],
                               env.motion_policy.max_velocity_deg_s)
               /\ \A n \in DOMAIN cand.joint_targets_deg :
                    /\ n \in DOMAIN dyn.joint_accelerations_deg_s2
                    /\ Between(-env.motion_policy.max_acceleration_deg_s2,
                               dyn.joint_accelerations_deg_s2[n],
                               env.motion_policy.max_acceleration_deg_s2)
               /\ DOMAIN dyn.joint_velocities_deg_s \subseteq DOMAIN env.joints
               /\ DOMAIN dyn.joint_accelerations_deg_s2 \subseteq DOMAIN env.joints
<1> DEFINE p == env.motion_policy
           ages == AgeViolations(dyn.command_age_ms, p.command_ttl_ms,
                                 "COMMAND_AGE_INVALID", "COMMAND_STALE")
           beats == AgeViolations(dyn.heartbeat_age_ms, p.heartbeat_timeout_ms,
                                  "HEARTBEAT_AGE_INVALID", "HEARTBEAT_STALE")
           speeds == SampleViolations(dyn.joint_velocities_deg_s,
                       cand.joint_targets_deg, p.max_velocity_deg_s,
                       "VELOCITY_SAMPLE_MISSING", "VELOCITY_LIMIT_VIOLATION")
           accels == SampleViolations(dyn.joint_accelerations_deg_s2,
                       cand.joint_targets_deg, p.max_acceleration_deg_s2,
                       "ACCELERATION_SAMPLE_MISSING",
                       "ACCELERATION_LIMIT_VIOLATION")
<1>1. /\ p.command_ttl_ms \in Int /\ p.heartbeat_timeout_ms \in Int
      /\ p.max_velocity_deg_s \in Int /\ p.max_acceleration_deg_s2 \in Int
  BY DEF WellTyped, PolicyValid, Finite, Number
<1>2. dyn.command_age_ms \in Number /\ dyn.heartbeat_age_ms \in Number
  BY DEF WellTyped
<1>3. ages = {} <=> Between(0, dyn.command_age_ms, p.command_ttl_ms)
  BY <1>1, <1>2, NoAgeViolations
<1>4. beats = {} <=> Between(0, dyn.heartbeat_age_ms, p.heartbeat_timeout_ms)
  BY <1>1, <1>2, NoAgeViolations
<1>5. speeds = {}
        <=> \A n \in DOMAIN cand.joint_targets_deg :
              /\ n \in DOMAIN dyn.joint_velocities_deg_s
              /\ Between(-p.max_velocity_deg_s, dyn.joint_velocities_deg_s[n],
                         p.max_velocity_deg_s)
  BY <1>1, NoSampleViolations DEF WellTyped
<1>6. accels = {}
        <=> \A n \in DOMAIN cand.joint_targets_deg :
              /\ n \in DOMAIN dyn.joint_accelerations_deg_s2
              /\ Between(-p.max_acceleration_deg_s2,
                         dyn.joint_accelerations_deg_s2[n],
                         p.max_acceleration_deg_s2)
  BY <1>1, NoSampleViolations DEF WellTyped
<1>7. DynamicViolations(env, cand, dyn) = {}
        <=> /\ ages = {} /\ beats = {} /\ speeds = {} /\ accels = {}
            /\ DOMAIN dyn.joint_velocities_deg_s
                 \cup DOMAIN dyn.joint_accelerations_deg_s2 \subseteq DOMAIN env.joints
  BY DEF DynamicViolations
<1> HIDE DEF ages, beats, speeds, accels
<1> QED
  BY <1>3, <1>4, <1>5, <1>6, <1>7

\* The whole assessment approves exactly the safe motions.
THEOREM ApprovalIsSafety ==
  ASSUME NEW env, NEW cand, NEW dyn, WellTyped(env, dyn)
  PROVE  AssessDynamicMotionEligibility(env, cand, dyn).decision = "APPROVE"
           <=> SafeMotion(env, cand, dyn)
<1> DEFINE A == AssessDynamicMotionEligibility(env, cand, dyn)
<1>1. A.decision = "APPROVE"
        <=> /\ ~cand.estop_active
            /\ StaticViolations(env, cand) = {}
            /\ PolicyValid(env.motion_policy)
            /\ DynamicViolations(env, cand, dyn) = {}
  <2>1. AssessMotionEligibility(env, cand).decision = "APPROVE"
          <=> ~cand.estop_active /\ StaticViolations(env, cand) = {}
    BY DEF AssessMotionEligibility, Verdict
  <2> QED
    BY <2>1 DEF AssessDynamicMotionEligibility, Verdict
<1>2. ASSUME NEW n
      PROVE  JointContains(env.joints[n], cand.joint_targets_deg[n])
               <=> /\ Measured(env.joints[n])
                   /\ Between(env.joints[n].min_deg, cand.joint_targets_deg[n],
                              env.joints[n].max_deg)
  BY DEF JointContains, JointVerified, Measured, Between, Finite
<1>3. StaticViolations(env, cand) = {}
        <=> /\ cand.system_state \in env.allowed_states
            /\ DOMAIN cand.joint_targets_deg # {}
            /\ env.servos_verified
            /\ \A n \in DOMAIN cand.joint_targets_deg :
                 /\ n \in DOMAIN env.joints
                 /\ Measured(env.joints[n])
                 /\ Between(env.joints[n].min_deg, cand.joint_targets_deg[n],
                            env.joints[n].max_deg)
            /\ env.robot_verified /\ cand.workspace_point_mm # Missing
            /\ WorkspaceContains(env.workspace, cand.workspace_point_mm)
  BY <1>2, StaticApproval, NoJointViolations, NoWorkspaceViolations
<1>4. WorkspaceContains(env.workspace, cand.workspace_point_mm)
        <=> /\ WorkspaceVerified(env.workspace)
            /\ \A a \in DOMAIN cand.workspace_point_mm :
                  cand.workspace_point_mm[a] # NonFinite
            /\ \A a \in DOMAIN env.workspace.axes :
                  /\ env.workspace.axes[a].min <= cand.workspace_point_mm[a]
                  /\ cand.workspace_point_mm[a] <= env.workspace.axes[a].max
  BY DEF WorkspaceContains, PointFinite, Finite
<1> DEFINE D == DynamicViolations(env, cand, dyn) = {}
           V(n) == /\ n \in DOMAIN dyn.joint_velocities_deg_s
                   /\ Between(-env.motion_policy.max_velocity_deg_s,
                              dyn.joint_velocities_deg_s[n],
                              env.motion_policy.max_velocity_deg_s)
           W(n) == /\ n \in DOMAIN dyn.joint_accelerations_deg_s2
                   /\ Between(-env.motion_policy.max_acceleration_deg_s2,
                              dyn.joint_accelerations_deg_s2[n],
                              env.motion_policy.max_acceleration_deg_s2)
           Ages == /\ Between(0, dyn.command_age_ms, env.motion_policy.command_ttl_ms)
                   /\ Between(0, dyn.heartbeat_age_ms,
                              env.motion_policy.heartbeat_timeout_ms)
           Known == /\ DOMAIN dyn.joint_velocities_deg_s \subseteq DOMAIN env.joints
                    /\ DOMAIN dyn.joint_accelerations_deg_s2
                         \subseteq DOMAIN env.joints
           Limits(n) == /\ Measured(env.joints[n])
                        /\ Between(env.joints[n].min_deg, cand.joint_targets_deg[n],
                                   env.joints[n].max_deg)
<1>5. PolicyValid(env.motion_policy)
        => (D <=> /\ Ages /\ Known
                  /\ \A n \in DOMAIN cand.joint_targets_deg : V(n)
                  /\ \A n \in DOMAIN cand.joint_targets_deg : W(n))
  BY DynamicApproval
<1>6. SafeMotion(env, cand, dyn)
        <=> /\ ~cand.estop_active
            /\ cand.system_state \in env.allowed_states
            /\ env.servos_verified /\ env.robot_verified
            /\ cand.workspace_point_mm # Missing
            /\ WorkspaceContains(env.workspace, cand.workspace_point_mm)
            /\ PolicyValid(env.motion_policy)
            /\ Ages /\ Known
            /\ DOMAIN cand.joint_targets_deg # {}
            /\ \A n \in DOMAIN cand.joint_targets_deg :
                  n \in DOMAIN env.joints /\ Limits(n) /\ V(n) /\ W(n)
  BY <1>4 DEF SafeMotion
<1> HIDE DEF A, D, V, W, Ages, Known, Limits
<1>7. StaticViolations(env, cand) = {}
        <=> /\ cand.system_state \in env.allowed_states
            /\ DOMAIN cand.joint_targets_deg # {}
            /\ env.servos_verified
            /\ \A n \in DOMAIN cand.joint_targets_deg :
                  n \in DOMAIN env.joints /\ Limits(n)
            /\ env.robot_verified /\ cand.workspace_point_mm # Missing
            /\ WorkspaceContains(env.workspace, cand.workspace_point_mm)
  BY <1>3 DEF Limits
<1>8. A.decision = "APPROVE" <=> SafeMotion(env, cand, dyn)
  BY <1>1, <1>5, <1>6, <1>7 DEF D
<1> QED
  BY <1>8 DEF A

\* The same, as the invariant that the run checks.
THEOREM ApprovesExactlySafeMotionAlways == Spec => []ApprovesExactlySafeMotion
<1> DEFINE Typed == WellTyped(request.envelope, request.dynamics)
<1>1. Init => Typed /\ ApprovesExactlySafeMotion
  BY RequestsAssumption DEF Init, ApprovesExactlySafeMotion
<1>2. Typed /\ ApprovesExactlySafeMotion /\ [Next]_vars
        => (Typed /\ ApprovesExactlySafeMotion)'
  BY ApprovalIsSafety DEF ApprovesExactlySafeMotion, Next, Assess, vars
<1> QED
  BY <1>1, <1>2, PTL DEF Spec

---------------------------------------------------------------------------
(* From files to approval.                                                 *)

Asked(motion) ==
  [envelope |-> BuildSafetyEnvelope(config),
   candidate |-> motion.candidate, dynamics |-> motion.dynamics]

\* A request was built from the files that are there, and its answer is the checks'.
Answering ==
  /\ FieldsValid(config)
  /\ \E motion \in Motions : request = Asked(motion)
  /\ verdict \in {Pending,
                  AssessDynamicMotionEligibility(request.envelope, request.candidate,
                                                 request.dynamics)}

ConfigurationInv ==
  config # NoFiles =>
    /\ config \in AllSettings
    /\ loaded = "accepted" => Accepted(config)
    /\ (request = NoRequest /\ verdict = Pending) \/ Answering

LEMMA ConfigurationNextInv ==
  ConfigurationInv /\ [ConfigurationNext]_configuration => ConfigurationInv'
<1> SUFFICES ASSUME ConfigurationInv, [ConfigurationNext]_configuration, config' # NoFiles
             PROVE  ConfigurationInv'
  BY DEF ConfigurationInv
<1>1. CASE Load
  BY <1>1 DEF Load, ConfigurationInv, Answering, Asked
<1>2. ASSUME config # NoFiles /\ request = NoRequest, NEW motion \in Motions, Build(motion)
      PROVE  ConfigurationInv'
  <2>1. /\ request' = Asked(motion) /\ FieldsValid(config)
        /\ UNCHANGED <<config, loaded, verdict>>
    BY <1>2 DEF Build, Asked
  <2>2. verdict = Pending
    <3>1. \A m \in Motions : "dynamics" \in DOMAIN Asked(m)
      BY DEF Asked
    <3>2. "dynamics" \notin DOMAIN NoRequest
      BY DEF NoRequest
    <3>3. ~Answering
      BY <1>2, <3>1, <3>2 DEF Answering
    <3> QED
      BY <1>2, <3>3 DEF ConfigurationInv
  <2>3. Answering'
    BY <2>1, <2>2 DEF Answering, Asked
  <2> QED
    BY <1>2, <2>1, <2>3 DEF ConfigurationInv
<1>3. CASE request # NoRequest /\ Assess /\ UNCHANGED <<config, loaded>>
  BY <1>3 DEF Assess, ConfigurationInv, Answering, Asked
<1>4. CASE UNCHANGED configuration
  BY <1>4 DEF configuration, ConfigurationInv, Answering, Asked
<1> QED
  BY <1>1, <1>2, <1>3, <1>4 DEF ConfigurationNext

\* Both sides of what is proved next: the envelope's limits are the files'.
LEMMA RequestIsTyped ==
  ASSUME config \in AllSettings, Answering
  PROVE  /\ WellTyped(request.envelope, request.dynamics)
         /\ request.envelope = BuildSafetyEnvelope(config)
         /\ \A n \in DOMAIN request.candidate.joint_targets_deg :
              request.candidate.joint_targets_deg[n] \in Number
         /\ request.candidate.workspace_point_mm
              \in {Missing} \cup [DOMAIN config.axes -> Number]
<1>1. PICK motion \in Motions : request = Asked(motion)
  BY DEF Answering
<1>2. /\ request.envelope = BuildSafetyEnvelope(config)
      /\ request.candidate = motion.candidate /\ request.dynamics = motion.dynamics
  BY <1>1 DEF Asked
<1>3. {config.motion.command_ttl_ms, config.motion.heartbeat_timeout_ms,
       config.motion.max_velocity_deg_s, config.motion.max_acceleration_deg_s2}
        \subseteq Number
  BY ConfigurationAssumption
<1>4. \A x \in Number : Rate(x) \in Number
  BY DEF Rate, Number
<1>5. LET p == request.envelope.motion_policy
      IN {p.command_ttl_ms, p.heartbeat_timeout_ms, p.max_velocity_deg_s,
          p.max_acceleration_deg_s2} \subseteq Number
  BY <1>2, <1>3, <1>4 DEF BuildSafetyEnvelope, CommandTtl
<1>6. WellTyped(request.envelope, request.dynamics)
  BY <1>2, <1>5, ConfigurationAssumption DEF WellTyped
<1> QED
  BY <1>2, <1>6, ConfigurationAssumption

\* The envelope's policy is valid unless a rate is infinite.
LEMMA PolicyOfFiles ==
  ASSUME config \in AllSettings, FieldsValid(config)
  PROVE  LET m == config.motion
             p == BuildSafetyEnvelope(config).motion_policy
         IN /\ PolicyValid(p)
                 <=> Infinity \notin {m.max_velocity_deg_s, m.max_acceleration_deg_s2}
            /\ PolicyValid(p) =>
                 /\ p.max_velocity_deg_s = m.max_velocity_deg_s
                 /\ p.max_acceleration_deg_s2 = m.max_acceleration_deg_s2
            /\ p.command_ttl_ms = m.command_ttl_ms
            /\ p.heartbeat_timeout_ms = m.heartbeat_timeout_ms
            /\ {m.max_velocity_deg_s, m.max_acceleration_deg_s2, m.command_ttl_ms,
                m.heartbeat_timeout_ms} \subseteq Int
<1> DEFINE m == config.motion
           p == BuildSafetyEnvelope(config).motion_policy
<1>1. /\ m.command_ttl_ms \in Number /\ m.heartbeat_timeout_ms \in Number
      /\ m.max_velocity_deg_s \in Number /\ m.max_acceleration_deg_s2 \in Number
  BY ConfigurationAssumption
<1>2. /\ AboveZero(m.command_ttl_ms) /\ AboveZero(m.heartbeat_timeout_ms)
      /\ AboveZero(m.max_velocity_deg_s) /\ AboveZero(m.max_acceleration_deg_s2)
  BY DEF FieldsValid
<1>3. p = [command_ttl_ms |-> m.command_ttl_ms,
           heartbeat_timeout_ms |-> m.heartbeat_timeout_ms,
           max_velocity_deg_s |-> Rate(m.max_velocity_deg_s),
           max_acceleration_deg_s2 |-> Rate(m.max_acceleration_deg_s2)]
  BY DEF BuildSafetyEnvelope, CommandTtl
<1>4. /\ m.max_velocity_deg_s \in Int /\ m.max_acceleration_deg_s2 \in Int
      /\ m.command_ttl_ms \in Int /\ m.heartbeat_timeout_ms \in Int
  BY <1>1, <1>2 DEF Number, AboveZero, Finite
<1> HIDE DEF m
<1>5. p # Missing
  <2>1. p \in Policies
    BY <1>1, <1>3, <1>4 DEF Policies, Rate, Number
  <2> QED
    BY <2>1, ConfigurationAssumption
<1>6. p.max_velocity_deg_s # NonFinite <=> m.max_velocity_deg_s # Infinity
  BY <1>2, <1>3 DEF Rate, AboveZero, Finite
<1>7. p.max_acceleration_deg_s2 # NonFinite <=> m.max_acceleration_deg_s2 # Infinity
  BY <1>2, <1>3 DEF Rate, AboveZero, Finite
<1>8. /\ p.max_velocity_deg_s # NonFinite => p.max_velocity_deg_s = m.max_velocity_deg_s
      /\ p.max_acceleration_deg_s2 # NonFinite
           => p.max_acceleration_deg_s2 = m.max_acceleration_deg_s2
      /\ p.command_ttl_ms = m.command_ttl_ms
      /\ p.heartbeat_timeout_ms = m.heartbeat_timeout_ms
  BY <1>3 DEF Rate
<1> HIDE DEF p
<1>9. PolicyValid(p)
        <=> Infinity \notin {m.max_velocity_deg_s, m.max_acceleration_deg_s2}
  BY <1>2, <1>5, <1>6, <1>7, <1>8 DEF PolicyValid, AboveZero, Finite
<1>10. PolicyValid(p) => /\ p.max_velocity_deg_s # NonFinite
                         /\ p.max_acceleration_deg_s2 # NonFinite
  BY DEF PolicyValid, Finite
<1> QED
  BY <1>4, <1>8, <1>9, <1>10 DEF m, p

\* What KeepsLimits asks of the motion itself is what SafeMotion asks of it, given
\* that nothing limits it but what the files write down.
LEMMA SafeIsWithinFiles ==
  ASSUME config \in AllSettings, Answering,
         SafeMotion(request.envelope, request.candidate, request.dynamics)
  PROVE  /\ config.robot_verified /\ config.servos_verified
         /\ RequestKeepsLimits
<1> DEFINE m == config.motion
           e == request.envelope
           p == e.motion_policy
           c == request.candidate
           d == request.dynamics
           s == config
<1>1. /\ e = BuildSafetyEnvelope(s) /\ FieldsValid(s)
      /\ \A n \in DOMAIN c.joint_targets_deg : c.joint_targets_deg[n] \in Number
      /\ c.workspace_point_mm \in {Missing} \cup [DOMAIN s.axes -> Number]
  BY RequestIsTyped DEF Answering
<1>2. /\ e.allowed_states = s.motion_allowed /\ e.workspace.axes = s.axes
      /\ e.robot_verified = s.robot_verified /\ e.servos_verified = s.servos_verified
      /\ DOMAIN e.joints = DOMAIN s.joints
      /\ \A n \in DOMAIN s.joints :
           /\ e.joints[n].min_deg = s.joints[n].min_deg
           /\ e.joints[n].max_deg = s.joints[n].max_deg
  BY <1>1 DEF BuildSafetyEnvelope
<1>3. /\ p.max_velocity_deg_s = m.max_velocity_deg_s
      /\ p.max_acceleration_deg_s2 = m.max_acceleration_deg_s2
      /\ p.command_ttl_ms = m.command_ttl_ms
      /\ p.heartbeat_timeout_ms = m.heartbeat_timeout_ms
      /\ m.max_velocity_deg_s \in Int /\ m.max_acceleration_deg_s2 \in Int
      /\ m.command_ttl_ms \in Int /\ m.heartbeat_timeout_ms \in Int
  BY <1>1, PolicyOfFiles DEF SafeMotion
<1>4. /\ ~c.estop_active /\ c.system_state \in s.motion_allowed
      /\ s.servos_verified /\ s.robot_verified
      /\ c.workspace_point_mm # Missing /\ DOMAIN c.joint_targets_deg # {}
  BY <1>2 DEF SafeMotion
<1>5. \A a \in DOMAIN s.axes :
        Within(c.workspace_point_mm[a], s.axes[a].min, s.axes[a].max)
  <2> SUFFICES ASSUME NEW a \in DOMAIN s.axes
               PROVE  Within(c.workspace_point_mm[a], s.axes[a].min, s.axes[a].max)
    OBVIOUS
  <2>1. c.workspace_point_mm[a] \in Number /\ a \in DOMAIN c.workspace_point_mm
    BY <1>1, <1>4
  <2>2. c.workspace_point_mm[a] \notin {Missing, NonFinite}
    BY <2>1, NotNumbersAssumption DEF SafeMotion, Number
  <2>3. {Missing, NonFinite} \cap {s.axes[a].min, s.axes[a].max} = {}
    BY <1>2 DEF SafeMotion, WorkspaceVerified
  <2>4. s.axes[a].min <= c.workspace_point_mm[a] /\ c.workspace_point_mm[a] <= s.axes[a].max
    BY <1>2 DEF SafeMotion
  <2> QED
    BY <2>2, <2>3, <2>4 DEF Within
<1>6. ASSUME NEW n \in DOMAIN c.joint_targets_deg
      PROVE  /\ n \in DOMAIN s.joints
             /\ Within(c.joint_targets_deg[n], s.joints[n].min_deg, s.joints[n].max_deg)
             /\ n \in DOMAIN d.joint_velocities_deg_s
             /\ n \in DOMAIN d.joint_accelerations_deg_s2
             /\ Within(d.joint_velocities_deg_s[n], -m.max_velocity_deg_s,
                       m.max_velocity_deg_s)
             /\ Within(d.joint_accelerations_deg_s2[n], -m.max_acceleration_deg_s2,
                       m.max_acceleration_deg_s2)
  <2>1. /\ n \in DOMAIN s.joints
        /\ n \in DOMAIN d.joint_velocities_deg_s
        /\ n \in DOMAIN d.joint_accelerations_deg_s2
        /\ Measured(e.joints[n])
        /\ Between(s.joints[n].min_deg, c.joint_targets_deg[n], s.joints[n].max_deg)
        /\ Between(-m.max_velocity_deg_s, d.joint_velocities_deg_s[n],
                   m.max_velocity_deg_s)
        /\ Between(-m.max_acceleration_deg_s2, d.joint_accelerations_deg_s2[n],
                   m.max_acceleration_deg_s2)
    BY <1>2, <1>3 DEF SafeMotion
  <2>2. {s.joints[n].min_deg, s.joints[n].max_deg} \cap {Missing, NonFinite} = {}
    BY <1>2, <2>1 DEF Measured
  <2>3. /\ c.joint_targets_deg[n] \in Number
        /\ d.joint_velocities_deg_s[n] \in Number
        /\ d.joint_accelerations_deg_s2[n] \in Number
    BY <1>1, <2>1, RequestIsTyped DEF WellTyped
  <2> HIDE DEF m, s, c, d
  <2>4. Missing \notin Number
    BY NotNumbersAssumption DEF Number
  <2>5. /\ -m.max_velocity_deg_s \notin {Missing, NonFinite}
        /\ m.max_velocity_deg_s \notin {Missing, NonFinite}
        /\ -m.max_acceleration_deg_s2 \notin {Missing, NonFinite}
        /\ m.max_acceleration_deg_s2 \notin {Missing, NonFinite}
    <3>1. \A x \in Int : x \notin {Missing, NonFinite} /\ -x \notin {Missing, NonFinite}
      BY NotNumbersAssumption
    <3> QED
      BY <1>3, <3>1
  <2> QED
    BY <2>1, <2>2, <2>3, <2>4, <2>5 DEF Within, Between
<1>7. /\ DOMAIN d.joint_velocities_deg_s \subseteq DOMAIN s.joints
      /\ DOMAIN d.joint_accelerations_deg_s2 \subseteq DOMAIN s.joints
  BY <1>2 DEF SafeMotion
<1>8. /\ Within(d.command_age_ms, 0, m.command_ttl_ms)
      /\ Within(d.heartbeat_age_ms, 0, m.heartbeat_timeout_ms)
  <2>1. /\ Between(0, d.command_age_ms, m.command_ttl_ms)
        /\ Between(0, d.heartbeat_age_ms, m.heartbeat_timeout_ms)
    BY <1>3 DEF SafeMotion
  <2>2. d.command_age_ms \in Number /\ d.heartbeat_age_ms \in Number
    BY RequestIsTyped DEF WellTyped
  <2> QED
    BY <1>3, <2>1, <2>2, NotNumbersAssumption DEF Within, Between, Number
<1>9. KeepsLimits(s, c, d)
  BY <1>4, <1>5, <1>6, <1>7, <1>8 DEF KeepsLimits
<1> QED
  BY <1>4, <1>9 DEF RequestKeepsLimits

\* What validation accepts for real hardware stands in no motion's way that keeps
\* the limits.
LEMMA WithinFilesIsSafe ==
  ASSUME config \in AllSettings, Answering, Accepted(config), ~config.simulation,
         Infinity \notin {config.motion.max_velocity_deg_s,
                          config.motion.max_acceleration_deg_s2},
         RequestKeepsLimits
  PROVE  SafeMotion(request.envelope, request.candidate, request.dynamics)
<1> DEFINE m == config.motion
           e == request.envelope
           p == e.motion_policy
           c == request.candidate
           d == request.dynamics
           s == config
<1>1. /\ e = BuildSafetyEnvelope(s) /\ FieldsValid(s) /\ KeepsLimits(s, c, d)
      /\ c.workspace_point_mm \in [DOMAIN s.axes -> Number]
  BY RequestIsTyped DEF Answering, RequestKeepsLimits, KeepsLimits
<1>2. s.robot_verified /\ s.servos_verified /\ WorkspaceUsable(s.axes)
      /\ \A n \in DOMAIN s.joints : JointUsable(s.joints[n])
  BY DEF Accepted, ValidateAppSettings
<1>3. /\ e.allowed_states = s.motion_allowed /\ e.workspace.axes = s.axes
      /\ e.robot_verified = s.robot_verified /\ e.servos_verified = s.servos_verified
      /\ DOMAIN e.joints = DOMAIN s.joints
      /\ \A n \in DOMAIN s.joints :
           e.joints[n] = [min_deg |-> s.joints[n].min_deg,
                          neutral_deg |-> s.joints[n].neutral_deg,
                          max_deg |-> s.joints[n].max_deg,
                          verified |-> s.servos_verified
                            /\ Missing \notin {s.joints[n].min_deg, s.joints[n].neutral_deg,
                                               s.joints[n].max_deg}]
      /\ e.workspace.verified = (s.robot_verified
           /\ \A a \in DOMAIN s.axes : Missing \notin {s.axes[a].min, s.axes[a].max})
  BY <1>1 DEF BuildSafetyEnvelope
<1>4. /\ PolicyValid(p)
      /\ p.max_velocity_deg_s = m.max_velocity_deg_s
      /\ p.max_acceleration_deg_s2 = m.max_acceleration_deg_s2
      /\ p.command_ttl_ms = m.command_ttl_ms
      /\ p.heartbeat_timeout_ms = m.heartbeat_timeout_ms
  BY <1>1, PolicyOfFiles
<1>5. WorkspaceVerified(e.workspace)
  <2>1. \A a \in DOMAIN s.axes :
          {Missing, NonFinite} \cap {s.axes[a].min, s.axes[a].max} = {}
    BY <1>1 DEF KeepsLimits, Within
  <2>2. \A a \in DOMAIN s.axes : s.axes[a].min < s.axes[a].max
    BY <1>2, <2>1 DEF WorkspaceUsable, Finite
  <2> QED
    BY <1>2, <1>3, <2>1, <2>2 DEF WorkspaceVerified
<1>6. /\ c.workspace_point_mm # Missing
      /\ \A a \in DOMAIN c.workspace_point_mm : c.workspace_point_mm[a] # NonFinite
      /\ \A a \in DOMAIN e.workspace.axes :
            /\ e.workspace.axes[a].min <= c.workspace_point_mm[a]
            /\ c.workspace_point_mm[a] <= e.workspace.axes[a].max
  BY <1>1, <1>3 DEF KeepsLimits, Within
<1>7. ASSUME NEW n \in DOMAIN c.joint_targets_deg
      PROVE  /\ n \in DOMAIN e.joints \cap DOMAIN d.joint_velocities_deg_s
                                \cap DOMAIN d.joint_accelerations_deg_s2
             /\ Measured(e.joints[n])
             /\ Between(e.joints[n].min_deg, c.joint_targets_deg[n], e.joints[n].max_deg)
             /\ Between(-p.max_velocity_deg_s, d.joint_velocities_deg_s[n],
                        p.max_velocity_deg_s)
             /\ Between(-p.max_acceleration_deg_s2, d.joint_accelerations_deg_s2[n],
                        p.max_acceleration_deg_s2)
  <2>1. /\ n \in DOMAIN s.joints /\ n \in DOMAIN d.joint_velocities_deg_s
        /\ n \in DOMAIN d.joint_accelerations_deg_s2
        /\ Within(c.joint_targets_deg[n], s.joints[n].min_deg, s.joints[n].max_deg)
        /\ Within(d.joint_velocities_deg_s[n], -m.max_velocity_deg_s, m.max_velocity_deg_s)
        /\ Within(d.joint_accelerations_deg_s2[n], -m.max_acceleration_deg_s2,
                  m.max_acceleration_deg_s2)
    BY <1>1 DEF KeepsLimits
  <2>2. JointUsable(s.joints[n])
    BY <1>2, <2>1
  <2>3. /\ Measured(e.joints[n])
        /\ e.joints[n].min_deg = s.joints[n].min_deg
        /\ e.joints[n].max_deg = s.joints[n].max_deg
    <3> DEFINE q == e.joints[n]
               j == s.joints[n]
    <3>1. /\ {Missing, NonFinite} \cap {j.min_deg, j.neutral_deg, j.max_deg} = {}
          /\ j.min_deg < j.neutral_deg /\ j.neutral_deg < j.max_deg
      BY <2>2 DEF JointUsable
    <3>2. q = [min_deg |-> j.min_deg, neutral_deg |-> j.neutral_deg,
               max_deg |-> j.max_deg,
               verified |-> s.servos_verified
                 /\ Missing \notin {j.min_deg, j.neutral_deg, j.max_deg}]
      BY <1>3, <2>1
    <3> HIDE DEF q, j
    <3>3. /\ q.min_deg = j.min_deg /\ q.neutral_deg = j.neutral_deg
          /\ q.max_deg = j.max_deg /\ q.verified
      BY <1>2, <3>1, <3>2
    <3>4. Measured(q) /\ q.min_deg = j.min_deg /\ q.max_deg = j.max_deg
      BY <3>1, <3>3 DEF Measured
    <3> QED
      BY <3>4 DEF q, j
  <2>5. Between(e.joints[n].min_deg, c.joint_targets_deg[n], e.joints[n].max_deg)
    BY <2>1, <2>3 DEF Within, Between
  <2>6. /\ Between(-p.max_velocity_deg_s, d.joint_velocities_deg_s[n],
                   p.max_velocity_deg_s)
        /\ Between(-p.max_acceleration_deg_s2, d.joint_accelerations_deg_s2[n],
                   p.max_acceleration_deg_s2)
    BY <1>4, <2>1 DEF Within, Between
  <2> QED
    BY <1>3, <2>1, <2>3, <2>5, <2>6
<1>8. /\ Between(0, d.command_age_ms, p.command_ttl_ms)
      /\ Between(0, d.heartbeat_age_ms, p.heartbeat_timeout_ms)
  BY <1>1, <1>4 DEF KeepsLimits, Within, Between
<1>9. /\ ~c.estop_active /\ c.system_state \in e.allowed_states
      /\ e.servos_verified /\ e.robot_verified
      /\ DOMAIN c.joint_targets_deg # {}
      /\ DOMAIN d.joint_velocities_deg_s \subseteq DOMAIN e.joints
      /\ DOMAIN d.joint_accelerations_deg_s2 \subseteq DOMAIN e.joints
  BY <1>1, <1>2, <1>3 DEF KeepsLimits
<1> QED
  BY <1>4, <1>5, <1>6, <1>7, <1>8, <1>9 DEF SafeMotion

\* Accepted files give the joints they name ids that no two of them share.
LEMMA AcceptedIdsAreUnique ==
  ASSUME Accepted(config), DOMAIN config.joints # {}
  PROVE  \E ids \in GatewayIds(config) :
           /\ DOMAIN ids = DOMAIN config.joints
           /\ \A m, n \in DOMAIN config.joints :
                ids[m] \in 1 .. 255 /\ (ids[m] = ids[n] => m = n)
<1> DEFINE ids == [name \in DOMAIN config.joints |-> config.joints[name].protocol_id]
<1>1. \A name \in DOMAIN config.joints :
        config.joints[name].protocol_id \in {Missing} \cup 1 .. 255
  BY DEF Accepted, FieldsValid
<1>2. \A name \in DOMAIN config.joints :
        /\ config.joints[name].protocol_id # Missing
        /\ \A other \in DOMAIN config.joints :
             config.joints[other].protocol_id = config.joints[name].protocol_id
               => other = name
  BY DEF Accepted, ValidateAppSettings, IdsUsable
<1>3. /\ DOMAIN ids = DOMAIN config.joints
      /\ \A m, n \in DOMAIN config.joints :
           ids[m] \in 1 .. 255 /\ ids[m] # Missing /\ (ids[m] = ids[n] => m = n)
  BY <1>1, <1>2
<1>4. ids \in GatewayIds(config)
  BY <1>3 DEF GatewayIds
<1> QED
  BY <1>3, <1>4

LEMMA FilesGovern == ConfigurationInv => FilesGovernMotion
<1> SUFFICES ASSUME ConfigurationInv, Answered PROVE FilesGovernMotion
  BY DEF FilesGovernMotion, FailsClosed, AcceptedIsUsable, ApprovedCanBeSent
<1>1. /\ config \in AllSettings /\ Answering
      /\ loaded = "accepted" => Accepted(config)
      /\ verdict = AssessDynamicMotionEligibility(request.envelope, request.candidate,
                                                  request.dynamics)
  BY DEF Answered, ConfigurationInv, Answering
<1>2. verdict.decision = "APPROVE"
        <=> SafeMotion(request.envelope, request.candidate, request.dynamics)
  BY <1>1, RequestIsTyped, ApprovalIsSafety
<1>3. FailsClosed
  BY <1>1, <1>2, SafeIsWithinFiles DEF FailsClosed
<1>4. AcceptedIsUsable
  BY <1>1, <1>2, WithinFilesIsSafe DEF AcceptedIsUsable
<1>5. ApprovedCanBeSent
  <2> SUFFICES ASSUME loaded = "accepted", verdict.decision = "APPROVE"
               PROVE  \E ids \in GatewayIds(config) :
                        \A m, n \in DOMAIN request.candidate.joint_targets_deg :
                          ids[m] \in 1 .. 255 /\ (ids[m] = ids[n] => m = n)
    BY DEF ApprovedCanBeSent
  <2>1. KeepsLimits(config, request.candidate, request.dynamics)
    BY <1>1, <1>2, SafeIsWithinFiles DEF RequestKeepsLimits
  <2>2. /\ DOMAIN request.candidate.joint_targets_deg \subseteq DOMAIN config.joints
        /\ DOMAIN request.candidate.joint_targets_deg # {}
    BY <2>1 DEF KeepsLimits
  <2> QED
    BY <1>1, <2>2, AcceptedIdsAreUnique
<1> QED
  BY <1>3, <1>4, <1>5 DEF FilesGovernMotion

\* Whatever the files say, complete or not, validated or not, the limits of what is
\* approved are theirs; and what is accepted for real hardware can be used and sent.
THEOREM FilesGovernMotionAlways == ConfigurationSpec => []FilesGovernMotion
<1>1. ConfigurationInit => ConfigurationInv
  BY DEF ConfigurationInit, ConfigurationInv
<1> QED
  BY <1>1, ConfigurationNextInv, FilesGovern, PTL DEF ConfigurationSpec
===========================================================================
