---------------------------- MODULE HostProofs ----------------------------
(***************************************************************************)
(* Theorems about the host's smaller components: the safety supervisor,    *)
(* for every envelope and every set of candidates, which rests on the      *)
(* lemmas about the controller and on the theorem about the pure checks,   *)
(* reached by instantiation; the voice service; the gate and the guard of  *)
(* the single-servo test; the interaction; the joints of the digital twin; *)
(* the health monitor on its event bus; and the gesture classifier.        *)
(***************************************************************************)
EXTENDS HealthMonitor, GestureClassifier, MotionSafetySupervisor,
        SafetyLifecycleProofs, VoiceService, SingleServoHil, Interaction,
        DigitalTwin, FiniteSetTheorems, NaturalsInduction,
        WellFoundedInduction, TLAPS

---------------------------------------------------------------------------
(* The supervisor.                                                         *)

CP == INSTANCE ConfigurationProofs
        WITH Requests <- {}, request <- <<>>, verdict <- <<>>,
             Infinity <- 0, AllSettings <- {}, Motions <- {}, config <- <<>>, loaded <- <<>>

\* A change of the controller that keeps it consistent and that the sequence
\* number shows.
Follows(s, t) ==
  /\ Consistent(t)
  /\ t = s \/ t.sequence > s.sequence

LEMMA ReportsFollow ==
  ASSUME NEW s, Consistent(s), NEW cand \in Candidates, NEW dyn
  PROVE  /\ Follows(s, AfterReports(s, cand, dyn))
         /\ s.causes \subseteq AfterReports(s, cand, dyn).causes
<1> DEFINE p == AfterPhysicalEstop(s, cand.estop_active)
           h == AfterHeartbeatAge(p, dyn.heartbeat_age_ms)
<1>1. cand.estop_active \in BOOLEAN
  BY InputsAssumption
<1>2. /\ Consistent(p) /\ s.causes \subseteq p.causes
      /\ p = s \/ p.sequence > s.sequence
  BY <1>1, ConstantsAssumption, PhysicalEstopConsistent, MethodsAdvance
     DEF Advanced
<1>3. AfterReports(s, cand, dyn) = h
  BY DEF AfterReports
<1> HIDE DEF p
<1>4. /\ Consistent(h) /\ p.causes \subseteq h.causes
      /\ h = p \/ h.sequence > p.sequence
  BY <1>2, ConstantsAssumption, HeartbeatAgeConsistent, MethodsAdvance
     DEF Advanced
<1> HIDE DEF h
<1>5. s.sequence \in Nat /\ p.sequence \in Nat /\ h.sequence \in Nat
  BY <1>2, <1>4 DEF Consistent, Snapshots
<1> QED
  BY <1>2, <1>3, <1>4, <1>5 DEF Follows

\* Whatever is called, the controller stays consistent and its number moves on.
LEMMA ControllerFollows ==
  ASSUME Consistent(snapshot), LifecycleNext
  PROVE  Follows(snapshot, snapshot')
<1>1. Consistent(snapshot')
  BY NextConsistent
<1>2. Advanced(snapshot, snapshot')
  BY MethodsAdvance
     DEF LifecycleNext, ArmWatchdog, DisarmWatchdog, ObserveHeartbeatAge,
         SetPhysicalEstop, TriggerSoftwareEstop, RequestManualReset, Becomes
<1> QED
  BY <1>1, <1>2 DEF Follows, Advanced

\* Only a granted reset makes the controller forget.
LEMMA ControllerForgets ==
  ASSUME Consistent(snapshot), LifecycleNext
  PROVE  snapshot.causes \subseteq snapshot'.causes \/ GrantedReset
<1>1. CASE ArmWatchdog
  BY <1>1, ArmConsistent DEF ArmWatchdog, Becomes
<1>2. CASE DisarmWatchdog
  BY <1>2, DisarmConsistent DEF DisarmWatchdog, Becomes
<1>3. ASSUME NEW age \in Ages, ObserveHeartbeatAge(age)
      PROVE  snapshot.causes \subseteq snapshot'.causes
  BY <1>3, HeartbeatAgeConsistent DEF ObserveHeartbeatAge, Becomes
<1>4. ASSUME NEW active \in BOOLEAN, SetPhysicalEstop(active)
      PROVE  snapshot.causes \subseteq snapshot'.causes
  BY <1>4, PhysicalEstopConsistent DEF SetPhysicalEstop, Becomes
<1>5. CASE TriggerSoftwareEstop
  BY <1>5, LatchedConsistent
     DEF TriggerSoftwareEstop, AfterSoftwareEstop, Becomes, Causes
<1>6. CASE RequestManualReset
  BY <1>6 DEF RequestManualReset, Becomes, GrantedReset, AfterManualReset
<1> QED
  BY <1>1, <1>2, <1>3, <1>4, <1>5, <1>6 DEF LifecycleNext

\* Every stop that an evaluation is shown is a cause once the reports are in.
LEMMA ReportsLatch ==
  ASSUME NEW s, Consistent(s), NEW cand \in Candidates, NEW dyn
  PROVE  ReportedStops(s, cand, dyn) \subseteq AfterReports(s, cand, dyn).causes
<1> DEFINE p == AfterPhysicalEstop(s, cand.estop_active)
           age == dyn.heartbeat_age_ms
           h == AfterHeartbeatAge(p, age)
<1>1. cand.estop_active \in BOOLEAN
  BY InputsAssumption
<1>2. Consistent(p)
  BY <1>1, PhysicalEstopConsistent
<1>3. cand.estop_active => "HARDWARE_ESTOP" \in p.causes
  BY DEF Consistent, Snapshots, AfterPhysicalEstop, Latched, Commit
<1>4. p.watchdog_armed = s.watchdog_armed
  BY DEF Consistent, Snapshots, AfterPhysicalEstop, Latched, Commit
<1>5. h = AfterReports(s, cand, dyn)
  BY DEF AfterReports
<1> HIDE DEF p
<1>6. p.causes \subseteq h.causes
  BY <1>2, HeartbeatAgeConsistent
<1>7. ASSUME p.watchdog_armed, ~AgeFresh(age)
      PROVE  (IF AgeInvalid(age) THEN "WATCHDOG_INVALID" ELSE "WATCHDOG_TIMEOUT")
               \in h.causes
  BY <1>2, <1>7 DEF AfterHeartbeatAge, Latched, Commit, Consistent, Snapshots
<1> HIDE DEF h
<1>8. ReportedStops(s, cand, dyn)
        \subseteq (IF cand.estop_active THEN {"HARDWARE_ESTOP"} ELSE {})
                  \cup (IF p.watchdog_armed /\ ~AgeFresh(age)
                        THEN {IF AgeInvalid(age) THEN "WATCHDOG_INVALID"
                                                 ELSE "WATCHDOG_TIMEOUT"}
                        ELSE {})
  BY <1>4 DEF ReportedStops, AgeFresh
<1> QED
  BY <1>3, <1>5, <1>6, <1>7, <1>8

\* An approval means that the controller, with the reports in, permits motion
\* and that the motion is safe.
LEMMA ApprovalMeans ==
  ASSUME NEW s, NEW cand, NEW dyn \in AllDynamics,
         EvaluationVerdict(s, cand, dyn).decision = "APPROVE"
  PROVE  ~MotionBlocked(s) /\ ME!SafeMotion(Envelope, cand, dyn)
<1>1. LifecycleVerdict(s).decision # "APPROVE"
  BY DEF LifecycleVerdict
<1>2. /\ ~MotionBlocked(s)
      /\ ME!AssessDynamicMotionEligibility(Envelope, cand, dyn).decision = "APPROVE"
  BY <1>1 DEF EvaluationVerdict
<1>3. /\ ME!AssessDynamicMotionEligibility(Envelope, cand, dyn)
           = CP!AssessDynamicMotionEligibility(Envelope, cand, dyn)
      /\ ME!SafeMotion(Envelope, cand, dyn) = CP!SafeMotion(Envelope, cand, dyn)
      /\ ME!WellTyped(Envelope, dyn) = CP!WellTyped(Envelope, dyn)
  BY DEF ME!AssessDynamicMotionEligibility, CP!AssessDynamicMotionEligibility,
         ME!AssessMotionEligibility, CP!AssessMotionEligibility,
         ME!StaticViolations, CP!StaticViolations,
         ME!JointViolations, CP!JointViolations,
         ME!JointViolation, CP!JointViolation,
         ME!JointVerified, CP!JointVerified, ME!JointContains, CP!JointContains,
         ME!WorkspaceViolations, CP!WorkspaceViolations,
         ME!WorkspaceVerified, CP!WorkspaceVerified,
         ME!WorkspaceContains, CP!WorkspaceContains,
         ME!PointFinite, CP!PointFinite, ME!Finite, CP!Finite,
         ME!PolicyValid, CP!PolicyValid, ME!Verdict, CP!Verdict,
         ME!DynamicViolations, CP!DynamicViolations,
         ME!AgeViolations, CP!AgeViolations,
         ME!SampleViolations, CP!SampleViolations,
         ME!Magnitude, CP!Magnitude, ME!SafeMotion, CP!SafeMotion,
         ME!Between, CP!Between, ME!Measured, CP!Measured,
         ME!WellTyped, CP!WellTyped, ME!Number, CP!Number
<1>4. CP!WellTyped(Envelope, dyn)
  BY <1>3, InputsAssumption
<1>5. CP!NotNumbersAssumption /\ CP!RequestsAssumption /\ CP!ConfigurationAssumption
  BY ConstantsAssumption
     DEF CP!NotNumbersAssumption, CP!RequestsAssumption, CP!ConfigurationAssumption
<1>6. CP!AssessDynamicMotionEligibility(Envelope, cand, dyn).decision = "APPROVE"
        <=> CP!SafeMotion(Envelope, cand, dyn)
  BY <1>4, <1>5, CP!ApprovalIsSafety
<1> QED
  BY <1>2, <1>3, <1>6

---------------------------------------------------------------------------
(* The inductive invariant: the controller is consistent, every            *)
(* authorization carries a number that was the controller's while motion   *)
(* was permitted and has not been reused since, and every stop shown since *)
(* the last granted reset is a cause.                                      *)
Inv ==
  /\ Consistent(snapshot)
  /\ \A a \in minted : a.lifecycle_sequence \in Nat
  /\ CurrentAuthorizationIsPermitted
  /\ shown \subseteq snapshot.causes

LEMMA InvInit ==
  ASSUME Init
  PROVE  Inv
<1>1. snapshot = InitialSnapshot /\ minted = {} /\ shown = {}
  BY DEF Init, LifecycleInit
<1> QED
  BY <1>1, ConstantsAssumption, InitConsistent
     DEF Inv, CurrentAuthorizationIsPermitted

LEMMA InvNext ==
  ASSUME Inv, [Next]_vars
  PROVE  Inv'
<1>1. ASSUME Follows(snapshot, snapshot')
      PROVE  /\ Consistent(snapshot')
             /\ \A a \in minted :
                  /\ a.lifecycle_sequence \in Nat
                  /\ a.lifecycle_sequence <= snapshot'.sequence
                  /\ a.lifecycle_sequence = snapshot'.sequence
                       => ~MotionBlocked(snapshot')
  <2>1. snapshot.sequence \in Nat /\ snapshot'.sequence \in Nat
    BY <1>1 DEF Inv, Follows, Consistent, Snapshots
  <2> QED
    BY <1>1, <2>1 DEF Inv, Follows, CurrentAuthorizationIsPermitted
<1>2. CASE CallController
  <2>1. Follows(snapshot, snapshot') /\ minted' = minted
    BY <1>2, ControllerFollows DEF Inv, CallController
  <2>2. shown' \subseteq snapshot'.causes
    BY <1>2, ControllerForgets DEF Inv, CallController
  <2> QED
    BY <2>1, <2>2, <1>1 DEF Inv, CurrentAuthorizationIsPermitted, MotionBlocked
<1>3. ASSUME NEW cand \in Candidates, NEW dyn \in AllDynamics, Evaluate(cand, dyn)
      PROVE  Inv'
  <2> DEFINE s == AfterReports(snapshot, cand, dyn)
  <2>1. snapshot' = s
    BY <1>3 DEF Evaluate, Becomes
  <2>2. Follows(snapshot, snapshot')
    BY <2>1, ReportsFollow DEF Inv
  <2>3. \/ minted' = minted
        \/ /\ minted' = minted \cup {MintedFor(s, cand)}
           /\ EvaluationVerdict(s, cand, dyn).decision = "APPROVE"
    BY <1>3 DEF Evaluate
  <2>4. shown' \subseteq snapshot'.causes
    BY <1>3, <2>1, ReportsFollow, ReportsLatch DEF Inv, Evaluate
  <2>5. CASE minted' = minted
    BY <2>5, <2>2, <2>4, <1>1 DEF Inv, CurrentAuthorizationIsPermitted, MotionBlocked
  <2>6. CASE /\ minted' = minted \cup {MintedFor(s, cand)}
             /\ EvaluationVerdict(s, cand, dyn).decision = "APPROVE"
    <3> HIDE DEF s
    <3>1. ~MotionBlocked(snapshot')
      BY <2>1, <2>6, ApprovalMeans
    <3>2. /\ MintedFor(s, cand).lifecycle_sequence = snapshot'.sequence
          /\ snapshot'.sequence \in Nat
      BY <2>1, <2>2 DEF MintedFor, Follows, Consistent, Snapshots
    <3>3. Consistent(snapshot')
      BY <2>2 DEF Follows
    <3>4. \A a \in minted :
             /\ a.lifecycle_sequence \in Nat
             /\ a.lifecycle_sequence <= snapshot'.sequence
      BY <2>2, <2>6, <1>1
    <3> QED
      BY <2>6, <2>4, <3>1, <3>2, <3>3, <3>4
         DEF Inv, CurrentAuthorizationIsPermitted, MotionBlocked
  <2> QED
    BY <2>3, <2>5, <2>6
<1>4. CASE UNCHANGED vars
  BY <1>4 DEF vars, Inv, CurrentAuthorizationIsPermitted, MotionBlocked
<1> QED
  BY <1>2, <1>3, <1>4 DEF Next

LEMMA InvAlways == Spec => []Inv
<1>1. Init => Inv
  BY InvInit
<1>2. Inv /\ [Next]_vars => Inv'
  BY InvNext
<1> QED
  BY <1>1, <1>2, PTL DEF Spec

\* The sequence number an authorization carries is a sound freshness mark,
\* whatever calls of the supervisor happen between minting and looking.
THEOREM FreshnessMarkIsSound == Spec => []CurrentAuthorizationIsPermitted
<1>1. Inv => CurrentAuthorizationIsPermitted
  BY DEF Inv
<1> QED
  BY <1>1, InvAlways, PTL

\* Nothing but a safe motion is ever authorized, for every envelope, and never
\* in the step that would have lifted a stop.
THEOREM OnlySafeMotionIsApproved == Spec => ApprovedMotionIsSafe
<1>1. ASSUME Inv, [Next]_vars, minted' # minted
      PROVE  /\ ME!SafeMotion(Envelope, last'.candidate, last'.dynamics)
             /\ ~MotionBlocked(snapshot')
             /\ snapshot.causes = {} /\ snapshot.watchdog_armed
  <2>1. PICK cand \in Candidates, dyn \in AllDynamics : Evaluate(cand, dyn)
    BY <1>1 DEF Next, CallController, vars
  <2> DEFINE s == AfterReports(snapshot, cand, dyn)
  <2>2. /\ snapshot' = s
        /\ EvaluationVerdict(s, cand, dyn).decision = "APPROVE"
        /\ last'.candidate = cand /\ last'.dynamics = dyn
    BY <1>1, <2>1 DEF Evaluate, Becomes
  <2>3. ~MotionBlocked(s) /\ ME!SafeMotion(Envelope, cand, dyn)
    BY <2>2, ApprovalMeans
  <2>4. Consistent(s) /\ snapshot.causes \subseteq s.causes
    BY <1>1, ReportsFollow DEF Inv, Follows
  <2>5. s.watchdog_armed = snapshot.watchdog_armed
    BY <1>1
       DEF Inv, Consistent, Snapshots, AfterReports, AfterPhysicalEstop,
           AfterHeartbeatAge, Latched, Commit
  <2> HIDE DEF s
  <2>6. s.causes = {} /\ s.watchdog_armed
    BY <2>3, <2>4 DEF MotionBlocked, Consistent, Explained
  <2> QED
    BY <2>2, <2>3, <2>4, <2>5, <2>6 DEF MotionBlocked
<1> QED
  BY <1>1, InvAlways, PTL DEF Spec, ApprovedMotionIsSafe

---------------------------------------------------------------------------
(* The controller in the supervisor's hands.  An evaluation makes two calls *)
(* of it in one step.                                                      *)

LEMMA SupervisorKeepsOrResets ==
  ASSUME Inv, Next
  PROVE  KeepsOrResets
<1>1. ASSUME NEW cand \in Candidates, NEW dyn \in AllDynamics, Evaluate(cand, dyn)
      PROVE  KeepsOrResets
  BY <1>1, ReportsFollow DEF Inv, Evaluate, Becomes, KeepsOrResets
<1>2. CASE CallController
  BY <1>2, StepKeepsCauses DEF Inv, CallController
<1> QED
  BY <1>1, <1>2 DEF Next

\* Type correctness of the supervisor with its controller.
THEOREM SupervisorTypeCorrect == Spec => []TypeOK
<1> DEFINE Decided == last.decision \in Decisions
<1>1. Inv /\ Decided => TypeOK
  BY DEF Inv, Consistent, Snapshots, TypeOK
<1>2. Init => Decided
  BY DEF Init, NoEvaluation, Decisions
<1>3. Decided /\ [Next]_vars => Decided'
  <2>1. ASSUME NEW cand \in Candidates, NEW dyn \in AllDynamics, Evaluate(cand, dyn)
        PROVE  Decided'
    <3>1. \A s : EvaluationVerdict(s, cand, dyn).decision \in Decisions
      BY DEF EvaluationVerdict, LifecycleVerdict, Decisions,
             ME!AssessDynamicMotionEligibility, ME!AssessMotionEligibility, ME!Verdict
    <3> QED
      BY <2>1, <3>1 DEF Evaluate
  <2> QED
    BY <2>1 DEF Next, CallController, vars
<1> QED
  BY <1>1, <1>2, <1>3, InvAlways, PTL DEF Spec

\* Flags, causes and reason agree through every evaluation, too.
THEOREM SupervisorLatchIsExplained == Spec => []LatchIsExplained
<1>1. Inv => LatchIsExplained
  BY DEF Inv, Consistent, Explained, LatchIsExplained
<1> QED
  BY <1>1, InvAlways, PTL

\* No evaluation forgets a cause.
THEOREM SupervisorKeepsCauses == Spec => CausesForgottenOnlyByReset
<1>1. Inv /\ [Next]_vars
        => [~(snapshot.causes \subseteq snapshot'.causes)
              => /\ ResetDenials(snapshot) = {}
                 /\ snapshot'.causes = {}
                 /\ ~MotionBlocked(snapshot')]_snapshot
  BY SupervisorKeepsOrResets DEF KeepsOrResets, vars
<1> QED
  BY <1>1, InvAlways, PTL DEF Spec, CausesForgottenOnlyByReset

\* The supervisor as a whole is an emergency stop: the two reports of an
\* evaluation amount to one of its steps.
THEOREM SupervisorImplementsEmergencyStop == Spec => ImplementsEmergencyStop
<1>1. Init => ES!Init
  BY DEF Init, LifecycleInit, InitialSnapshot, ES!Init, Mode, MotionBlocked
<1>2. Inv /\ Inv' /\ [Next]_vars
        => [ES!Next]_<<Mode, snapshot.physical_estop_active>>
  <2>1. UNCHANGED vars => UNCHANGED <<Mode, snapshot.physical_estop_active>>
    BY DEF vars, Mode, MotionBlocked
  <2> QED
    BY <2>1, SupervisorKeepsOrResets, StepImplements DEF Inv
<1> QED
  BY <1>1, <1>2, InvAlways, PTL DEF Spec, ImplementsEmergencyStop, ES!Spec

---------------------------------------------------------------------------
(* The two layers.  Once the reports are in and the controller still       *)
(* permits motion, the checks have no stop left to find.                   *)

StopCodes == {"ESTOP_ACTIVE", "HEARTBEAT_STALE", "HEARTBEAT_AGE_INVALID"}

LEMMA StaticCodes ==
  ASSUME NEW env, NEW cand
  PROVE  ME!StaticViolations(env, cand) \cap StopCodes = {}
<1>1. \A n, t : ME!JointViolation(env, n, t) \cap StopCodes = {}
  BY DEF ME!JointViolation, StopCodes
<1>2. \A targets : ME!JointViolations(env, targets) \cap StopCodes = {}
  BY <1>1 DEF ME!JointViolations, StopCodes
<1>3. \A point : ME!WorkspaceViolations(env, point) \cap StopCodes = {}
  BY DEF ME!WorkspaceViolations, StopCodes
<1>4. {"STATE_NOT_ALLOWED", "EMPTY_JOINT_TARGETS"} \cap StopCodes = {}
  BY DEF StopCodes
<1> QED
  BY <1>2, <1>3, <1>4 DEF ME!StaticViolations

LEMMA SampleCodes ==
  ASSUME NEW samples, NEW targets, NEW limit, NEW missing, NEW exceeded,
         missing \notin StopCodes, exceeded \notin StopCodes
  PROVE  ME!SampleViolations(samples, targets, limit, missing, exceeded)
           \cap StopCodes = {}
  BY DEF ME!SampleViolations, StopCodes

\* With a fresh heartbeat the dynamic checks name no stop.
LEMMA DynamicCodes ==
  ASSUME NEW cand, NEW dyn \in AllDynamics, AgeFresh(dyn.heartbeat_age_ms),
         Envelope.motion_policy # Missing
  PROVE  ME!DynamicViolations(Envelope, cand, dyn) \cap StopCodes = {}
<1> DEFINE policy == Envelope.motion_policy
           age == dyn.heartbeat_age_ms
<1>1. age \in Int \cup {NonFinite} /\ policy.heartbeat_timeout_ms = HeartbeatTimeout
  BY InputsAssumption, SameTimeoutAssumption DEF ME!WellTyped, ME!Number
<1>2. age \in Int /\ ~(age < 0) /\ ~(age > HeartbeatTimeout)
  BY <1>1 DEF AgeFresh, AgeInvalid, AgeStale
<1>3. ME!AgeViolations(age, policy.heartbeat_timeout_ms,
                       "HEARTBEAT_AGE_INVALID", "HEARTBEAT_STALE") = {}
  BY <1>1, <1>2, ConstantsAssumption DEF ME!AgeViolations, ME!Finite
<1>4. ME!AgeViolations(dyn.command_age_ms, policy.command_ttl_ms,
                       "COMMAND_AGE_INVALID", "COMMAND_STALE")
        \cap StopCodes = {}
  BY DEF ME!AgeViolations, StopCodes
<1>5. /\ ME!SampleViolations(dyn.joint_velocities_deg_s, cand.joint_targets_deg,
                             policy.max_velocity_deg_s,
                             "VELOCITY_SAMPLE_MISSING", "VELOCITY_LIMIT_VIOLATION")
           \cap StopCodes = {}
      /\ ME!SampleViolations(dyn.joint_accelerations_deg_s2,
                             cand.joint_targets_deg,
                             policy.max_acceleration_deg_s2,
                             "ACCELERATION_SAMPLE_MISSING",
                             "ACCELERATION_LIMIT_VIOLATION")
           \cap StopCodes = {}
  BY SampleCodes DEF StopCodes
<1>6. {"DYNAMIC_SAMPLE_UNKNOWN_JOINT"} \cap StopCodes = {}
  BY DEF StopCodes
<1> QED
  BY <1>3, <1>4, <1>5, <1>6 DEF ME!DynamicViolations

\* A controller that permits motion after both reports was told of a released
\* button and a fresh heartbeat.
LEMMA PermittedMeansReported ==
  ASSUME NEW s, Consistent(s), NEW cand \in Candidates, NEW dyn,
         ~MotionBlocked(AfterReports(s, cand, dyn))
  PROVE  ~cand.estop_active /\ AgeFresh(dyn.heartbeat_age_ms)
<1> DEFINE p == AfterPhysicalEstop(s, cand.estop_active)
           h == AfterHeartbeatAge(p, dyn.heartbeat_age_ms)
<1>1. /\ ~h.estop_latched /\ h.watchdog_armed
      /\ h = AfterReports(s, cand, dyn)
  BY DEF AfterReports, MotionBlocked
<1>2. Consistent(p)
  BY InputsAssumption, PhysicalEstopConsistent
<1>3. cand.estop_active => p.estop_latched
  BY DEF Consistent, Snapshots, AfterPhysicalEstop, Latched, Commit
<1> HIDE DEF p
<1>4. Consistent(h) /\ p.causes \subseteq h.causes
  BY <1>2, HeartbeatAgeConsistent
<1>5. ~p.estop_latched
  BY <1>1, <1>2, <1>4 DEF Consistent, Explained
<1>6. p.watchdog_armed /\ ~AgeFresh(dyn.heartbeat_age_ms) => h.estop_latched
  BY <1>2 DEF AfterHeartbeatAge, Latched, Commit, Consistent, Snapshots
<1>7. ~p.watchdog_armed => ~h.watchdog_armed
  BY DEF AfterHeartbeatAge
<1> QED
  BY <1>1, <1>3, <1>5, <1>6, <1>7

\* A stop that an evaluation was shown is answered by ESTOP and holds the latch
\* under its own cause until a reset is granted, for every envelope and whatever
\* candidates and calls follow; no rejection ever names it.
THEOREM StopsShownStayLatched == Spec => []StopsAlwaysLatch
<1> DEFINE Answered ==
             /\ last.stops # {} => last.decision = "ESTOP"
             /\ last.violations \cap StopCodes = {}
<1>1. Init => Answered
  BY DEF Init, NoEvaluation
<1>2. Inv /\ Answered /\ [Next]_vars => Answered'
  <2> SUFFICES ASSUME Inv, Answered, [Next]_vars PROVE Answered'
    OBVIOUS
  <2>1. ASSUME NEW cand \in Candidates, NEW dyn \in AllDynamics, Evaluate(cand, dyn)
        PROVE  Answered'
    <3> DEFINE s == AfterReports(snapshot, cand, dyn)
               v == EvaluationVerdict(s, cand, dyn)
    <3>1. /\ last'.violations = v.violations /\ last'.decision = v.decision
          /\ last'.stops = ReportedStops(snapshot, cand, dyn)
      BY <2>1 DEF Evaluate
    <3>2. last'.stops # {} => s.estop_latched
      BY <3>1, ReportsFollow, ReportsLatch DEF Inv, Follows, Consistent, Explained
    <3>3. s.estop_latched
            => v = [decision |-> "ESTOP", violations |-> {"LIFECYCLE_ESTOP_LATCHED"}]
      BY DEF EvaluationVerdict, LifecycleVerdict, MotionBlocked
    <3>4. CASE MotionBlocked(s)
      <4>1. v = LifecycleVerdict(s)
        BY <3>4 DEF EvaluationVerdict
      <4>2. LifecycleVerdict(s).violations \cap StopCodes = {}
        BY DEF LifecycleVerdict, StopCodes
      <4> HIDE DEF v, s
      <4> QED
        BY <3>1, <3>2, <3>3, <4>1, <4>2
    <3>5. CASE ~MotionBlocked(s)
      <4>1. ~cand.estop_active /\ AgeFresh(dyn.heartbeat_age_ms)
        BY <3>5, PermittedMeansReported DEF Inv
      <4>2. v = ME!AssessDynamicMotionEligibility(Envelope, cand, dyn)
        BY <3>5 DEF EvaluationVerdict
      <4>3. \/ v.violations = ME!StaticViolations(Envelope, cand)
            \/ v.violations = {"MOTION_POLICY_UNAVAILABLE"}
            \/ /\ ME!PolicyValid(Envelope.motion_policy)
               /\ v.violations = ME!DynamicViolations(Envelope, cand, dyn)
        BY <4>1, <4>2
           DEF ME!AssessDynamicMotionEligibility, ME!AssessMotionEligibility,
               ME!Verdict
      <4>4. v.violations \cap StopCodes = {}
        <5>1. {"MOTION_POLICY_UNAVAILABLE"} \cap StopCodes = {}
          BY DEF StopCodes
        <5> HIDE DEF v
        <5> QED
          BY <4>1, <4>3, <5>1, StaticCodes, DynamicCodes DEF ME!PolicyValid
      <4> QED
        <5> HIDE DEF v, s
        <5> QED
          BY <3>1, <3>2, <3>3, <4>4
    <3> QED
      BY <3>4, <3>5
  <2>2. CASE CallController \/ UNCHANGED vars
    BY <2>2 DEF CallController, vars
  <2> QED
    BY <2>1, <2>2 DEF Next
<1>3. Inv /\ Answered => StopsAlwaysLatch
  BY DEF Inv, Consistent, Explained, StopsAlwaysLatch, StopCodes
<1> QED
  BY <1>1, <1>2, <1>3, InvAlways, PTL DEF Spec

---------------------------------------------------------------------------
(* The voice service.                                                      *)

VoiceTyped ==
  /\ voice \in [barge_in : BOOLEAN, state : {"IDLE", "SPEAKING", "FAILED"},
                transcript : Texts \cup {"none"}, speech : Nat]
  /\ plans \in [begun : Nat, completed : SUBSET Nat, interrupted : SUBSET Nat]

VoiceInv == VoiceTyped /\ SpeechesAreAccounted

\* What is spoken is cut off: it has ended, and as interrupted only.
LEMMA InterruptAccounts ==
  ASSUME VoiceInv
  PROVE  /\ Ended \in SUBSET Nat
         /\ plans.completed \cap Ended = {}
         /\ 1 .. plans.begun = plans.completed \cup Ended
         /\ Interrupted(voice).speech = NoSpeech
         /\ NoSpeech \notin plans.completed \cup Ended
<1>1. NoSpeech \notin 1 .. plans.begun
  BY DEF NoSpeech
<1> QED
  BY <1>1 DEF VoiceInv, VoiceTyped, SpeechesAreAccounted, Ended, Interrupted

LEMMA VoiceNextInv == VoiceInv /\ [VoiceNext]_voices => VoiceInv'
<1> SUFFICES ASSUME VoiceInv, [VoiceNext]_voices PROVE VoiceInv'
  OBVIOUS
<1> USE DEF Texts, NoSpeech
<1>1. CASE Interrupt
  BY <1>1, InterruptAccounts
     DEF Interrupt, VoiceInv, VoiceTyped, SpeechesAreAccounted, Interrupted
<1>2. ASSUME NEW text \in Texts, NEW confident \in BOOLEAN, Recognize(text, confident)
      PROVE  VoiceInv'
  <2>1. CASE voice.state = "SPEAKING"
    BY <1>2, <2>1, InterruptAccounts
       DEF Recognize, VoiceInv, VoiceTyped, SpeechesAreAccounted, Interrupted
  <2>2. CASE voice.state # "SPEAKING"
    BY <1>2, <2>2 DEF Recognize, VoiceInv, VoiceTyped, SpeechesAreAccounted
  <2> QED
    BY <2>1, <2>2
<1>3. ASSUME NEW text \in Texts, Speak(text)
      PROVE  VoiceInv'
  <2>1. voice.speech = 0 /\ plans.begun \in Nat
    BY <1>3 DEF Speak, VoiceInv, VoiceTyped, SpeechesAreAccounted
  <2>2. CASE text = "words"
    <3>1. 1 .. plans.begun + 1 = (1 .. plans.begun) \cup {plans.begun + 1}
      BY <2>1
    <3>2. plans.begun + 1 \notin 1 .. plans.begun /\ plans.begun + 1 # 0
      BY <2>1
    <3> DEFINE next == plans.begun + 1
    <3>6. next \in Nat
      BY <2>1
    <3>7. /\ voice' = [voice EXCEPT !.state = "SPEAKING", !.speech = next]
          /\ plans' = [plans EXCEPT !.begun = next]
      BY <1>3, <2>2 DEF Speak
    <3> HIDE DEF next
    <3>3. /\ voice'.state = "SPEAKING" /\ voice'.speech = next
          /\ plans'.begun = next
          /\ plans'.completed = plans.completed /\ plans'.interrupted = plans.interrupted
          /\ VoiceTyped'
      BY <3>6, <3>7 DEF VoiceInv, VoiceTyped
    <3>4. 1 .. plans.begun = plans.completed \cup plans.interrupted
      BY <2>1 DEF VoiceInv, SpeechesAreAccounted
    <3>5. plans.completed \cap plans.interrupted = {}
      BY DEF VoiceInv, SpeechesAreAccounted
    <3> QED
      BY <3>1, <3>2, <3>3, <3>4, <3>5 DEF next, VoiceInv, SpeechesAreAccounted
  <2>3. CASE text # "words"
    BY <1>3, <2>1, <2>3 DEF Speak, VoiceInv, VoiceTyped, SpeechesAreAccounted
  <2> QED
    BY <2>2, <2>3
<1>4. CASE Complete
  <2>1. /\ voice'.state = "IDLE" /\ voice'.speech = 0
        /\ plans'.begun = plans.begun /\ plans'.interrupted = plans.interrupted
        /\ plans'.completed = plans.completed \cup {voice.speech}
        /\ VoiceTyped'
    BY <1>4 DEF Complete, VoiceInv, VoiceTyped
  <2>2. /\ voice.speech # 0 /\ 0 \notin 1 .. plans.begun
        /\ 1 .. plans.begun = plans.completed \cup plans.interrupted \cup {voice.speech}
        /\ plans.completed \cap plans.interrupted = {}
        /\ voice.speech \notin plans.completed \cup plans.interrupted
    BY <1>4 DEF Complete, VoiceInv, SpeechesAreAccounted
  <2> QED
    BY <2>1, <2>2 DEF VoiceInv, SpeechesAreAccounted
<1>5. CASE UNCHANGED voices
  BY <1>5 DEF voices, VoiceInv, VoiceTyped, SpeechesAreAccounted
<1> QED
  BY <1>1, <1>2, <1>3, <1>4, <1>5 DEF VoiceNext

\* No speech is lost, ends twice or is forgotten while it is active, for every
\* sequence of calls and of failures.
THEOREM SpeechesAreAccountedAlways == VoiceSpec => []SpeechesAreAccounted
<1>1. VoiceInit => VoiceInv
  BY DEF VoiceInit, VoiceInv, VoiceTyped, SpeechesAreAccounted, Texts, NoSpeech
<1>2. VoiceInv => SpeechesAreAccounted
  BY DEF VoiceInv
<1> QED
  BY <1>1, <1>2, VoiceNextInv, PTL DEF VoiceSpec

---------------------------------------------------------------------------
(* The guard.                                                              *)

GuardTyped ==
  /\ guard \in [configured : BOOLEAN, armed : BOOLEAN, latched : BOOLEAN,
                calibration : Calibrations \cup {Absent}]
  /\ given \in [offered : Calibrations \cup {Absent}, owed : SUBSET {"arm", "reset"}]

\* A guard without its latch is owed no reset, and an armed one nothing.
NothingOwed ==
  /\ guard.configured =>
       /\ given.offered # Absent /\ guard.calibration = given.offered
       /\ ~guard.latched => "reset" \notin given.owed
  /\ guard.armed => guard.configured /\ ~guard.latched /\ given.owed = {}

GuardInv == GuardTyped /\ GuardAgreesWithHost /\ NothingOwed

\* The guard's checks, in its types and with the span cast to an unsigned one,
\* accept what the host's do.
LEMMA SameCalibrations ==
  ASSUME NEW c \in Calibrations
  PROVE  ValidHilCalibration(c) <=> CalibrationValid(c)
<1>1. /\ c.lower \in Int /\ c.neutral \in Int /\ c.upper \in Int
      /\ c.test_lower \in Int /\ c.test_upper \in Int
      /\ c.lower_pulse \in Nat /\ c.neutral_pulse \in Nat /\ c.upper_pulse \in Nat
      /\ c.max_step \in Nat /\ c.protocol_id \in 0 .. 255
      /\ c.test_upper - c.test_lower < AngleWidth
  BY CalibrationsAssumption
<1>2. ASSUME c.test_lower < c.test_upper
      PROVE  (c.test_upper - c.test_lower) % AngleWidth = c.test_upper - c.test_lower
  <2>1. /\ AngleWidth \in Nat \ {0} /\ c.test_upper - c.test_lower \in Nat
        /\ c.test_upper - c.test_lower < AngleWidth
    BY <1>1, <1>2, HilAssumption
  <2> QED
    BY <2>1
<1>3. c.test_lower < c.test_upper
        => (StepFits(c) <=> c.max_step <= c.test_upper - c.test_lower)
  BY <1>2 DEF StepFits
<1>4. /\ c.protocol_id # 0 <=> c.protocol_id \in 1 .. 255
      /\ c.max_step # 0 <=> c.max_step > 0
      /\ 0 \notin {c.lower_pulse, c.neutral_pulse, c.upper_pulse}
           <=> c.lower_pulse > 0 /\ c.neutral_pulse > 0 /\ c.upper_pulse > 0
  BY <1>1
<1> QED
  BY <1>3, <1>4 DEF ValidHilCalibration, CalibrationValid

LEMMA GuardNextInv == GuardInv /\ GuardStep => GuardInv'
<1> SUFFICES ASSUME GuardInv, GuardStep PROVE GuardInv'
  OBVIOUS
<1> USE DEF GuardInv, GuardTyped, GuardAgreesWithHost, NothingOwed
<1>1. ASSUME NEW c \in Calibrations, Configure(c)
      PROVE  GuardInv'
  <2>1. c # Absent /\ (ValidHilCalibration(c) <=> CalibrationValid(c))
    BY SameCalibrations, CalibrationsAssumption
  <2> QED
    BY <1>1, <2>1 DEF Configure, Configured
<1>2. ASSUME NEW verified \in SUBSET (1 .. 4), Arm(verified)
      PROVE  GuardInv'
  <2>1. /\ given'.offered = given.offered
        /\ guard'.configured = guard.configured /\ guard'.latched = guard.latched
        /\ guard'.calibration = guard.calibration
        /\ guard'.armed = (guard.configured /\ ~guard.latched /\ verified = 1 .. 4)
        /\ GuardTyped'
    BY <1>2 DEF Arm
  <2>2. CASE verified = 1 .. 4
    <3>1. given'.owed = given.owed \ {"arm"}
      BY <1>2, <2>2 DEF Arm
    <3> QED
      BY <2>1, <3>1
  <2>3. CASE verified # 1 .. 4
    <3>1. given'.owed = given.owed \cup {"arm"}
      BY <1>2, <2>3 DEF Arm
    <3>2. ~guard'.armed
      BY <2>1, <2>3
    <3> QED
      BY <2>1, <3>1, <3>2
  <2> QED
    BY <2>2, <2>3
<1>3. ASSUME NEW active \in BOOLEAN, ObserveEstop(active)
      PROVE  GuardInv'
  BY <1>3 DEF ObserveEstop
<1>4. ASSUME NEW clear \in BOOLEAN, NEW acknowledged \in BOOLEAN,
             ManualReset(clear, acknowledged)
      PROVE  GuardInv'
  <2>1. CASE guard.configured /\ clear /\ acknowledged
    <3>1. /\ guard' = [guard EXCEPT !.latched = FALSE, !.armed = FALSE]
          /\ given' = [given EXCEPT !.owed = {"arm"}]
      BY <1>4, <2>1 DEF ManualReset
    <3> QED
      BY <3>1
  <2>2. CASE ~(guard.configured /\ clear /\ acknowledged)
    <3>1. UNCHANGED <<guard, given>>
      BY <1>4, <2>2 DEF ManualReset
    <3> QED
      BY <3>1
  <2> QED
    BY <2>1, <2>2
<1> QED
  BY <1>1, <1>2, <1>3, <1>4 DEF GuardStep

LEMMA GuardIsSafe == GuardInv => GuardKeepsCalibration
<1> SUFFICES ASSUME GuardInv,
                    NEW id \in {0, 1}, NEW current \in Angles, NEW target \in Angles,
                    EvaluateTarget(id, current, target)
             PROVE  LET c == given.offered
                    IN /\ given.owed = {} /\ id = c.protocol_id
                       /\ c.lower <= target /\ target <= c.upper
                       /\ c.test_lower <= target /\ target <= c.test_upper
                       /\ target - current \in -c.max_step .. c.max_step
                       /\ c.max_step <= c.test_upper - c.test_lower
  BY DEF GuardInv, GuardKeepsCalibration, EligibleMeansSafe
<1> DEFINE c == given.offered
<1>1. guard.configured /\ guard.armed /\ guard.calibration = c /\ given.owed = {}
  BY DEF GuardInv, NothingOwed, EvaluateTarget
<1>2. c \in Calibrations /\ CalibrationValid(c)
  BY <1>1 DEF GuardInv, GuardTyped, GuardAgreesWithHost, NothingOwed
<1>3. /\ c.lower \in Int /\ c.upper \in Int /\ c.test_lower \in Int
      /\ c.test_upper \in Int /\ c.max_step \in Nat
      /\ current \in Int /\ target \in Int
  BY <1>2, CalibrationsAssumption
<1>4. /\ c.lower <= c.test_lower /\ c.test_upper <= c.upper
      /\ c.max_step <= c.test_upper - c.test_lower
  BY <1>2 DEF CalibrationValid
<1>5. /\ id = c.protocol_id /\ c.test_lower <= target /\ target <= c.test_upper
      /\ (IF target - current < 0 THEN -(target - current) ELSE target - current)
           <= c.max_step
  BY <1>1 DEF EvaluateTarget
<1> HIDE DEF c
<1>6. c.lower <= target /\ target <= c.upper
  BY <1>3, <1>4, <1>5
<1>7. target - current \in -c.max_step .. c.max_step
  BY <1>3, <1>5
<1> QED
  BY <1>1, <1>4, <1>5, <1>6, <1>7 DEF c

---------------------------------------------------------------------------
(* The gate and its files.                                                 *)

\* A permit the gate gave, and a result the host accepts.
Earned(document) ==
  \E case \in gated : document = Permit(case[1]) /\ Approved(case[1], case[2])

Reported(document) == document \in Results /\ ResultValid(document)

FilesTyped ==
  files \in [final : [Names -> {files.final[n] : n \in Names}],
            temporary : [Names -> {files.temporary[n] : n \in Names}]]

\* What is being written, and what was written whole, was earned.
DocumentInv ==
  /\ FilesTyped
  /\ files.final["permit"] # Absent => Earned(files.final["permit"])
  /\ files.final["result"] # Absent => Reported(files.final["result"])
  /\ writing # Absent =>
       \/ writing.name = "permit" /\ Earned(writing.document)
       \/ writing.name = "result" /\ Reported(writing.document)

LEMMA EarnedIsKept ==
  ASSUME NEW document, Earned(document), gated \subseteq gated'
  PROVE  Earned(document)'
  BY DEF Earned

LEMMA DocumentNextInv == DocumentInv /\ [HilNext]_hil => DocumentInv'
<1> SUFFICES ASSUME DocumentInv, [HilNext]_hil PROVE DocumentInv'
  OBVIOUS
<1> USE DEF Names
<1>1. ASSUME NEW e \in Evidences, NEW c \in Configs, Submit(e, c)
      PROVE  DocumentInv'
  <2>1. gated \subseteq gated' /\ <<e, c>> \in gated'
    BY <1>1 DEF Submit
  <2>2. CASE Approved(e, c)
    <3>1. Earned(Permit(e))'
      BY <2>1, <2>2 DEF Earned
    <3>2. BeginWrite("permit", Permit(e))
      BY <1>1, <2>2 DEF Submit
    <3> QED
      BY <2>1, <3>1, <3>2 DEF BeginWrite, DocumentInv, Earned, FilesTyped, Reported
  <2>3. CASE ~Approved(e, c)
    <3>1. UNCHANGED <<files, writing>>
      BY <1>1, <2>3 DEF Submit
    <3> QED
      BY <2>1, <3>1 DEF DocumentInv, Earned, FilesTyped, Reported
  <2> QED
    BY <2>2, <2>3
<1>2. ASSUME NEW r \in Results, Record(r)
      PROVE  DocumentInv'
  BY <1>2 DEF Record, BeginWrite, DocumentInv, Earned, Reported, FilesTyped
<1>3. CASE Finish
  BY <1>3 DEF Finish, DocumentInv, Earned, Reported, FilesTyped
<1>4. CASE Replace
  BY <1>4 DEF Replace, DocumentInv, Earned, Reported, FilesTyped
<1>5. CASE Fail
  BY <1>5 DEF Fail, DocumentInv, Earned, Reported, FilesTyped
<1>6. CASE GuardStep \/ UNCHANGED hil
  <2>1. UNCHANGED <<files, writing, gated>>
    BY <1>6 DEF GuardStep, Configure, Arm, ObserveEstop, ManualReset, hil
  <2> QED
    BY <2>1 DEF DocumentInv, Earned, Reported, FilesTyped
<1> QED
  BY <1>1, <1>2, <1>3, <1>4, <1>5, <1>6 DEF HilNext, DocumentStep

LEMMA EightChecks == Cardinality(Checks) = 8
<1> DEFINE C1 == {"common_ground"}
           C2 == C1 \cup {"rails_separate"}
           C3 == C2 \cup {"independent_estop"}
           C4 == C3 \cup {"power_cut"}
           C5 == C4 \cup {"servo_secured"}
           C6 == C5 \cup {"load_path_clear"}
           C7 == C6 \cup {"manual_range"}
           C8 == C7 \cup {"hard_stop_clearance"}
<1>1. IsFiniteSet(C1) /\ Cardinality(C1) = 1
  BY FS_Singleton
<1>2. IsFiniteSet(C2) /\ Cardinality(C2) = 2
  BY <1>1, FS_AddElement
<1>3. IsFiniteSet(C3) /\ Cardinality(C3) = 3
  BY <1>2, FS_AddElement
<1>4. IsFiniteSet(C4) /\ Cardinality(C4) = 4
  BY <1>3, FS_AddElement
<1>5. IsFiniteSet(C5) /\ Cardinality(C5) = 5
  BY <1>4, FS_AddElement
<1>6. IsFiniteSet(C6) /\ Cardinality(C6) = 6
  BY <1>5, FS_AddElement
<1>7. IsFiniteSet(C7) /\ Cardinality(C7) = 7
  BY <1>6, FS_AddElement
<1>8. Cardinality(C8) = 8
  <2>1. "hard_stop_clearance" \notin C7
    OBVIOUS
  <2> HIDE DEF C7
  <2> QED
    BY <1>7, <2>1, FS_AddElement
<1>9. Checks = C8
  BY DEF Checks
<1> QED
  BY <1>8, <1>9

LEMMA EarnedIsVerified ==
  ASSUME DocumentInv
  PROVE  PermitIsEarned
<1> DEFINE permit == files.final["permit"]
           result == files.final["result"]
<1>1. ASSUME permit # Absent
      PROVE  \E case \in gated :
               LET e == case[1] IN LET joints == case[2].joints IN
               /\ permit = [evidence |-> e, calibration |-> e.calibration]
               /\ Cardinality(e.checks) = 8 /\ case[2].driver = e.driver
               /\ e.joint \in DOMAIN joints /\ joints[e.joint].channel = e.channel
               /\ joints[e.joint].protocol_id = permit.calibration.protocol_id
  <2>1. PICK case \in gated : permit = Permit(case[1]) /\ Approved(case[1], case[2])
    BY <1>1 DEF DocumentInv, Earned
  <2> DEFINE e == case[1]
             joints == case[2].joints
  <2>2. permit = [evidence |-> e, calibration |-> e.calibration]
    BY <2>1 DEF Permit
  <2>3. /\ e.joint \in DOMAIN joints /\ case[2].driver = e.driver
        /\ joints[e.joint] = [protocol_id |-> e.calibration.protocol_id,
                              channel |-> e.channel]
    BY <2>1 DEF Approved, MatchesConfig
  <2>4. Cardinality(e.checks) = 8
    BY <2>1, EightChecks DEF Approved
  <2>5. permit.calibration = e.calibration
    BY <2>2
  <2>6. /\ joints[e.joint].channel = e.channel
        /\ joints[e.joint].protocol_id = permit.calibration.protocol_id
    BY <2>3, <2>5
  <2> HIDE DEF permit
  <2> QED
    BY <2>2, <2>3, <2>4, <2>6
<1>2. ASSUME result # Absent
      PROVE  result \in Results
               /\ (result.outcome = "pass" =>
                     result.estop_response /\ result.power_cut_response)
  BY <1>2 DEF DocumentInv, Reported, ResultValid
<1> QED
  BY <1>1, <1>2 DEF PermitIsEarned

\* At whatever point writing breaks off, the permit on file is that of evidence
\* the gate approved, and a result on file is whole and valid.
THEOREM PermitIsEarnedAlways == HilSpec => []PermitIsEarned
<1>1. HilInit => DocumentInv
  BY DEF HilInit, DocumentInv, FilesTyped, Names
<1> QED
  BY <1>1, DocumentNextInv, EarnedIsVerified, PTL DEF HilSpec

\* The guard takes the calibrations that the host permits and no others, and calls
\* a target eligible only when it was armed since the last calibration and the
\* last stop, within the measured range and one step: for every angle width,
\* although the guard computes spans of signed angles in an unsigned type.
THEOREM GuardKeepsCalibrationAlways == HilSpec => []GuardKeepsCalibration
<1>1. HilInit => GuardInv
  BY DEF HilInit, GuardInv, GuardTyped, GuardAgreesWithHost, NothingOwed
<1>2. GuardInv /\ [HilNext]_hil => GuardInv'
  <2>1. GuardInv /\ DocumentStep => GuardInv'
    BY DEF DocumentStep, Submit, Record, Finish, Replace, Fail, GuardInv, GuardTyped,
           GuardAgreesWithHost, NothingOwed
  <2>2. GuardInv /\ UNCHANGED hil => GuardInv'
    BY DEF hil, GuardInv, GuardTyped, GuardAgreesWithHost, NothingOwed
  <2> QED
    BY <2>1, <2>2, GuardNextInv DEF HilNext
<1> QED
  BY <1>1, <1>2, GuardIsSafe, PTL DEF HilSpec

---------------------------------------------------------------------------
(* The interaction.                                                        *)

\* The arm that behaviours are planned for (configs/simulation/reference_arm.yaml).
ReferenceRobot ==
  Profile = [base |-> [lower |-> -135, upper |-> 135, home |-> 0],
             shoulder |-> [lower |-> -60, upper |-> 120, home |-> 30],
             elbow |-> [lower |-> -135, upper |-> 135, home |-> 60],
             gripper |-> [lower |-> 0, upper |-> 70, home |-> 20]]

\* Cue and style are of the contract's enumerations (characters/contracts.py).
ContractLiterals ==
  \A a \in Answers :
    a.cue \in DOMAIN Offsets \cup {"none"} /\ a.style \in DOMAIN StyleScale

LEMMA LesserOfTwo ==
  ASSUME NEW a \in Int, NEW b \in Int
  PROVE  /\ Min({a, b}) = IF a <= b THEN a ELSE b
         /\ Min({a, b}) \in {a, b} /\ Min({a, b}) <= a /\ Min({a, b}) <= b
<1>1. \E x \in {a, b} : \A y \in {a, b} : x <= y
  OBVIOUS
<1>2. Min({a, b}) \in {a, b} /\ \A y \in {a, b} : Min({a, b}) <= y
  BY <1>1 DEF Min
<1> QED
  BY <1>2

Stamped(g) == g.taken \in Nat /\ g.timestamp = (g.taken + offset) % Modulus

Recent(r) ==
  Correlated(r.at, r.gesture) =>
    /\ AgeOfGesture(r) <= Window + offset
    /\ AgeOfGesture(r) # 0 /\ Window + MaxLag + offset < Modulus
         => offset - Window <= AgeOfGesture(r)

TurnTyped ==
  turn \in [phase : {"idle", "asked", "failed", "done"}, request : {turn.request},
            frame : {turn.frame}, answer : {turn.answer}, behavior : {turn.behavior},
            goal : {turn.goal}]

\* A turn's frame is that of its request, whose gesture was recent, and its
\* behaviour that of an answer that may be published.
InteractionInv ==
  /\ clock \in Nat /\ offset \in 0 .. Modulus - 1
  /\ glove = NoGesture \/ Stamped(glove)
  /\ glove.taken <= clock /\ glove.confidence \in Int
  /\ TurnTyped
  /\ turn.phase \in {"asked", "done"} =>
       /\ turn.frame = Correlate(turn.request) /\ FrameValid(turn.frame)
       /\ Recent(turn.request)
       /\ turn.request.voice.confidence \in Int /\ turn.request.gesture.confidence \in Int
  /\ IF turn.phase = "done"
     THEN /\ turn.answer \in Answers /\ Publishable(turn.answer)
          /\ turn.behavior = Plan(turn.answer)
          /\ turn.goal = IF turn.behavior = NoBehavior THEN <<>> ELSE Goal(turn.behavior)
     ELSE turn.behavior = NoBehavior /\ turn.goal = <<>>

LEMMA Wrapped ==
  ASSUME NEW M \in Nat \ {0}, NEW a \in Nat
  PROVE  a % M \in Nat /\ (a % M = a \/ a >= M + (a % M))
  OBVIOUS

\* The two clocks: a gesture whose stamp is near was made the offset before, unless
\* the glove's clock has wrapped, and then it is no older and its stamp lies behind any
\* time stamp of a request.
LEMMA NearStampIsNear ==
  ASSUME InteractionInv, NEW at \in Timestamps, NEW g \in {NoGesture, glove},
         Correlated(at, g)
  PROVE  /\ at - g.taken <= Window + offset
         /\ Window + MaxLag + offset < Modulus => offset - Window <= at - g.taken
<1>1. /\ Window \in Nat /\ Modulus \in Nat \ {0} /\ MaxLag \in Nat
      /\ clock \in Nat /\ offset \in Nat
  BY InteractionAssumption DEF InteractionInv
<1>2. at \in Nat /\ at <= clock /\ clock - MaxLag <= at
  BY <1>1 DEF Timestamps
<1>3. g = glove /\ Stamped(glove)
  BY DEF Correlated, NoGesture, InteractionInv
<1> DEFINE taken == g.taken
           stamp == g.timestamp
<1>4. /\ taken \in Nat /\ taken <= clock /\ stamp = (taken + offset) % Modulus
  BY <1>3 DEF InteractionInv, Stamped
<1>5. /\ stamp \in Nat
      /\ stamp = taken + offset \/ taken + offset >= Modulus + stamp
  <2> DEFINE told == taken + offset
  <2>1. told \in Nat /\ stamp = told % Modulus
    BY <1>1, <1>4
  <2> HIDE DEF stamp, told
  <2>2. /\ stamp \in Nat
        /\ stamp = told \/ told >= Modulus + stamp
    BY <1>1, <2>1, Wrapped
  <2> QED
    BY <2>2 DEF told
<1>6. at - stamp \in -Window .. Window
  <2>1. (IF at < stamp THEN stamp - at ELSE at - stamp) <= Window
    BY DEF Correlated, Age
  <2> HIDE DEF stamp
  <2> QED
    BY <1>1, <1>2, <1>5, <2>1
<1> HIDE DEF taken, stamp
<1>7. at - taken <= Window + offset
  BY <1>1, <1>2, <1>4, <1>5, <1>6
<1>8. ASSUME Window + MaxLag + offset < Modulus
      PROVE  offset - Window <= at - taken
  <2>1. stamp = taken + offset
    BY <1>1, <1>2, <1>4, <1>5, <1>6, <1>8
  <2> QED
    BY <1>1, <1>2, <1>4, <1>6, <2>1
<1> QED
  BY <1>7, <1>8 DEF taken

LEMMA BeginKeepsInv ==
  ASSUME InteractionInv, NEW r, Begin(r), Recent(r),
         r.voice.confidence \in Int, r.gesture.confidence \in Int
  PROVE  InteractionInv'
  BY DEF Begin, InteractionInv, TurnTyped, Stamped, Recent, AgeOfGesture

LEMMA InteractionNextInv == InteractionInv /\ [InteractionNext]_interaction => InteractionInv'
<1> SUFFICES ASSUME InteractionInv, [InteractionNext]_interaction PROVE InteractionInv'
  OBVIOUS
<1>1. CASE Tick
  <2>1. clock' \in Nat /\ glove.taken <= clock' /\ UNCHANGED <<offset, glove, turn>>
    BY <1>1 DEF Tick, InteractionInv, Stamped, NoGesture
  <2> QED
    BY <2>1 DEF InteractionInv, TurnTyped, Stamped, Recent, AgeOfGesture
<1>2. ASSUME NEW g \in Gestures, Glove(g)
      PROVE  InteractionInv'
  <2>1. g.confidence \in Int /\ clock \in Nat
    BY InteractionAssumption DEF InteractionInv
  <2>2. /\ glove'.taken = clock /\ glove'.timestamp = (clock + offset) % Modulus
        /\ glove'.confidence = g.confidence /\ UNCHANGED <<clock, offset, turn>>
    BY <1>2 DEF Glove
  <2> QED
    BY <2>1, <2>2 DEF InteractionInv, TurnTyped, Stamped, Recent, AgeOfGesture
<1>3. ASSUME NEW at \in Timestamps, NEW text \in {"none", "blank", "words"},
             NEW v \in Voices \cup {NoVoice}, NEW g \in {NoGesture, glove},
             Interact(at, text, v, g)
      PROVE  InteractionInv'
  <2> DEFINE r == [at |-> at, text |-> text, voice |-> v, gesture |-> g]
  <2>1. Begin(r)
    BY <1>3 DEF Interact
  <2>2. Recent(r)
    BY NearStampIsNear DEF Recent, AgeOfGesture
  <2>3. v.confidence \in Int /\ g.confidence \in Int
    BY InteractionAssumption DEF InteractionInv, NoVoice, NoGesture
  <2> QED
    BY <2>1, <2>2, <2>3, BeginKeepsInv
<1>4. ASSUME NEW at \in Timestamps, NEW text \in {"none", "blank", "words"},
             NEW v \in Voices \cup {NoVoice}, NEW g \in Gestures \cup {NoGesture},
             Post(at, text, v, g)
      PROVE  InteractionInv'
  <2> DEFINE voiced == [v EXCEPT !.simulation = (v # NoVoice)]
             posted == [gesture |-> g.gesture, confidence |-> g.confidence,
                        simulation |-> TRUE, timestamp |-> at, taken |-> at]
             r == [at |-> at, text |-> text, voice |-> voiced, gesture |-> posted]
  <2>1. Begin(r)
    BY <1>4 DEF Post
  <2>2. at \in Int /\ Window \in Nat /\ offset \in Nat
    BY InteractionAssumption DEF Timestamps, InteractionInv
  <2>3. Recent(r)
    BY <2>2 DEF Recent, AgeOfGesture
  <2>4. v.confidence \in Int /\ g.confidence \in Int
    BY InteractionAssumption DEF InteractionInv, NoVoice, NoGesture
  <2>5. voiced.confidence = v.confidence /\ posted.confidence = g.confidence
    OBVIOUS
  <2> QED
    BY <2>1, <2>3, <2>4, <2>5, BeginKeepsInv
<1>5. ASSUME NEW a \in Answers, Respond(a)
      PROVE  InteractionInv'
  BY <1>5 DEF Respond, InteractionInv, TurnTyped, Stamped, Recent, AgeOfGesture
<1>6. CASE Return
  BY <1>6 DEF Return, Idle, InteractionInv, TurnTyped, Stamped
<1>7. CASE UNCHANGED interaction
  BY <1>7 DEF interaction, InteractionInv, TurnTyped, Stamped, Recent, AgeOfGesture
<1> QED
  BY <1>1, <1>2, <1>3, <1>4, <1>5, <1>6, <1>7 DEF InteractionNext

\* Every cue, in every style, moves the joints of the reference robot within their
\* limits.
LEMMA CuesAreReachable ==
  ASSUME ReferenceRobot, NEW cue \in DOMAIN Offsets, NEW style \in DOMAIN StyleScale,
         NEW j \in 1 .. 4
  PROVE  100 * Profile[Joints[j]].home + Offsets[cue][j] * StyleScale[style]
           \in 100 * Profile[Joints[j]].lower .. 100 * Profile[Joints[j]].upper
<1> DEFINE swing == Offsets[cue][j]
           scale == StyleScale[style]
<1>1. scale \in {50, 75, 100}
  BY DEF StyleScale
<1>2. /\ j = 1 => swing \in -15 .. 20
      /\ j = 2 => swing \in -25 .. 15
      /\ j = 3 => swing \in -30 .. 15
      /\ j = 4 => swing \in -5 .. 25
  BY DEF Offsets
<1>3. /\ j = 1 => /\ Profile[Joints[j]].home = 0
                  /\ Profile[Joints[j]].lower = -135 /\ Profile[Joints[j]].upper = 135
      /\ j = 2 => /\ Profile[Joints[j]].home = 30
                  /\ Profile[Joints[j]].lower = -60 /\ Profile[Joints[j]].upper = 120
      /\ j = 3 => /\ Profile[Joints[j]].home = 60
                  /\ Profile[Joints[j]].lower = -135 /\ Profile[Joints[j]].upper = 135
      /\ j = 4 => /\ Profile[Joints[j]].home = 20
                  /\ Profile[Joints[j]].lower = 0 /\ Profile[Joints[j]].upper = 70
  BY DEF ReferenceRobot, Joints
<1> HIDE DEF swing, scale
<1>4. CASE scale = 50
  BY <1>2, <1>3, <1>4 DEF swing, scale
<1>5. CASE scale = 75
  BY <1>2, <1>3, <1>5 DEF swing, scale
<1>6. CASE scale = 100
  BY <1>2, <1>3, <1>6 DEF swing, scale
<1> QED
  BY <1>1, <1>4, <1>5, <1>6

LEMMA InvIsGrounded ==
  ASSUME ReferenceRobot, ContractLiterals, InteractionInv
  PROVE  BehaviorIsGrounded
<1> DEFINE f == turn.frame
           r == turn.request
           a == turn.answer
<1>1. RecentGesturesOnly
  BY DEF InteractionInv, RecentGesturesOnly, Recent, AgeOfGesture, Correlate
<1>2. FrameIsHonest
  <2> SUFFICES ASSUME turn.phase = "asked"
               PROVE  /\ f.said \/ f.gesture # "UNKNOWN"
                      /\ f.said /\ r.voice # NoVoice => f.confidence <= r.voice.confidence
                      /\ f.gesture # "UNKNOWN" =>
                           /\ f.confidence <= r.gesture.confidence
                           /\ r.gesture.simulation => f.simulation
                      /\ f.said /\ r.voice.simulation => f.simulation
    BY DEF FrameIsHonest
  <2> DEFINE with == Correlated(r.at, r.gesture)
             sure == Spoken(r)
             hand == r.gesture.confidence
  <2>1. /\ f = Correlate(r) /\ FrameValid(f)
        /\ r.voice.confidence \in Int /\ hand \in Int
    BY DEF InteractionInv
  <2>2. sure \in Int /\ (r.voice # NoVoice => sure = r.voice.confidence)
    BY <2>1 DEF Spoken
  <2>3. /\ f.said = Said(r)
        /\ f.gesture = IF with THEN r.gesture.gesture ELSE "UNKNOWN"
        /\ f.simulation = (r.voice.simulation \/ (with /\ r.gesture.simulation))
        /\ f.confidence = IF ~with THEN sure
                          ELSE IF Said(r) THEN Together(sure, hand) ELSE hand
    BY <2>1 DEF Correlate
  <2>4. Together(sure, hand) <= sure /\ Together(sure, hand) <= hand
    <3> HIDE DEF sure, hand
    <3>1. sure \in Int /\ hand \in Int
      BY <2>1, <2>2
    <3>2. Min({sure, hand}) <= sure /\ Min({sure, hand}) <= hand
      BY <3>1, LesserOfTwo
    <3> QED
      BY <3>2 DEF Together
  <2>5. f.said \/ f.gesture # "UNKNOWN"
    BY <2>1 DEF FrameValid
  <2> HIDE DEF f, r, with, sure, hand
  <2>6. f.said /\ r.voice # NoVoice => f.confidence <= r.voice.confidence
    BY <2>1, <2>2, <2>3, <2>4
  <2>7. f.gesture # "UNKNOWN" => f.confidence <= hand
    BY <2>1, <2>3, <2>4
  <2> QED
    BY <2>3, <2>5, <2>6, <2>7 DEF hand
<1>3. BehaviorIsReleased
  BY DEF InteractionInv, BehaviorIsReleased, Publishable, ContractValid, Plan
<1>4. GoalsAreReachable
  <2>1. CASE turn.behavior = NoBehavior
    <3>1. turn.goal = <<>>
      BY <2>1 DEF InteractionInv
    <3> QED
      BY <3>1 DEF GoalsAreReachable
  <2>2. CASE turn.behavior # NoBehavior
    <3>1. /\ a \in Answers /\ ContractValid(a) /\ turn.behavior = Plan(a)
          /\ turn.goal = Goal(turn.behavior)
      BY <2>2 DEF InteractionInv, Publishable
    <3>2. turn.behavior = [cue |-> a.cue, style |-> a.style] /\ a.cue # "none"
      BY <2>2, <3>1 DEF Plan, ContractValid
    <3>3. a.cue \in DOMAIN Offsets /\ a.style \in DOMAIN StyleScale
      BY <3>1, <3>2 DEF ContractLiterals
    <3>4. DOMAIN Joints = 1 .. 4
      BY DEF Joints
    <3>5. turn.goal = [j \in 1 .. 4 |-> 100 * Profile[Joints[j]].home
                                        + Offsets[a.cue][j] * StyleScale[a.style]]
      BY <3>1, <3>2, <3>4 DEF Goal
    <3>6. \A j \in 1 .. 4 :
            turn.goal[j] \in 100 * Profile[Joints[j]].lower .. 100 * Profile[Joints[j]].upper
      BY <3>3, <3>5, CuesAreReachable
    <3> QED
      BY <3>5, <3>6 DEF GoalsAreReachable
  <2> QED
    BY <2>1, <2>2
<1> QED
  BY <1>1, <1>2, <1>3, <1>4 DEF BehaviorIsGrounded

\* A behaviour has its ground in a gesture that is no older than the window and the
\* offset of the glove's clock, which is never synchronized (correlator.py:49), and in
\* a released answer; and whatever cue and style the contract allows is within the
\* reference robot's reach.
THEOREM BehaviorIsGroundedAlways ==
  ASSUME ReferenceRobot, ContractLiterals
  PROVE  InteractionSpec => []BehaviorIsGrounded
<1>1. InteractionInit => InteractionInv
  BY InteractionAssumption
     DEF InteractionInit, InteractionInv, TurnTyped, NoGesture, Idle
<1> QED
  BY <1>1, InteractionNextInv, InvIsGrounded, PTL DEF InteractionSpec

---------------------------------------------------------------------------
(* The joints of the twin.                                                 *)

AnyJoint == [position : Int, velocity : Int, target : Int]

\* The types of the twin's fields; the plant may have any joints.
TwinTyped ==
  /\ joint \in [DOMAIN Plant -> AnyJoint]
  /\ mode \in [state : {"IDLE", "EXECUTING", "ESTOP"}, velocity : Nat, acceleration : Nat]
  /\ settling \in Nat \cup {NoLoop}
  /\ departed \in [DOMAIN Plant -> Int]

\* A joint is between where it set out and its target, and does not move away from it.
Course(j, from, limit) ==
  /\ (from <= j.position /\ j.position <= j.target)
       \/ (j.target <= j.position /\ j.position <= from)
  /\ j.position < j.target => j.velocity >= 0
  /\ j.position > j.target => j.velocity <= 0
  /\ Distance(j.velocity, 0) <= limit

OnCourse == \A n \in DOMAIN Plant : Course(joint[n], departed[n], VelocityLimit(n))

\* Between two commands every joint stands.
RestsBetween == settling = NoLoop => \A n \in DOMAIN Plant : joint[n].velocity = 0

TwinInv == TwinTyped /\ OnCourse /\ StandsUnlessExecuting /\ RestsBetween

LEMMA LeastOf ==
  ASSUME NEW S \in SUBSET Nat, S # {}
  PROVE  Min(S) \in S /\ \A y \in S : Min(S) <= y
<1> DEFINE R == OpToRel(<, Nat)
<1>1. IsWellFoundedOn(R, Nat)
  BY NatLessThanWellFounded
<1>2. R = {ss \in Nat \X Nat : ss[1] < ss[2]}
  BY DEF OpToRel
<1> HIDE DEF R
<1>3. PICK x \in S : \A y \in S : ~(<<y, x>> \in R)
  BY <1>1, WFMin
<1>4. \A m, n \in Nat : m < n => <<m, n>> \in R
  BY <1>2
<1>5. \A y \in S : y \in Nat /\ x \in Nat /\ ~(y < x)
  BY <1>3, <1>4
<1>6. \A y \in S : x <= y
  BY <1>5
<1> QED
  BY <1>3, <1>6 DEF Min

LEMMA LesserIsNatural ==
  ASSUME NEW a \in Nat, NEW b \in Nat
  PROVE  Min({a, b}) \in Nat /\ Min({a, b}) <= a
<1>1. Min({a, b}) \in {a, b} /\ Min({a, b}) <= a
  BY LesserOfTwo
<1> QED
  BY <1>1

LEMMA LimitsAreNatural ==
  ASSUME TwinTyped, NEW n \in DOMAIN Plant
  PROVE  VelocityLimit(n) \in Nat /\ AccelerationLimit(n) \in Nat
<1>1. /\ Plant[n].velocity \in Int /\ Plant[n].acceleration \in Int
      /\ Plant[n].velocity \in Nat /\ Plant[n].acceleration \in Nat
      /\ mode.velocity \in Nat /\ mode.acceleration \in Nat
  BY PlantAssumption DEF TwinTyped
<1> DEFINE v == Plant[n].velocity
           w == mode.velocity
           a == Plant[n].acceleration
           b == mode.acceleration
<1> HIDE DEF v, w, a, b
<1>2. v \in Nat /\ w \in Nat /\ a \in Nat /\ b \in Nat
  BY <1>1 DEF v, w, a, b
<1>5. Min({v, w}) \in Nat /\ Min({a, b}) \in Nat
  BY <1>2, LesserIsNatural
<1> QED
  BY <1>5 DEF VelocityLimit, AccelerationLimit, v, w, a, b

LEMMA WithinLimit ==
  ASSUME NEW v \in Int, NEW limit \in Nat
  PROVE  Distance(v, 0) <= limit <=> -limit <= v /\ v <= limit
  BY DEF Distance

\* A velocity is brought nearer to the desired one and not past it.
LEMMA TowardIsBetween ==
  ASSUME NEW v \in Int, NEW desired \in Int, NEW most \in Nat
  PROVE  LET w == Toward(v, desired, most)
         IN /\ w \in Int
            /\ (v <= w /\ w <= desired) \/ (desired <= w /\ w <= v)
  BY DEF Toward, Distance, Sign

\* Whether a joint arrives is told by the sign of a product.
LEMMA PassedOrNot ==
  ASSUME NEW a \in Int, NEW b \in Int
  PROVE  /\ a > 0 => (a * b <= 0 <=> b <= 0)
         /\ a < 0 => (a * b <= 0 <=> b >= 0)
         /\ a = 0 => a * b = 0
  OBVIOUS

LEMMA SameSign ==
  ASSUME NEW v \in Int, NEW e \in Int, e > 0 => v >= 0, e < 0 => v <= 0
  PROVE  v * e >= 0
  OBVIOUS

\* Where a joint stands, what its velocity is and where it goes to.
OnTheWay(position, velocity, target, from, limit) ==
  /\ (from <= position /\ position <= target) \/ (target <= position /\ position <= from)
  /\ position < target => 0 <= velocity
  /\ target < position => velocity <= 0
  /\ -limit <= velocity /\ velocity <= limit

LEMMA ACourse ==
  ASSUME NEW j \in AnyJoint, NEW from \in Int, NEW limit \in Nat
  PROVE  Course(j, from, limit) <=> OnTheWay(j.position, j.velocity, j.target, from, limit)
<1> DEFINE p == j.position
           v == j.velocity
           t == j.target
<1>1. p \in Int /\ v \in Int /\ t \in Int
  BY DEF AnyJoint
<1>2. Course(j, from, limit) <=>
        /\ (from <= p /\ p <= t) \/ (t <= p /\ p <= from)
        /\ p < t => v >= 0
        /\ p > t => v <= 0
        /\ Distance(v, 0) <= limit
  BY DEF Course
<1> HIDE DEF p, v, t
<1>3. Distance(v, 0) <= limit <=> -limit <= v /\ v <= limit
  BY <1>1, WithinLimit
<1>4. Course(j, from, limit) <=> OnTheWay(p, v, t, from, limit)
  BY <1>1, <1>2, <1>3 DEF OnTheWay
<1> QED
  BY <1>4 DEF p, v, t

\* Speeding up or braking towards a desired velocity in the direction of the target
\* a joint that does not arrive stays on its way.
LEMMA SpeedKeepsWay ==
  ASSUME NEW p \in Int, NEW u \in Int, NEW t \in Int, NEW from \in Int, NEW limit \in Nat,
         OnTheWay(p, u, t, from, limit),
         NEW slow \in Nat, slow <= limit, NEW desired \in Int,
         t - p < 0 => desired = -slow, ~(t - p < 0) => desired = slow,
         NEW v \in Int,
         (u <= v /\ v <= desired) \/ (desired <= v /\ v <= u),
         ~((t - p) * (t - (p + v)) <= 0)
  PROVE  OnTheWay(p + v, v, t, from, limit)
<1> DEFINE error == t - p
           rest == t - (p + v)
<1>1. error \in Int /\ rest \in Int
  OBVIOUS
<1> HIDE DEF error, rest
<1>2. /\ error > 0 => rest > 0
      /\ error < 0 => rest < 0
      /\ error # 0
  BY <1>1, PassedOrNot DEF error, rest
<1>3. /\ p < t => p + v < t
      /\ t < p => t < p + v
      /\ p # t
  BY <1>2 DEF error, rest
<1>4. CASE p < t
  <2>1. 0 <= u /\ u <= limit /\ from <= p
    BY <1>4 DEF OnTheWay
  <2>2. desired = slow
    BY <1>4
  <2>3. 0 <= v /\ v <= limit
    BY <2>1, <2>2
  <2> QED
    BY <1>3, <1>4, <2>1, <2>3 DEF OnTheWay
<1>5. CASE t < p
  <2>1. u <= 0 /\ -limit <= u /\ p <= from
    BY <1>5 DEF OnTheWay
  <2>2. desired = -slow
    BY <1>5
  <2>3. v <= 0 /\ -limit <= v
    BY <2>1, <2>2
  <2> QED
    BY <1>3, <1>5, <2>1, <2>3 DEF OnTheWay
<1> QED
  BY <1>3, <1>4, <1>5

LEMMA AJoint ==
  ASSUME NEW j \in AnyJoint
  PROVE  j = [position |-> j.position, velocity |-> j.velocity, target |-> j.target]
  BY DEF AnyJoint

\* One step keeps a joint on its course.
LEMMA MovedKeepsCourse ==
  ASSUME TwinTyped, NEW n \in DOMAIN Plant, NEW k \in Moved(n),
         Course(joint[n], departed[n], VelocityLimit(n))
  PROVE  /\ k \in AnyJoint /\ k.target = joint[n].target
         /\ Course(k, departed[n], VelocityLimit(n))
<1> DEFINE j == joint[n]
           from == departed[n]
           limit == VelocityLimit(n)
           most == AccelerationLimit(n)
           error == j.target - j.position
           Speed(r) == Toward(j.velocity, Sign(error) * Min({limit, r}), most)
           Onward(v) == IF Arrives(j, j.position + v)
                        THEN [j EXCEPT !.position = j.target, !.velocity = 0]
                        ELSE [j EXCEPT !.position = j.position + v, !.velocity = v]
           all == Roots(2 * most * Distance(error, 0))
<1>1. CASE Stands(j)
  BY <1>1 DEF Moved, TwinTyped
<1>2. CASE ~Stands(j)
  <2>1. PICK r \in all : k = Onward(Speed(r))
    BY <1>2 DEF Moved
  <2>2. r \in Nat
    BY DEF Roots
  <2>3. j \in AnyJoint /\ from \in Int /\ limit \in Nat /\ most \in Nat
    BY LimitsAreNatural DEF TwinTyped
  <2> DEFINE p == j.position
             u == j.velocity
             t == j.target
             slow == Min({limit, r})
             desired == Sign(t - p) * slow
             v == Toward(u, desired, most)
  <2>4. p \in Int /\ u \in Int /\ t \in Int
    BY <2>3 DEF AnyJoint
  <2>5. OnTheWay(p, u, t, from, limit)
    BY <2>3, ACourse
  <2>6. k = IF (t - p) * (t - (p + v)) <= 0
            THEN [j EXCEPT !.position = t, !.velocity = 0]
            ELSE [j EXCEPT !.position = p + v, !.velocity = v]
    BY <2>1 DEF Arrives
  <2>12. j = [position |-> p, velocity |-> u, target |-> t]
    BY <2>3, AJoint
  <2> HIDE DEF j, from, limit, most, p, u, t, v
  <2>7. slow \in Nat /\ slow <= limit
    BY <2>2, <2>3, LesserIsNatural
  <2> HIDE DEF slow
  <2>8. /\ desired \in Int
        /\ t - p < 0 => desired = -slow
        /\ ~(t - p < 0) => desired = slow
    BY <2>4, <2>7 DEF Sign
  <2> HIDE DEF desired
  <2>9. /\ v \in Int
        /\ (u <= v /\ v <= desired) \/ (desired <= v /\ v <= u)
    BY <2>3, <2>4, <2>8, TowardIsBetween DEF v
  <2>10. CASE (t - p) * (t - (p + v)) <= 0
    <3>1. k = [j EXCEPT !.position = t, !.velocity = 0]
      BY <2>6, <2>10
    <3>5. k = [position |-> t, velocity |-> 0, target |-> t]
      BY <2>12, <3>1
    <3>2. /\ k \in AnyJoint /\ k.target = t
          /\ k.position = t /\ k.velocity = 0
      BY <2>4, <3>5 DEF AnyJoint
    <3>3. OnTheWay(t, 0, t, from, limit)
      BY <2>3, <2>4, <2>5 DEF OnTheWay
    <3>4. Course(k, from, limit)
      BY <2>3, <3>2, <3>3, ACourse
    <3> QED
      BY <3>2, <3>4 DEF t, j, from, limit
  <2>11. CASE ~((t - p) * (t - (p + v)) <= 0)
    <3>1. k = [j EXCEPT !.position = p + v, !.velocity = v]
      BY <2>6, <2>11
    <3>5. p + v \in Int /\ v \in Int
      BY <2>4, <2>9
    <3>6. k = [position |-> p + v, velocity |-> v, target |-> t]
      BY <2>12, <3>1
    <3>2. /\ k \in AnyJoint /\ k.target = t
          /\ k.position = p + v /\ k.velocity = v
      BY <2>4, <3>5, <3>6 DEF AnyJoint
    <3>3. OnTheWay(p + v, v, t, from, limit)
      BY <2>3, <2>4, <2>5, <2>7, <2>8, <2>9, <2>11, SpeedKeepsWay
    <3>4. Course(k, from, limit)
      BY <2>3, <3>2, <3>3, ACourse
    <3> QED
      BY <3>2, <3>4 DEF t, j, from, limit
  <2> QED
    BY <2>10, <2>11
<1> QED
  BY <1>1, <1>2

LEMMA StepKeepsInv ==
  ASSUME TwinInv, Step
  PROVE  TwinInv'
<1>1. settling' # NoLoop /\ settling' \in Nat
  BY DEF Step, TwinInv, TwinTyped, NoLoop
<1>2. CASE mode.state = "ESTOP"
  BY <1>1, <1>2
     DEF Step, TwinInv, TwinTyped, OnCourse, StandsUnlessExecuting, RestsBetween,
         VelocityLimit
<1>3. CASE mode.state # "ESTOP"
  <2>1. /\ joint' \in [DOMAIN Plant -> UNION {Moved(n) : n \in DOMAIN Plant}]
        /\ \A n \in DOMAIN Plant : joint'[n] \in Moved(n)
        /\ mode' = [mode EXCEPT !.state = StateAfter]
        /\ departed' = departed
    BY <1>3 DEF Step
  <2>2. \A n \in DOMAIN Plant :
          /\ joint'[n] \in AnyJoint
          /\ Course(joint'[n], departed[n], VelocityLimit(n))
    BY <2>1, MovedKeepsCourse DEF TwinInv, OnCourse
  <2>3. mode'.velocity = mode.velocity /\ mode'.state = StateAfter
    BY <2>1 DEF TwinInv, TwinTyped
  <2>4. TwinTyped'
    <3>1. StateAfter \in {"IDLE", "EXECUTING"}
      BY DEF StateAfter
    <3>2. mode' \in [state : {"IDLE", "EXECUTING", "ESTOP"}, velocity : Nat,
                     acceleration : Nat]
      BY <2>1, <3>1 DEF TwinInv, TwinTyped
    <3>3. joint' \in [DOMAIN Plant -> AnyJoint]
      BY <2>1, <2>2
    <3> QED
      BY <1>1, <2>1, <3>2, <3>3 DEF TwinInv, TwinTyped
  <2>5. OnCourse'
    <3>1. \A n \in DOMAIN Plant : VelocityLimit(n)' = VelocityLimit(n)
      BY <2>3 DEF VelocityLimit
    <3> QED
      BY <2>1, <2>2, <3>1 DEF OnCourse
  <2>6. StandsUnlessExecuting'
    <3> SUFFICES ASSUME mode'.state # "EXECUTING"
                 PROVE  \A n \in DOMAIN Plant : Stands(joint'[n])
      BY DEF StandsUnlessExecuting
    <3>1. \A n \in DOMAIN Plant : Stands(joint[n])
      BY <2>3 DEF StateAfter
    <3>2. \A n \in DOMAIN Plant : Moved(n) = {joint[n]}
      BY <3>1 DEF Moved
    <3> QED
      BY <2>1, <3>1, <3>2
  <2> QED
    BY <1>1, <2>4, <2>5, <2>6 DEF TwinInv, RestsBetween
<1> QED
  BY <1>2, <1>3

\* A joint that does not move is on its course wherever it is sent.
LEMMA RestIsOnCourse ==
  ASSUME NEW j \in AnyJoint, NEW limit \in Nat, j.velocity = 0
  PROVE  Course(j, j.position, limit)
<1>1. j.position \in Int /\ j.target \in Int
  BY DEF AnyJoint
<1>2. OnTheWay(j.position, 0, j.target, j.position, limit)
  BY <1>1 DEF OnTheWay
<1> QED
  BY <1>1, <1>2, ACourse

LEMMA AcceptKeepsInv ==
  ASSUME TwinInv, NEW c \in Commands, Accept(c)
  PROVE  TwinInv'
<1>1. CASE Representable(c)
  <2>1. /\ joint' = [n \in DOMAIN Plant |-> [joint[n] EXCEPT !.target = Targets(c)[n]]]
        /\ mode' = [state |-> "EXECUTING", velocity |-> c.velocity,
                    acceleration |-> c.acceleration]
        /\ departed' = [n \in DOMAIN Plant |-> joint[n].position]
        /\ settling' = settling /\ settling = NoLoop
    BY <1>1 DEF Accept
  <2>2. c.velocity \in Nat /\ c.acceleration \in Nat
    BY PlantAssumption
  <2>3. ASSUME NEW n \in DOMAIN Plant
        PROVE  /\ joint'[n] \in AnyJoint /\ departed'[n] \in Int
               /\ joint'[n].velocity = 0
               /\ Course(joint'[n], departed'[n], VelocityLimit(n)')
    <3> DEFINE j == joint[n]
               t == Targets(c)[n]
               k == joint'[n]
    <3>1. j \in AnyJoint /\ j.velocity = 0 /\ j.position \in Int
      BY <2>1 DEF TwinInv, TwinTyped, RestsBetween, AnyJoint
    <3>2. t \in Int
      BY <3>1, PlantAssumption DEF Targets, AnyJoint
    <3>3. k = [j EXCEPT !.target = t]
      BY <2>1
    <3>4. departed'[n] = j.position
      BY <2>1
    <3> HIDE DEF j, t, k
    <3>5. k = [position |-> j.position, velocity |-> 0, target |-> t]
      BY <3>1, <3>3, AJoint
    <3>6. k \in AnyJoint /\ k.velocity = 0 /\ k.position = j.position
      BY <3>1, <3>2, <3>5 DEF AnyJoint
    <3>7. VelocityLimit(n)' \in Nat
      <4>1. Plant[n].velocity \in Nat
        BY PlantAssumption
      <4>2. VelocityLimit(n)' = Min({Plant[n].velocity, c.velocity})
        BY <2>1 DEF VelocityLimit
      <4> QED
        BY <2>2, <4>1, <4>2, LesserIsNatural
    <3>8. Course(k, j.position, VelocityLimit(n)')
      BY <3>6, <3>7, RestIsOnCourse
    <3> QED
      BY <3>1, <3>4, <3>6, <3>8 DEF k
  <2>4. TwinTyped'
    <3>1. joint' \in [DOMAIN Plant -> AnyJoint] /\ departed' \in [DOMAIN Plant -> Int]
      BY <2>1, <2>3
    <3> QED
      BY <2>1, <2>2, <3>1 DEF TwinInv, TwinTyped
  <2>5. OnCourse'
    BY <2>3 DEF OnCourse
  <2>6. StandsUnlessExecuting'
    BY <2>1 DEF StandsUnlessExecuting
  <2> QED
    BY <2>3, <2>4, <2>5, <2>6 DEF TwinInv, RestsBetween
<1>2. CASE ~Representable(c)
  <2>1. UNCHANGED twin_plant
    BY <1>2 DEF Accept, twin_plant
  <2> QED
    BY <2>1
       DEF twin_plant, TwinInv, TwinTyped, OnCourse, StandsUnlessExecuting, RestsBetween,
           VelocityLimit
<1> QED
  BY <1>1, <1>2

LEMMA EstopKeepsInv ==
  ASSUME TwinInv, Estop
  PROVE  TwinInv'
<1>1. /\ joint' = [n \in DOMAIN Plant |->
                     [joint[n] EXCEPT !.target = joint[n].position, !.velocity = 0]]
      /\ mode' = [mode EXCEPT !.state = "ESTOP"]
      /\ settling' = settling /\ departed' = departed
  BY DEF Estop
<1>2. mode'.velocity = mode.velocity
  BY <1>1 DEF TwinInv, TwinTyped
<1>3. ASSUME NEW n \in DOMAIN Plant
      PROVE  /\ joint'[n] \in AnyJoint
             /\ Stands(joint'[n])
             /\ Course(joint'[n], departed'[n], VelocityLimit(n)')
  <2> DEFINE j == joint[n]
             k == joint'[n]
             from == departed[n]
             limit == VelocityLimit(n)
  <2>1. /\ j \in AnyJoint /\ j.position \in Int /\ j.target \in Int /\ j.velocity \in Int
        /\ from \in Int /\ limit \in Nat /\ Course(j, from, limit)
    BY LimitsAreNatural DEF TwinInv, TwinTyped, OnCourse, AnyJoint
  <2>2. k = [j EXCEPT !.target = j.position, !.velocity = 0]
    BY <1>1
  <2>3. departed'[n] = from /\ VelocityLimit(n)' = limit
    BY <1>1, <1>2 DEF VelocityLimit
  <2> HIDE DEF j, k, from, limit
  <2> DEFINE p == j.position
             v == j.velocity
             t == j.target
  <2>8. j = [position |-> p, velocity |-> v, target |-> t]
    BY <2>1, AJoint
  <2>9. k = [j EXCEPT !.target = p, !.velocity = 0]
    BY <2>2
  <2> HIDE DEF p, v, t
  <2>10. k = [position |-> p, velocity |-> 0, target |-> p]
    BY <2>8, <2>9
  <2>4. k = [position |-> j.position, velocity |-> 0, target |-> j.position]
    BY <2>10 DEF p
  <2>5. /\ k \in AnyJoint /\ Stands(k)
        /\ k.position = j.position /\ k.velocity = 0 /\ k.target = j.position
    BY <2>1, <2>4 DEF AnyJoint, Stands
  <2>6. OnTheWay(j.position, 0, j.position, from, limit)
    BY <2>1 DEF OnTheWay
  <2>7. Course(k, from, limit)
    BY <2>1, <2>5, <2>6, ACourse
  <2> QED
    BY <2>3, <2>5, <2>7 DEF k
<1>4. TwinTyped'
  <2>1. joint' \in [DOMAIN Plant -> AnyJoint]
    BY <1>1, <1>3
  <2> QED
    BY <1>1, <2>1 DEF TwinInv, TwinTyped
<1>5. OnCourse' /\ StandsUnlessExecuting' /\ RestsBetween'
  BY <1>3 DEF OnCourse, StandsUnlessExecuting, RestsBetween, Stands
<1> QED
  BY <1>4, <1>5 DEF TwinInv

LEMMA TwinNextInv ==
  TwinInv /\ SettlesInTime /\ [TwinNext]_twin_plant => TwinInv'
<1> SUFFICES ASSUME TwinInv, SettlesInTime, [TwinNext]_twin_plant PROVE TwinInv'
  OBVIOUS
<1>1. ASSUME NEW c \in Commands, Accept(c)
      PROVE  TwinInv'
  BY <1>1, AcceptKeepsInv
<1>2. CASE Estop
  BY <1>2, EstopKeepsInv
<1>3. CASE ResetEstop
  <2>1. /\ mode' = [mode EXCEPT !.state = "IDLE"] /\ mode.state = "ESTOP"
        /\ UNCHANGED <<joint, settling, departed>>
    BY <1>3 DEF ResetEstop
  <2>2. mode'.velocity = mode.velocity
    BY <2>1 DEF TwinInv, TwinTyped
  <2> QED
    BY <2>1, <2>2
       DEF TwinInv, TwinTyped, OnCourse, StandsUnlessExecuting, RestsBetween, VelocityLimit
<1>4. CASE Step
  BY <1>4, StepKeepsInv
<1>5. CASE LoopEnds
  <2>1. /\ mode.state \in {"IDLE", "ESTOP"} /\ settling' = NoLoop
        /\ UNCHANGED <<joint, mode, departed>>
    BY <1>5 DEF LoopEnds, SettlesInTime
  <2>2. \A n \in DOMAIN Plant : joint[n].velocity = 0
    BY <2>1 DEF TwinInv, StandsUnlessExecuting, Stands
  <2> QED
    BY <2>1, <2>2
       DEF TwinInv, TwinTyped, OnCourse, StandsUnlessExecuting, RestsBetween, VelocityLimit
<1>6. CASE UNCHANGED twin_plant
  BY <1>6
     DEF twin_plant, TwinInv, TwinTyped, OnCourse, StandsUnlessExecuting, RestsBetween,
         VelocityLimit
<1> QED
  BY <1>1, <1>2, <1>3, <1>4, <1>5, <1>6 DEF TwinNext

LEMMA GreaterOfTwo ==
  ASSUME NEW a \in Int, NEW b \in Int
  PROVE  Max({a, b}) = IF a <= b THEN b ELSE a
<1>1. \E x \in {a, b} : \A y \in {a, b} : x >= y
  OBVIOUS
<1>2. Max({a, b}) \in {a, b} /\ \A y \in {a, b} : Max({a, b}) >= y
  BY <1>1 DEF Max
<1> QED
  BY <1>2

LEMMA InvIsOnCourse == TwinInv => StaysOnCourse
<1> SUFFICES ASSUME TwinInv, NEW n \in DOMAIN Plant
             PROVE  LET j == joint[n]
                        ends == {departed[n], j.target}
                    IN /\ Min(ends) <= j.position /\ j.position <= Max(ends)
                       /\ j.velocity * (j.target - j.position) >= 0
                       /\ Distance(j.velocity, 0) <= VelocityLimit(n)
  BY DEF StaysOnCourse
<1> DEFINE p == joint[n].position
           v == joint[n].velocity
           t == joint[n].target
           from == departed[n]
           limit == VelocityLimit(n)
<1>1. joint[n] \in AnyJoint /\ from \in Int /\ limit \in Nat
  BY LimitsAreNatural DEF TwinInv, TwinTyped
<1>2. p \in Int /\ v \in Int /\ t \in Int
  BY <1>1 DEF AnyJoint
<1>3. OnTheWay(p, v, t, from, limit)
  BY <1>1, ACourse DEF TwinInv, OnCourse
<1> HIDE DEF p, v, t, from, limit
<1>4. Min({from, t}) <= p /\ p <= Max({from, t})
  BY <1>1, <1>2, <1>3, LesserOfTwo, GreaterOfTwo DEF OnTheWay
<1>5. v * (t - p) >= 0
  <2> DEFINE e == t - p
  <2>1. /\ e \in Int
        /\ e > 0 => v >= 0
        /\ e < 0 => v <= 0
    BY <1>2, <1>3 DEF OnTheWay
  <2> HIDE DEF e
  <2>2. v * e >= 0
    BY <1>2, <2>1, SameSign
  <2> QED
    BY <2>2 DEF e
<1>6. Distance(v, 0) <= limit
  BY <1>1, <1>2, <1>3, WithinLimit DEF OnTheWay
<1> QED
  BY <1>4, <1>5, <1>6 DEF p, v, t, from, limit

LEMMA TwinStartsStanding == TwinInit => TwinInv
<1> SUFFICES ASSUME TwinInit PROVE TwinInv
  OBVIOUS
<1> DEFINE Velocities == {Plant[n].velocity : n \in DOMAIN Plant}
           Accelerations == {Plant[n].acceleration : n \in DOMAIN Plant}
<1>1. /\ Velocities \subseteq Nat /\ Velocities # {}
      /\ Accelerations \subseteq Nat /\ Accelerations # {}
      /\ \A n \in DOMAIN Plant : Plant[n].home \in Int
  BY PlantAssumption
<1>2. Min(Velocities) \in Nat /\ Min(Accelerations) \in Nat
  BY <1>1, LeastOf
<1>3. /\ mode = [state |-> "IDLE", velocity |-> Min(Velocities),
                 acceleration |-> Min(Accelerations)]
      /\ settling = NoLoop
  BY DEF TwinInit
<1>4. ASSUME NEW n \in DOMAIN Plant
      PROVE  /\ joint[n] \in AnyJoint /\ departed[n] = joint[n].position
             /\ joint[n].velocity = 0 /\ Stands(joint[n])
  BY <1>1 DEF TwinInit, AnyJoint, Stands
<1>5. TwinTyped
  <2>1. mode \in [state : {"IDLE", "EXECUTING", "ESTOP"}, velocity : Nat,
                  acceleration : Nat]
    BY <1>2, <1>3
  <2>2. joint \in [DOMAIN Plant -> AnyJoint] /\ departed \in [DOMAIN Plant -> Int]
    BY <1>1, <1>4 DEF TwinInit
  <2> QED
    BY <1>3, <2>1, <2>2 DEF TwinTyped
<1>6. OnCourse
  BY <1>4, <1>5, LimitsAreNatural, RestIsOnCourse DEF OnCourse
<1> QED
  BY <1>4, <1>5, <1>6 DEF TwinInv, StandsUnlessExecuting, RestsBetween

---------------------------------------------------------------------------
(* That an idle or stopped twin stands needs nothing of the loop.          *)

Fields == {"position", "velocity", "target"}

StandsInv ==
  /\ DOMAIN joint = DOMAIN Plant
  /\ \A n \in DOMAIN Plant : Fields \subseteq DOMAIN joint[n]
  /\ "state" \in DOMAIN mode
  /\ StandsUnlessExecuting

LEMMA FieldsAreKept ==
  ASSUME NEW n \in DOMAIN Plant, Fields \subseteq DOMAIN joint[n], NEW k \in Moved(n)
  PROVE  Fields \subseteq DOMAIN k
<1> DEFINE j == joint[n]
           Driven(v) == IF Arrives(j, j.position + v)
                        THEN [j EXCEPT !.position = j.target, !.velocity = 0]
                        ELSE [j EXCEPT !.position = @ + v, !.velocity = v]
<1>1. \A v : DOMAIN Driven(v) = DOMAIN j
  OBVIOUS
<1>2. k = j \/ \E v : k = Driven(v)
  BY DEF Moved
<1> QED
  BY <1>1, <1>2

LEMMA StandsNextInv == StandsInv /\ [TwinNext]_twin_plant => StandsInv'
<1> SUFFICES ASSUME StandsInv, [TwinNext]_twin_plant PROVE StandsInv'
  OBVIOUS
<1> USE DEF StandsInv, StandsUnlessExecuting
<1>1. ASSUME NEW c \in Commands, Accept(c)
      PROVE  StandsInv'
  <2>1. CASE Representable(c)
    <3>1. /\ joint' = [n \in DOMAIN Plant |-> [joint[n] EXCEPT !.target = Targets(c)[n]]]
          /\ mode' = [state |-> "EXECUTING", velocity |-> c.velocity,
                      acceleration |-> c.acceleration]
      BY <1>1, <2>1 DEF Accept
    <3>2. \A n \in DOMAIN Plant : Fields \subseteq DOMAIN joint'[n]
      BY <3>1
    <3> QED
      BY <3>1, <3>2
  <2>2. CASE ~Representable(c)
    BY <1>1, <2>2 DEF Accept, Stands
  <2> QED
    BY <2>1, <2>2
<1>2. CASE Estop
  <2>1. /\ joint' = [n \in DOMAIN Plant |->
                       [joint[n] EXCEPT !.target = joint[n].position, !.velocity = 0]]
        /\ mode' = [mode EXCEPT !.state = "ESTOP"]
    BY <1>2 DEF Estop
  <2>2. ASSUME NEW n \in DOMAIN Plant
        PROVE  Fields \subseteq DOMAIN joint'[n] /\ Stands(joint'[n])
    <3> DEFINE j == joint[n]
               p == j.position
               k == joint'[n]
    <3>1. Fields \subseteq DOMAIN j
      OBVIOUS
    <3>2. k = [j EXCEPT !.target = p, !.velocity = 0]
      BY <2>1
    <3>5. j.position = p
      OBVIOUS
    <3> HIDE DEF j, p
    <3>3. DOMAIN k = DOMAIN j /\ k.target = p /\ k.velocity = 0 /\ k.position = p
      BY <3>1, <3>2, <3>5 DEF Fields
    <3> QED
      BY <3>1, <3>3 DEF Stands, k
  <2> QED
    BY <2>1, <2>2
<1>3. CASE ResetEstop
  BY <1>3 DEF ResetEstop, Stands
<1>4. CASE Step
  <2>1. CASE mode.state = "ESTOP"
    BY <1>4, <2>1 DEF Step, Stands
  <2>2. CASE mode.state # "ESTOP"
    <3>1. /\ joint' \in [DOMAIN Plant -> UNION {Moved(n) : n \in DOMAIN Plant}]
          /\ \A n \in DOMAIN Plant : joint'[n] \in Moved(n)
          /\ mode' = [mode EXCEPT !.state = StateAfter]
      BY <1>4, <2>2 DEF Step
    <3>2. \A n \in DOMAIN Plant : Fields \subseteq DOMAIN joint'[n]
      BY <3>1, FieldsAreKept
    <3>3. mode'.state = StateAfter
      BY <3>1
    <3>4. StateAfter # "EXECUTING" => \A n \in DOMAIN Plant : Stands(joint[n])
      BY DEF StateAfter
    <3>5. \A n \in DOMAIN Plant : Stands(joint[n]) => joint'[n] = joint[n]
      BY <3>1 DEF Moved
    <3> QED
      BY <3>1, <3>2, <3>3, <3>4, <3>5
  <2> QED
    BY <2>1, <2>2
<1>5. CASE LoopEnds \/ UNCHANGED twin_plant
  BY <1>5 DEF LoopEnds, twin_plant, Stands
<1> QED
  BY <1>1, <1>2, <1>3, <1>4, <1>5 DEF TwinNext

\* A twin that says it is idle or stopped stands at its targets, whether or not its
\* loops were cut short.
THEOREM TwinStandsWhenItSaysSo == TwinSpec => []StandsUnlessExecuting
<1>1. TwinInit => StandsInv
  BY DEF TwinInit, StandsInv, StandsUnlessExecuting, Stands, Fields
<1>2. StandsInv => StandsUnlessExecuting
  BY DEF StandsInv
<1> QED
  BY <1>1, <1>2, StandsNextInv, PTL DEF TwinSpec

\* As long as the loop's budget of steps suffices, the twin is truthful.  A loop that is
\* cut short would leave a joint moving that the next command sends the other way.
LEMMA TruthfulWhileLoopsSettle == TwinSpec /\ []SettlesInTime => []TwinIsTruthful
<1>1. TwinInv /\ SettlesInTime => TwinIsTruthful
  BY InvIsOnCourse DEF TwinInv, TwinIsTruthful
<1> QED
  BY <1>1, TwinStartsStanding, TwinNextInv, PTL DEF TwinSpec

---------------------------------------------------------------------------
(* When the loop's budget of steps suffices.                               *)

\* Where the joint has its home, and where commands that the twin takes send it.
Reach(n) ==
  {Plant[n].home}
    \cup {c.targets[n] : c \in {d \in Commands : /\ n \in DOMAIN d.targets
                                                 /\ d.targets[n] \in Plant[n].lower .. Plant[n].upper}}

\* Every limit permits motion, as configuration and wire have it, and the loop's budget
\* covers the longest way at a pace of one step's acceleration, or at full speed where
\* that is less.
EnoughSteps ==
  /\ \A n \in DOMAIN Plant : Plant[n].velocity > 0 /\ Plant[n].acceleration > 0
  /\ \A c \in Commands : c.velocity > 0 /\ c.acceleration > 0
  /\ \A n \in DOMAIN Plant, c \in Commands : \A a, b \in Reach(n) :
       \A pace \in {Plant[n].velocity, c.velocity, Plant[n].acceleration, c.acceleration} :
         b - a <= (MaxSteps - 1) * pace

\* x is not beyond all that the joint may be sent to.
Spanned(n, x) == \E a, b \in Reach(n) : a <= x /\ x <= b

\* A joint under way comes at least so much nearer in a step.
Pace(n) == Min({VelocityLimit(n), AccelerationLimit(n)})

Steps == IF settling = NoLoop THEN 0 ELSE settling

\* A joint that does not stand yet has come nearer by its pace in every step so far.
OnSchedule(j, from, covered) ==
  \/ Stands(j)
  \/ /\ j.position # j.target
     /\ Distance(j.target, j.position) + covered <= Distance(j.target, from)

BudgetInv ==
  /\ \A n \in DOMAIN Plant : Spanned(n, departed[n]) /\ Spanned(n, joint[n].target)
  /\ mode.state = "EXECUTING" =>
       /\ \E c \in Commands : mode.velocity = c.velocity /\ mode.acceleration = c.acceleration
       /\ Steps < MaxSteps
       /\ \A n \in DOMAIN Plant : OnSchedule(joint[n], departed[n], Steps * Pace(n))

\* A root at braking is no less than the acceleration or than the whole way.
LEMMA RootIsPaced ==
  ASSUME NEW a \in Nat, NEW d \in Nat, d > 0, NEW r \in Roots(2 * a * d)
  PROVE  r \in Nat /\ (a <= r \/ d <= r)
<1>1. r \in Nat /\ (r + 1) * (r + 1) > 2 * a * d
  BY DEF Roots
<1>2. ASSUME r + 1 <= a, r + 1 <= d
      PROVE  FALSE
  <2> DEFINE s == r + 1
  <2>1. s \in Nat /\ s <= a /\ s <= d
    BY <1>1, <1>2
  <2>2. s * s > 2 * a * d
    BY <1>1
  <2> HIDE DEF s
  <2>3. s * s <= a * s
    BY <2>1
  <2>4. a * s <= a * d
    BY <2>1
  <2>5. a * d \in Nat /\ 2 * a * d = 2 * (a * d)
    OBVIOUS
  <2> QED
    BY <2>1, <2>2, <2>3, <2>4, <2>5
<1> QED
  BY <1>1, <1>2

\* A velocity that is not against the way becomes at least so much.
LEMMA TowardIsPaced ==
  ASSUME NEW u \in Int, NEW slow \in Nat, NEW most \in Nat, NEW m \in Nat,
         m <= slow, m <= most
  PROVE  /\ u >= 0 => Toward(u, slow, most) >= m
         /\ u <= 0 => Toward(u, -slow, most) <= -m
  BY DEF Toward, Distance, Sign

\* From p to t by v, if the target is neither met nor passed.
LEMMA NearerByPace ==
  ASSUME NEW p \in Int, NEW t \in Int, NEW v \in Int, NEW m \in Nat,
         (p < t /\ v >= m) \/ (t < p /\ v <= -m),
         ~((t - p) * (t - (p + v)) <= 0)
  PROVE  p + v # t /\ Distance(t, p + v) + m <= Distance(t, p)
<1> DEFINE error == t - p
           rest == t - (p + v)
<1>1. error \in Int /\ rest \in Int
  OBVIOUS
<1> HIDE DEF error, rest
<1>2. /\ error > 0 => rest > 0
      /\ error < 0 => rest < 0
      /\ error # 0
  BY <1>1, PassedOrNot DEF error, rest
<1>3. /\ p < t => p + v < t
      /\ t < p => t < p + v
  BY <1>2 DEF error, rest
<1> QED
  BY <1>3 DEF Distance

\* And by the whole way or more it is met or passed.
LEMMA WholeWayArrives ==
  ASSUME NEW p \in Int, NEW t \in Int, NEW v \in Int,
         (p < t /\ v >= t - p) \/ (t < p /\ v <= t - p)
  PROVE  (t - p) * (t - (p + v)) <= 0
<1> DEFINE error == t - p
           rest == t - (p + v)
<1>1. error \in Int /\ rest \in Int
  OBVIOUS
<1>2. (error > 0 /\ rest <= 0) \/ (error < 0 /\ rest >= 0)
  OBVIOUS
<1> HIDE DEF error, rest
<1>3. error * rest <= 0
  BY <1>1, <1>2, PassedOrNot
<1> QED
  BY <1>3 DEF error, rest

LEMMA PaceIs ==
  ASSUME TwinTyped, NEW n \in DOMAIN Plant
  PROVE  Pace(n) \in Nat /\ Pace(n) <= VelocityLimit(n) /\ Pace(n) <= AccelerationLimit(n)
<1> DEFINE v == VelocityLimit(n)
           a == AccelerationLimit(n)
<1>1. v \in Nat /\ a \in Nat
  BY LimitsAreNatural
<1>2. Pace(n) = Min({v, a})
  BY DEF Pace
<1> HIDE DEF v, a
<1>3. Min({v, a}) \in Nat /\ Min({v, a}) <= v /\ Min({v, a}) <= a
  BY <1>1, LesserIsNatural, LesserOfTwo
<1> QED
  BY <1>2, <1>3 DEF v, a

\* A step brings a joint that is under way nearer by its pace, unless it arrives.
LEMMA MovedIsPaced ==
  ASSUME TwinTyped, NEW n \in DOMAIN Plant, NEW k \in Moved(n),
         Course(joint[n], departed[n], VelocityLimit(n)),
         joint[n].position # joint[n].target
  PROVE  \/ Stands(k)
         \/ /\ k.position # k.target /\ k.target = joint[n].target
            /\ Distance(k.target, k.position) + Pace(n)
                 <= Distance(joint[n].target, joint[n].position)
<1> DEFINE j == joint[n]
           from == departed[n]
           limit == VelocityLimit(n)
           most == AccelerationLimit(n)
           m == Pace(n)
           error == j.target - j.position
           Speed(r) == Toward(j.velocity, Sign(error) * Min({limit, r}), most)
           Onward(v) == IF Arrives(j, j.position + v)
                        THEN [j EXCEPT !.position = j.target, !.velocity = 0]
                        ELSE [j EXCEPT !.position = j.position + v, !.velocity = v]
           all == Roots(2 * most * Distance(error, 0))
<1>1. PICK r \in all : k = Onward(Speed(r))
  BY DEF Moved, Stands
<1>2. j \in AnyJoint /\ from \in Int /\ limit \in Nat /\ most \in Nat
  BY LimitsAreNatural DEF TwinTyped
<1>3. m \in Nat /\ m <= limit /\ m <= most
  BY PaceIs
<1> DEFINE p == j.position
           u == j.velocity
           t == j.target
           d == Distance(t - p, 0)
           slow == Min({limit, r})
           v == Toward(u, Sign(t - p) * slow, most)
<1>4. p \in Int /\ u \in Int /\ t \in Int /\ p # t
  BY <1>2 DEF AnyJoint
<1>5. OnTheWay(p, u, t, from, limit)
  BY <1>2, ACourse
<1>6. k = IF (t - p) * (t - (p + v)) <= 0
          THEN [j EXCEPT !.position = t, !.velocity = 0]
          ELSE [j EXCEPT !.position = p + v, !.velocity = v]
  BY <1>1 DEF Arrives
<1>7. j = [position |-> p, velocity |-> u, target |-> t]
  BY <1>2, AJoint
<1>8. r \in Roots(2 * most * d)
  BY <1>1
<1>9. Distance(j.target, j.position) = Distance(t, p)
  OBVIOUS
<1> HIDE DEF j, from, limit, most, m, p, u, t, v, d
<1>10. d \in Nat /\ d > 0 /\ (p < t => d = t - p) /\ (t < p => d = p - t)
  BY <1>4 DEF d, Distance
<1>11. r \in Nat /\ (most <= r \/ d <= r)
  BY <1>2, <1>8, <1>10, RootIsPaced
<1>12. slow \in Nat /\ (slow = limit \/ slow = r) /\ slow <= limit /\ slow <= r
  <2>1. Min({limit, r}) \in Nat /\ Min({limit, r}) <= limit
    BY <1>2, <1>11, LesserIsNatural
  <2>3. limit \in Int /\ r \in Int
    BY <1>2, <1>11
  <2>2. Min({limit, r}) \in {limit, r} /\ Min({limit, r}) <= r
    BY <2>3, LesserOfTwo
  <2> QED
    BY <2>1, <2>2
<1> HIDE DEF slow
<1>13. (p < t => v = Toward(u, slow, most)) /\ (t < p => v = Toward(u, -slow, most))
  BY <1>4, <1>12 DEF v, Sign
<1>14. (p < t => u >= 0) /\ (t < p => u <= 0)
  BY <1>5 DEF OnTheWay
<1>15. v \in Int
  <2>1. slow \in Int /\ -slow \in Int
    BY <1>12
  <2>2. Toward(u, slow, most) \in Int /\ Toward(u, -slow, most) \in Int
    BY <1>2, <1>4, <2>1, TowardIsBetween
  <2> QED
    BY <1>4, <1>13, <2>2
\* The speed is at least the pace, or the rest of the way if that is less.
<1>16. CASE m <= slow
  <2>4. /\ u >= 0 => Toward(u, slow, most) >= m
        /\ u <= 0 => Toward(u, -slow, most) <= -m
    BY <1>2, <1>3, <1>4, <1>12, <1>16, TowardIsPaced
  <2>1. (p < t /\ v >= m) \/ (t < p /\ v <= -m)
    <3>1. p < t => v >= m
      BY <1>13, <1>14, <2>4
    <3>2. t < p => v <= -m
      BY <1>13, <1>14, <2>4
    <3> QED
      BY <1>4, <3>1, <3>2
  <2>2. CASE (t - p) * (t - (p + v)) <= 0
    <3>1. k = [j EXCEPT !.position = t, !.velocity = 0]
      BY <1>6, <2>2
    <3>2. k = [position |-> t, velocity |-> 0, target |-> t]
      BY <1>7, <3>1
    <3> QED
      BY <3>2 DEF Stands
  <2>3. CASE ~((t - p) * (t - (p + v)) <= 0)
    <3>1. k = [j EXCEPT !.position = p + v, !.velocity = v]
      BY <1>6, <2>3
    <3>4. k = [position |-> p + v, velocity |-> v, target |-> t]
      BY <1>7, <3>1
    <3>2. p + v # t /\ Distance(t, p + v) + m <= Distance(t, p)
      BY <1>3, <1>4, <1>15, <2>1, <2>3, NearerByPace
    <3>3. k.position = p + v /\ k.target = t
      BY <3>4
    <3> QED
      BY <1>9, <3>2, <3>3 DEF m, t, p, j
  <2> QED
    BY <2>2, <2>3
<1>17. CASE ~(m <= slow)
  <2>1. slow = r /\ r < m /\ r < most
    BY <1>2, <1>3, <1>11, <1>12, <1>17
  <2>2. d <= slow /\ d <= most
    BY <1>2, <1>10, <1>11, <2>1
  <2>7. /\ u >= 0 => Toward(u, slow, most) >= d
        /\ u <= 0 => Toward(u, -slow, most) <= -d
    BY <1>2, <1>4, <1>10, <1>12, <2>2, TowardIsPaced
  <2>3. (p < t /\ v >= d) \/ (t < p /\ v <= -d)
    <3>1. p < t => v >= d
      BY <1>13, <1>14, <2>7
    <3>2. t < p => v <= -d
      BY <1>13, <1>14, <2>7
    <3> QED
      BY <1>4, <3>1, <3>2
  <2>4. (t - p) * (t - (p + v)) <= 0
    BY <1>4, <1>10, <1>15, <2>3, WholeWayArrives
  <2>5. k = [j EXCEPT !.position = t, !.velocity = 0]
    BY <1>6, <2>4
  <2>6. k = [position |-> t, velocity |-> 0, target |-> t]
    BY <1>7, <2>5
  <2> QED
    BY <2>6 DEF Stands
<1> QED
  BY <1>16, <1>17

\* Wherever a joint is sent is a whole number.
LEMMA ReachIsWhole ==
  ASSUME NEW n \in DOMAIN Plant
  PROVE  Reach(n) \subseteq Int
<1>1. Plant[n].home \in Int
  BY PlantAssumption
<1>2. ASSUME NEW c \in Commands, n \in DOMAIN c.targets
      PROVE  c.targets[n] \in Int
  BY <1>2, PlantAssumption
<1> QED
  BY <1>1, <1>2 DEF Reach

\* Where a joint is, on a way between two spanned ends, is spanned.
LEMMA BetweenSpanned ==
  ASSUME NEW n \in DOMAIN Plant, NEW from \in Int, NEW t \in Int, NEW p \in Int,
         Spanned(n, from), Spanned(n, t),
         (from <= p /\ p <= t) \/ (t <= p /\ p <= from)
  PROVE  Spanned(n, p)
<1>1. Reach(n) \subseteq Int
  BY ReachIsWhole
<1>2. PICK a, b \in Reach(n) : a <= from /\ from <= b
  BY DEF Spanned
<1>3. PICK c, d \in Reach(n) : c <= t /\ t <= d
  BY DEF Spanned
<1>4. a \in Int /\ b \in Int /\ c \in Int /\ d \in Int
  BY <1>1
<1>5. CASE from <= p /\ p <= t
  <2>1. a <= p /\ p <= d
    BY <1>2, <1>3, <1>4, <1>5
  <2> QED
    BY <2>1 DEF Spanned
<1>6. CASE t <= p /\ p <= from
  <2>1. c <= p /\ p <= b
    BY <1>2, <1>3, <1>4, <1>6
  <2> QED
    BY <2>1 DEF Spanned
<1> QED
  BY <1>5, <1>6

\* A command's pace is more than nothing, and at it the longest way takes fewer steps
\* than the loop has.
LEMMA PaceSuffices ==
  ASSUME EnoughSteps, TwinTyped, NEW n \in DOMAIN Plant, NEW c \in Commands,
         mode.velocity = c.velocity, mode.acceleration = c.acceleration,
         NEW x \in Int, NEW y \in Int, Spanned(n, x), Spanned(n, y)
  PROVE  /\ Pace(n) \in Nat /\ Pace(n) > 0
         /\ Distance(x, y) <= (MaxSteps - 1) * Pace(n)
<1> DEFINE V == Plant[n].velocity
           A == Plant[n].acceleration
<1>1. /\ V \in Nat /\ V > 0 /\ A \in Nat /\ A > 0
      /\ c.velocity \in Nat /\ c.velocity > 0 /\ c.acceleration \in Nat /\ c.acceleration > 0
  BY PlantAssumption DEF EnoughSteps
<1>2. Pace(n) \in {V, c.velocity, A, c.acceleration}
  <2> DEFINE v == c.velocity
             a == c.acceleration
  <2>1. VelocityLimit(n) = Min({V, v}) /\ AccelerationLimit(n) = Min({A, a})
    BY DEF VelocityLimit, AccelerationLimit
  <2>2. V \in Int /\ A \in Int /\ v \in Int /\ a \in Int
    BY <1>1
  <2> HIDE DEF V, A, v, a
  <2>3. VelocityLimit(n) \in {V, v} /\ AccelerationLimit(n) \in {A, a}
    BY <2>1, <2>2, LesserOfTwo
  <2>4. VelocityLimit(n) \in Int /\ AccelerationLimit(n) \in Int
    BY <2>2, <2>3
  <2>5. Pace(n) \in {VelocityLimit(n), AccelerationLimit(n)}
    BY <2>4, LesserOfTwo DEF Pace
  <2> QED
    BY <2>3, <2>5 DEF v, a
<1>3. Pace(n) \in Nat /\ Pace(n) > 0
  BY <1>1, <1>2
<1>4. \A a, b \in Reach(n) : b - a <= (MaxSteps - 1) * Pace(n)
  BY <1>2 DEF EnoughSteps
<1>5. Reach(n) \subseteq Int
  BY ReachIsWhole
<1>6. PICK a, b \in Reach(n) : a <= x /\ x <= b
  BY DEF Spanned
<1>7. PICK d, e \in Reach(n) : d <= y /\ y <= e
  BY DEF Spanned
<1> DEFINE most == (MaxSteps - 1) * Pace(n)
<1>8. most \in Int
  BY <1>3, TwinAssumption
<1>9. b - d <= most /\ e - a <= most
  BY <1>4, <1>6, <1>7
<1>10. a \in Int /\ b \in Int /\ d \in Int /\ e \in Int
  BY <1>5, <1>6, <1>7
<1> HIDE DEF most
<1>11. Distance(x, y) <= most
  BY <1>6, <1>7, <1>8, <1>9, <1>10 DEF Distance
<1> QED
  BY <1>3, <1>11 DEF most

\* A product keeps an order.
LEMMA TimesKeeps ==
  ASSUME NEW a \in Int, NEW b \in Int, NEW m \in Int, m > 0, a >= b
  PROVE  a * m >= b * m
<1> DEFINE d == a - b
<1>1. d \in Int /\ d >= 0 /\ a = b + d
  OBVIOUS
<1> HIDE DEF d
<1>2. d * m >= 0
  BY <1>1
<1>3. (b + d) * m = b * m + d * m
  BY <1>1
<1>4. b * m \in Int /\ d * m \in Int
  BY <1>1
<1> QED
  BY <1>1, <1>2, <1>3, <1>4

LEMMA BudgetStart == TwinInit => BudgetInv
<1> SUFFICES ASSUME TwinInit PROVE BudgetInv
  OBVIOUS
<1>1. mode.state = "IDLE"
  BY DEF TwinInit
<1>2. ASSUME NEW n \in DOMAIN Plant
      PROVE  Spanned(n, departed[n]) /\ Spanned(n, joint[n].target)
  <2>1. departed[n] = Plant[n].home /\ joint[n].target = Plant[n].home
    BY DEF TwinInit
  <2>2. Plant[n].home \in Reach(n) /\ Plant[n].home \in Int
    BY PlantAssumption DEF Reach
  <2>3. Plant[n].home <= Plant[n].home
    BY <2>2
  <2> QED
    BY <2>1, <2>2, <2>3 DEF Spanned
<1> QED
  BY <1>1, <1>2 DEF BudgetInv

LEMMA BudgetSettles == TwinInv /\ BudgetInv => SettlesInTime
<1> SUFFICES ASSUME TwinInv, BudgetInv, settling = MaxSteps
             PROVE  mode.state \in {"IDLE", "ESTOP"}
  BY DEF SettlesInTime
<1>1. Steps = MaxSteps /\ ~(Steps < MaxSteps)
  BY TwinAssumption DEF Steps, NoLoop
<1>2. mode.state # "EXECUTING"
  BY <1>1 DEF BudgetInv
<1> QED
  BY <1>2 DEF TwinInv, TwinTyped

LEMMA AcceptKeepsBudget ==
  ASSUME TwinInv, BudgetInv, NEW c \in Commands, Accept(c)
  PROVE  BudgetInv'
<1>1. CASE Representable(c)
  <2>1. /\ joint' = [n \in DOMAIN Plant |-> [joint[n] EXCEPT !.target = Targets(c)[n]]]
        /\ mode' = [state |-> "EXECUTING", velocity |-> c.velocity,
                    acceleration |-> c.acceleration]
        /\ departed' = [n \in DOMAIN Plant |-> joint[n].position]
        /\ settling' = settling /\ settling = NoLoop
    BY <1>1 DEF Accept
  <2>2. Steps' = 0 /\ Steps' < MaxSteps
    BY <2>1, TwinAssumption DEF Steps
  <2>3. ASSUME NEW n \in DOMAIN Plant
        PROVE  /\ Spanned(n, departed'[n]) /\ Spanned(n, joint'[n].target)
               /\ OnSchedule(joint'[n], departed'[n], Steps' * Pace(n)')
    <3> DEFINE j == joint[n]
               t == Targets(c)[n]
               k == joint'[n]
               p == j.position
    <3>1. j \in AnyJoint /\ j.velocity = 0 /\ p \in Int /\ j.target \in Int /\ departed[n] \in Int
      BY <2>1 DEF TwinInv, TwinTyped, RestsBetween, AnyJoint
    <3>2. t \in Int
      BY <3>1, PlantAssumption DEF Targets, AnyJoint
    <3>3. Spanned(n, departed[n]) /\ Spanned(n, j.target)
      BY DEF BudgetInv
    <3>4. Spanned(n, p)
      <4>1. (departed[n] <= p /\ p <= j.target) \/ (j.target <= p /\ p <= departed[n])
        BY DEF TwinInv, OnCourse, Course
      <4> QED
        BY <3>1, <3>3, <4>1, BetweenSpanned
    <3>5. Spanned(n, t)
      <4>1. CASE n \in DOMAIN c.targets
        <5>1. t = c.targets[n] /\ t \in Plant[n].lower .. Plant[n].upper
          BY <1>1, <4>1 DEF Targets, Representable
        <5>2. t \in Reach(n)
          BY <4>1, <5>1 DEF Reach
        <5>3. t <= t
          BY <3>2
        <5> QED
          BY <5>2, <5>3 DEF Spanned
      <4>2. CASE n \notin DOMAIN c.targets
        BY <3>3, <4>2 DEF Targets
      <4> QED
        BY <4>1, <4>2
    <3>6. departed'[n] = p /\ k = [j EXCEPT !.target = t]
      BY <2>1
    <3>7. j = [position |-> p, velocity |-> 0, target |-> j.target]
      BY <3>1, AJoint
    <3>8. Steps' * Pace(n)' = 0
      <4>1. Pace(n)' \in Int
        <5>1. /\ mode'.velocity \in Nat /\ mode'.acceleration \in Nat
              /\ Plant[n].velocity \in Nat /\ Plant[n].acceleration \in Nat
          BY <2>1, PlantAssumption
        <5>2. VelocityLimit(n)' \in Nat /\ AccelerationLimit(n)' \in Nat
          BY <5>1, LesserIsNatural DEF VelocityLimit, AccelerationLimit
        <5> QED
          BY <5>2, LesserIsNatural DEF Pace
      <4> QED
        BY <2>2, <4>1
    <3> HIDE DEF j, t, k, p
    <3>9. k = [position |-> p, velocity |-> 0, target |-> t]
      BY <3>6, <3>7
    <3>10. k.position = p /\ k.velocity = 0 /\ k.target = t
      BY <3>9
    <3>11. Distance(t, p) \in Int
      BY <3>1, <3>2 DEF Distance
    <3>12. OnSchedule(k, p, 0)
      BY <3>10, <3>11 DEF OnSchedule, Stands
    <3> QED
      BY <3>4, <3>5, <3>6, <3>8, <3>10, <3>12 DEF k
  <2>4. mode'.velocity = c.velocity /\ mode'.acceleration = c.acceleration
    BY <2>1
  <2> QED
    BY <2>2, <2>3, <2>4 DEF BudgetInv, Spanned
<1>2. CASE ~Representable(c)
  BY <1>2 DEF Accept, BudgetInv, Steps, Pace, VelocityLimit, AccelerationLimit
<1> QED
  BY <1>1, <1>2

\* One step of the joints, while the loop has not run out.
LEMMA StepKeepsBudget ==
  ASSUME EnoughSteps, TwinInv, BudgetInv, Step
  PROVE  BudgetInv'
<1>1. CASE mode.state = "ESTOP"
  <2>1. mode' = mode /\ joint' = joint /\ departed' = departed
    BY <1>1 DEF Step
  <2> QED
    BY <1>1, <2>1 DEF BudgetInv
<1>2. CASE mode.state # "ESTOP"
  <2>1. /\ joint' \in [DOMAIN Plant -> UNION {Moved(n) : n \in DOMAIN Plant}]
        /\ \A n \in DOMAIN Plant : joint'[n] \in Moved(n)
        /\ mode' = [mode EXCEPT !.state = StateAfter]
        /\ departed' = departed
        /\ mode.state = "EXECUTING"
        /\ settling' = IF settling = NoLoop THEN 1 ELSE settling + 1
    BY <1>2 DEF Step, TwinInv, TwinTyped
  <2>2. /\ mode'.velocity = mode.velocity /\ mode'.acceleration = mode.acceleration
        /\ mode'.state = StateAfter
    BY <2>1 DEF TwinInv, TwinTyped
  <2>3. PICK c \in Commands : mode.velocity = c.velocity /\ mode.acceleration = c.acceleration
    BY <2>1 DEF BudgetInv
  <2>4. Steps \in Nat /\ Steps' = Steps + 1
    BY <2>1 DEF Steps, NoLoop, TwinInv, TwinTyped
  <2>5. \A n \in DOMAIN Plant :
          Pace(n)' = Pace(n) /\ VelocityLimit(n)' = VelocityLimit(n)
    BY <2>2 DEF Pace, VelocityLimit, AccelerationLimit
  <2>6. ASSUME NEW n \in DOMAIN Plant
        PROVE  /\ joint'[n].target = joint[n].target
               /\ OnSchedule(joint'[n], departed[n], (Steps + 1) * Pace(n))
               /\ ~Stands(joint[n]) => Steps + 1 < MaxSteps
    <3> DEFINE j == joint[n]
               k == joint'[n]
               m == Pace(n)
               from == departed[n]
    <3>1. k \in Moved(n) /\ Course(j, from, VelocityLimit(n)) /\ TwinTyped
      BY <2>1 DEF TwinInv, OnCourse
    <3>2. k \in AnyJoint /\ k.target = j.target
      BY <3>1, MovedKeepsCourse
    <3>3. OnSchedule(j, from, Steps * m)
      BY <2>1 DEF BudgetInv
    <3>4. /\ m \in Nat /\ m > 0
          /\ Distance(j.target, from) <= (MaxSteps - 1) * m
      <4>1. Spanned(n, j.target) /\ Spanned(n, from) /\ j.target \in Int /\ from \in Int
        BY <3>1 DEF BudgetInv, TwinTyped, AnyJoint
      <4> QED
        BY <2>3, <3>1, <4>1, PaceSuffices
    <3>5. CASE Stands(j)
      <4>1. k = j
        BY <3>1, <3>5 DEF Moved
      <4> QED
        BY <3>2, <3>5, <4>1 DEF OnSchedule
    <3>6. CASE ~Stands(j)
      <4> DEFINE rest == Distance(j.target, j.position)
                 way == Distance(j.target, from)
      <4>1. j.position # j.target /\ rest + Steps * m <= way
        BY <3>3, <3>6 DEF OnSchedule
      <4>2. rest \in Nat /\ rest > 0 /\ way \in Int
        <5>1. j.target \in Int /\ j.position \in Int /\ from \in Int
          BY <3>1 DEF TwinTyped, AnyJoint
        <5> QED
          BY <4>1, <5>1 DEF Distance
      <4>3. \/ Stands(k)
            \/ /\ k.position # k.target
               /\ Distance(k.target, k.position) + m <= rest
        BY <3>1, <4>1, MovedIsPaced
      <4>4. Distance(k.target, k.position) \in Int
        BY <3>2 DEF AnyJoint, Distance
      <4>5. Steps * m \in Int /\ (Steps + 1) * m = Steps * m + m
        BY <2>4, <3>4
      <4>6. OnSchedule(k, from, (Steps + 1) * m)
        <5> DEFINE left == Distance(k.target, k.position)
                   made == Steps * m
        <5>1. ASSUME left + m <= rest
              PROVE  left + (Steps + 1) * m <= way
          <6> HIDE DEF left, made, rest, way, m
          <6>1. left + (made + m) <= way
            BY <3>4, <4>1, <4>2, <4>4, <4>5, <5>1 DEF left, made
          <6> QED
            BY <4>5, <6>1 DEF made
        <5> QED
          BY <3>2, <4>3, <5>1 DEF OnSchedule
      <4>7. Steps + 1 < MaxSteps
        <5> DEFINE made == Steps * m
                   all == (MaxSteps - 1) * m
        <5>1. made \in Int /\ all \in Int
          BY <2>4, <3>4, TwinAssumption
        <5> HIDE DEF made, all, rest, way
        <5>2. made < all
          BY <3>4, <4>1, <4>2, <5>1 DEF made, all, way
        <5> HIDE DEF m
        <5>3. Steps < MaxSteps - 1
          <6>1. MaxSteps - 1 \in Int /\ Steps \in Int /\ m \in Int /\ m > 0
            BY <2>4, <3>4, TwinAssumption
          <6>2. ASSUME Steps >= MaxSteps - 1
                PROVE  made >= all
            BY <2>4, <6>1, <6>2, TimesKeeps DEF made, all
          <6> QED
            BY <5>1, <5>2, <6>1, <6>2
        <5> QED
          BY <2>4, <5>3, TwinAssumption
      <4> QED
        BY <3>2, <4>6, <4>7
    <3> QED
      BY <3>5, <3>6
  <2>7. mode'.state = "EXECUTING" => Steps' < MaxSteps
    BY <2>2, <2>4, <2>6 DEF StateAfter
  <2>8. \A n \in DOMAIN Plant : Spanned(n, departed'[n]) /\ Spanned(n, joint'[n].target)
    BY <2>1, <2>6 DEF BudgetInv
  <2>9. \A n \in DOMAIN Plant : OnSchedule(joint'[n], departed'[n], Steps' * Pace(n)')
    BY <2>1, <2>4, <2>5, <2>6
  <2> QED
    BY <2>2, <2>3, <2>7, <2>8, <2>9 DEF BudgetInv, Spanned
<1> QED
  BY <1>1, <1>2

LEMMA BudgetNext ==
  EnoughSteps /\ TwinInv /\ BudgetInv /\ [TwinNext]_twin_plant => BudgetInv'
<1> SUFFICES ASSUME EnoughSteps, TwinInv, BudgetInv, [TwinNext]_twin_plant PROVE BudgetInv'
  OBVIOUS
<1>1. ASSUME NEW c \in Commands, Accept(c)
      PROVE  BudgetInv'
  BY <1>1, AcceptKeepsBudget
<1>2. CASE Estop
  <2>1. /\ joint' = [n \in DOMAIN Plant |->
                       [joint[n] EXCEPT !.target = joint[n].position, !.velocity = 0]]
        /\ mode' = [mode EXCEPT !.state = "ESTOP"]
        /\ departed' = departed
    BY <1>2 DEF Estop
  <2>2. mode'.state = "ESTOP"
    BY <2>1 DEF TwinInv, TwinTyped
  <2>3. ASSUME NEW n \in DOMAIN Plant
        PROVE  Spanned(n, joint'[n].target)
    <3> DEFINE j == joint[n]
               p == j.position
    <3>1. j \in AnyJoint /\ p \in Int /\ j.target \in Int /\ departed[n] \in Int
      BY DEF TwinInv, TwinTyped, AnyJoint
    <3>2. Spanned(n, departed[n]) /\ Spanned(n, j.target)
      BY DEF BudgetInv
    <3>3. (departed[n] <= p /\ p <= j.target) \/ (j.target <= p /\ p <= departed[n])
      BY DEF TwinInv, OnCourse, Course
    <3>4. Spanned(n, p)
      BY <3>1, <3>2, <3>3, BetweenSpanned
    <3>5. joint'[n] = [j EXCEPT !.target = p, !.velocity = 0]
      BY <2>1
    <3>6. j = [position |-> p, velocity |-> j.velocity, target |-> j.target]
      BY <3>1, AJoint
    <3> HIDE DEF j, p
    <3>7. joint'[n].target = p
      BY <3>5, <3>6
    <3> QED
      BY <3>4, <3>7
  <2> QED
    BY <2>1, <2>2, <2>3 DEF BudgetInv
<1>3. CASE ResetEstop
  <2>1. mode' = [mode EXCEPT !.state = "IDLE"] /\ UNCHANGED <<joint, settling, departed>>
    BY <1>3 DEF ResetEstop
  <2>2. mode'.state = "IDLE"
    BY <2>1 DEF TwinInv, TwinTyped
  <2> QED
    BY <2>1, <2>2 DEF BudgetInv
<1>4. CASE Step
  BY <1>4, StepKeepsBudget
<1>5. CASE LoopEnds
  <2>1. mode.state # "EXECUTING"
    BY <1>5, BudgetSettles DEF LoopEnds, SettlesInTime
  <2>2. UNCHANGED <<joint, mode, departed>>
    BY <1>5 DEF LoopEnds
  <2> QED
    BY <2>1, <2>2 DEF BudgetInv
<1>6. CASE UNCHANGED twin_plant
  BY <1>6 DEF twin_plant, BudgetInv, Steps, Pace, VelocityLimit, AccelerationLimit
<1> QED
  BY <1>1, <1>2, <1>3, <1>4, <1>5, <1>6 DEF TwinNext

\* The loop's budget of steps suffices, however square roots are rounded and whatever
\* was commanded, stopped or refused, if no limit forbids motion and the longest way is
\* no longer than the loop makes at the pace of one step's acceleration.
THEOREM TwinSettlesInTime ==
  ASSUME EnoughSteps PROVE TwinSpec => []SettlesInTime
<1> DEFINE I == TwinInv /\ BudgetInv
<1>1. TwinInit => I
  BY TwinStartsStanding, BudgetStart
<1>2. I /\ [TwinNext]_twin_plant => I'
  BY EnoughSteps, BudgetSettles, TwinNextInv, BudgetNext
<1>3. I => SettlesInTime
  BY BudgetSettles
<1> QED
  BY <1>1, <1>2, <1>3, PTL DEF TwinSpec

\* With limits that permit motion and such a budget: whatever is commanded, stopped or
\* refused, every joint stays on the way from where it stood to its target, never turns
\* round, keeps within its limits, arrives in time, and stands when the twin says so.
THEOREM TwinIsTruthfulAlways ==
  ASSUME EnoughSteps PROVE TwinSpec => []TwinIsTruthful
<1> QED
  BY TwinSettlesInTime, TruthfulWhileLoopsSettle, PTL

---------------------------------------------------------------------------
(* The health monitor: the bus under it, which has one handler.            *)

WorkerStates ==
  {Bus!Gone, Bus!Getting}
    \cup [pc : {"dispatching"}, item : Bus!Items, todo : {<<"subscriber">>}]

BusTyped ==
  /\ running \in BOOLEAN /\ stop_call \in {"none", "joining", "joined"}
  /\ subscribed = <<"subscriber">>
  /\ queue \in SUBSET Bus!Items /\ IsFiniteSet(queue)
  /\ waiting \in SUBSET [by : Runners, item : Bus!Items]
  /\ next_number \in Nat
  /\ worker \in [Workers -> WorkerStates]
  /\ failures \in SUBSET (Nat \X {"subscriber"})

Counted ==
  /\ Cardinality(queue) <= QueueSize
  /\ unfinished = Cardinality(queue) + Cardinality(Bus!Busy)
  /\ ~running => \A w \in Workers : worker[w] = Bus!Gone

\* No number is given out twice, to an item in the queue or to one that waits.
Numbered ==
  /\ \A i \in queue : i.number < next_number
  /\ \A i, j \in queue : i.number = j.number => i = j
  /\ \A p \in waiting :
       /\ p.item.number < next_number
       /\ \A i \in queue : i.number # p.item.number
       /\ \A q \in waiting : q.item.number = p.item.number => q = p

BusInv == BusTyped /\ Counted /\ Numbered

LEMMA BusCounts == \A S : Bus!Cardinality(S) = Cardinality(S)
  BY DEF Bus!Cardinality, Cardinality

LEMMA ItemIs ==
  ASSUME NEW i \in Bus!Items
  PROVE  i.priority \in {0, 10, 20} /\ i.number \in Nat /\ i.event \in Changes
  BY DEF Bus!Items, Bus!CRITICAL, Bus!HIGH, Bus!NORMAL

LEMMA WorkerIs ==
  ASSUME BusTyped
  PROVE  /\ Bus!Busy \subseteq Workers /\ IsFiniteSet(Bus!Busy)
         /\ \A w \in Bus!Busy :
              /\ worker[w] = Bus!Dispatching(worker[w].item, <<"subscriber">>)
              /\ worker[w].item \in Bus!Items /\ worker[w].todo = <<"subscriber">>
         /\ \A w \in Workers \ Bus!Busy : worker[w] \in {Bus!Gone, Bus!Getting}
<1>1. Bus!Busy \subseteq Workers
  BY DEF Bus!Busy
<1>2. IsFiniteSet(Bus!Busy)
  BY <1>1, FS_Subset, HealthAssumption
<1>3. \A w \in Workers : worker[w] \in WorkerStates
  BY DEF BusTyped
<1>4. ASSUME NEW w \in Bus!Busy
      PROVE  worker[w] \in [pc : {"dispatching"}, item : Bus!Items, todo : {<<"subscriber">>}]
  BY <1>1, <1>3 DEF Bus!Busy, WorkerStates, Bus!Gone, Bus!Getting
<1>5. ASSUME NEW w \in Workers \ Bus!Busy
      PROVE  worker[w] \in {Bus!Gone, Bus!Getting}
  BY <1>3 DEF Bus!Busy, WorkerStates
<1> QED
  BY <1>1, <1>2, <1>4, <1>5 DEF Bus!Dispatching

\* Who is busy after a step of one worker.
LEMMA BusyAfter ==
  ASSUME BusTyped, NEW w \in Workers, NEW x \in WorkerStates,
         worker' = [worker EXCEPT ![w] = x]
  PROVE  /\ worker' \in [Workers -> WorkerStates] /\ worker'[w] = x
         /\ \A v \in Workers \ {w} : worker'[v] = worker[v]
         /\ Bus!Busy' = IF x.pc = "dispatching" THEN Bus!Busy \cup {w}
                        ELSE Bus!Busy \ {w}
<1>1. /\ worker' \in [Workers -> WorkerStates] /\ worker'[w] = x
      /\ \A v \in Workers \ {w} : worker'[v] = worker[v]
  BY DEF BusTyped
<1>2. Bus!Busy' = {v \in Workers : worker'[v].pc = "dispatching"}
  BY DEF Bus!Busy
<1> QED
  BY <1>1, <1>2 DEF Bus!Busy

\* The heap has a least item, since no two have the same number.
LEMMA FirstComesFirst ==
  ASSUME BusTyped, Numbered, queue # {}
  PROVE  /\ Bus!FirstItem \in queue
         /\ \A j \in queue \ {Bus!FirstItem} : Bus!Before(Bus!FirstItem, j)
<1> DEFINE P == {i.priority : i \in queue}
<1>0. \A i \in queue : i.priority \in Nat /\ i.number \in Nat
  BY ItemIs DEF BusTyped
<1>1. PICK p \in P : \A q \in P : p <= q
  <2>1. P \subseteq Nat /\ P # {}
    BY <1>0
  <2> HIDE DEF P
  <2> QED
    BY <2>1, LeastOf
<1> DEFINE N == {i.number : i \in {j \in queue : j.priority = p}}
<1>2. PICK n \in N : \A m \in N : n <= m
  <2>1. N \subseteq Nat /\ N # {}
    BY <1>0, <1>1
  <2> HIDE DEF N
  <2> QED
    BY <2>1, LeastOf
<1>3. PICK i \in queue : i.priority = p /\ i.number = n
  BY <1>2
<1>4. ASSUME NEW j \in queue \ {i}
      PROVE  Bus!Before(i, j)
  <2>1. p <= j.priority /\ j.priority \in Nat /\ p \in Nat
    BY <1>0, <1>1, <1>3
  <2>2. CASE j.priority = p
    <3>1. n <= j.number /\ j.number # n /\ j.number \in Nat /\ n \in Nat
      BY <1>0, <1>2, <1>3, <2>2 DEF Numbered
    <3> QED
      BY <1>3, <2>2, <3>1 DEF Bus!Before
  <2>3. CASE j.priority # p
    BY <1>3, <2>1, <2>3 DEF Bus!Before
  <2> QED
    BY <2>2, <2>3
<1> QED
  BY <1>3, <1>4 DEF Bus!FirstItem

\* An item with a number of its own enters the queue.
LEMMA PutInv ==
  ASSUME BusInv, NEW item \in Bus!Items, Bus!Put(item),
         \A i \in queue : i.number # item.number
  PROVE  /\ queue' \in SUBSET Bus!Items /\ IsFiniteSet(queue')
         /\ Cardinality(queue') <= QueueSize
         /\ Cardinality(queue') = Cardinality(queue) + 1
         /\ unfinished' = unfinished + 1
         /\ queue' = queue \cup {item}
         /\ \A i, j \in queue' : i.number = j.number => i = j
<1>1. /\ queue' = queue \cup {item} /\ unfinished' = unfinished + 1
      /\ Cardinality(queue) # QueueSize
  BY BusCounts DEF Bus!Put, Bus!Full
<1>2. item \notin queue
  OBVIOUS
<1>3. /\ IsFiniteSet(queue') /\ Cardinality(queue') = Cardinality(queue) + 1
      /\ Cardinality(queue) \in Nat
  BY <1>1, <1>2, FS_AddElement, FS_CardinalityType DEF BusInv, BusTyped
<1>4. Cardinality(queue') <= QueueSize
  BY <1>1, <1>3, HealthAssumption DEF BusInv, Counted
<1>5. \A i, j \in queue' : i.number = j.number => i = j
  BY <1>1 DEF BusInv, Numbered
<1>6. queue' \in SUBSET Bus!Items
  BY <1>1 DEF BusInv, BusTyped
<1> QED
  BY <1>1, <1>3, <1>4, <1>5, <1>6

LEMMA FreshItem ==
  ASSUME BusTyped, NEW priority \in {Bus!CRITICAL, Bus!NORMAL}, NEW event \in Changes
  PROVE  Bus!Item(priority, event) \in Bus!Items
  BY DEF Bus!Item, Bus!Items, BusTyped

LEMMA PublishInv ==
  ASSUME BusInv, NEW priority \in {Bus!CRITICAL, Bus!NORMAL}, NEW event \in Changes,
         Bus!Publish(priority, event)
  PROVE  /\ BusInv' /\ queue' = queue \cup {Bus!Item(priority, event)}
         /\ Bus!Busy' = Bus!Busy
<1> DEFINE item == Bus!Item(priority, event)
<1>1. item \in Bus!Items /\ item.number = next_number
  BY FreshItem DEF BusInv, Bus!Item
<1>2. /\ Bus!Put(item) /\ next_number' = next_number + 1
      /\ UNCHANGED <<running, subscribed, waiting, worker, failures, stop_call>>
  BY DEF Bus!Publish
<1> HIDE DEF item
<1>3. /\ \A i \in queue : i.number \in Nat /\ i.number < next_number
      /\ \A p \in waiting : p.item.number \in Nat /\ p.item.number < next_number
      /\ next_number \in Nat
  BY ItemIs DEF BusInv, BusTyped, Numbered
<1>4. /\ queue' \in SUBSET Bus!Items /\ IsFiniteSet(queue')
      /\ Cardinality(queue') <= QueueSize
      /\ Cardinality(queue') = Cardinality(queue) + 1
      /\ unfinished' = unfinished + 1
      /\ queue' = queue \cup {item}
      /\ \A i, j \in queue' : i.number = j.number => i = j
  BY <1>1, <1>2, <1>3, PutInv
<1>5. BusTyped' /\ Bus!Busy' = Bus!Busy
  BY <1>2, <1>4 DEF BusInv, BusTyped, Bus!Busy
<1>6. Cardinality(queue) \in Nat /\ Cardinality(Bus!Busy) \in Nat
  BY FS_CardinalityType, WorkerIs DEF BusInv, BusTyped
<1>7. Counted'
  BY <1>2, <1>4, <1>5, <1>6 DEF BusInv, Counted
<1>8. Numbered'
  BY <1>1, <1>2, <1>3, <1>4 DEF BusInv, Numbered
<1> QED
  BY <1>4, <1>5, <1>7, <1>8 DEF BusInv, item

LEMMA PublishWaitsInv ==
  ASSUME BusInv, NEW r \in Runners, NEW priority \in {Bus!CRITICAL, Bus!NORMAL},
         NEW event \in Changes, Bus!PublishWaits(r, priority, event)
  PROVE  /\ BusInv' /\ Bus!Busy' = Bus!Busy
         /\ UNCHANGED <<queue, worker>>
         /\ waiting' = waiting \cup {[by |-> r, item |-> Bus!Item(priority, event)]}
<1> DEFINE item == Bus!Item(priority, event)
<1>1. item \in Bus!Items /\ item.number = next_number
  BY FreshItem DEF BusInv, Bus!Item
<1>2. /\ waiting' = waiting \cup {[by |-> r, item |-> item]}
      /\ next_number' = next_number + 1
      /\ UNCHANGED <<running, subscribed, queue, unfinished, worker, failures, stop_call>>
  BY DEF Bus!PublishWaits
<1> HIDE DEF item
<1>3. BusTyped' /\ Bus!Busy' = Bus!Busy
  BY <1>1, <1>2 DEF BusInv, BusTyped, Bus!Busy
<1>4. Counted'
  BY <1>2, <1>3 DEF BusInv, Counted
<1>5. /\ \A i \in queue : i.number \in Nat /\ i.number < next_number
      /\ \A p \in waiting : p.item.number \in Nat /\ p.item.number < next_number
      /\ next_number \in Nat
  BY ItemIs DEF BusInv, BusTyped, Numbered
<1>6. Numbered'
  BY <1>1, <1>2, <1>5 DEF BusInv, Numbered
<1> QED
  BY <1>2, <1>3, <1>4, <1>6 DEF BusInv, item

LEMMA PublishResumesInv ==
  ASSUME BusInv, NEW p \in waiting, Bus!PublishResumes(p)
  PROVE  /\ BusInv' /\ queue' = queue \cup {p.item} /\ waiting' = waiting \ {p}
         /\ Bus!Busy' = Bus!Busy
<1> DEFINE item == p.item
<1>1. /\ item \in Bus!Items /\ item.number < next_number
      /\ \A i \in queue : i.number # item.number
      /\ \A q \in waiting : q.item.number = item.number => q = p
  BY DEF BusInv, BusTyped, Numbered
<1>2. /\ Bus!Put(item) /\ waiting' = waiting \ {p}
      /\ UNCHANGED <<running, subscribed, next_number, worker, failures, stop_call>>
  BY DEF Bus!PublishResumes
<1> HIDE DEF item
<1>4. /\ queue' \in SUBSET Bus!Items /\ IsFiniteSet(queue')
      /\ Cardinality(queue') <= QueueSize
      /\ Cardinality(queue') = Cardinality(queue) + 1
      /\ unfinished' = unfinished + 1
      /\ queue' = queue \cup {item}
      /\ \A i, j \in queue' : i.number = j.number => i = j
  BY <1>1, <1>2, PutInv
<1>5. BusTyped' /\ Bus!Busy' = Bus!Busy
  BY <1>2, <1>4 DEF BusInv, BusTyped, Bus!Busy
<1>6. Cardinality(queue) \in Nat /\ Cardinality(Bus!Busy) \in Nat
  BY FS_CardinalityType, WorkerIs DEF BusInv, BusTyped
<1>7. Counted'
  BY <1>2, <1>4, <1>5, <1>6 DEF BusInv, Counted
<1>8. Numbered'
  BY <1>1, <1>2, <1>4 DEF BusInv, Numbered
<1> QED
  BY <1>2, <1>4, <1>5, <1>7, <1>8 DEF BusInv, item

LEMMA PublishCancelledInv ==
  ASSUME BusInv, NEW p \in waiting, Bus!PublishCancelled(p)
  PROVE  /\ BusInv' /\ waiting' = waiting \ {p} /\ Bus!Busy' = Bus!Busy
         /\ UNCHANGED <<queue, worker>>
  BY DEF BusInv, BusTyped, Counted, Numbered, Bus!Busy, Bus!PublishCancelled

LEMMA GetInv ==
  ASSUME BusInv, NEW w \in Workers, Bus!Get(w)
  PROVE  /\ BusInv' /\ UNCHANGED waiting
         /\ w \notin Bus!Busy /\ Bus!FirstItem \in queue
         /\ queue' = queue \ {Bus!FirstItem}
         /\ \A j \in queue' : Bus!Before(Bus!FirstItem, j)
         /\ Bus!Busy' = Bus!Busy \cup {w}
         /\ worker'[w].item = Bus!FirstItem
         /\ \A v \in Workers \ {w} : worker'[v] = worker[v]
<1> DEFINE first == Bus!FirstItem
           x == Bus!Dispatching(first, subscribed)
<1>1. /\ worker[w].pc = "getting" /\ queue # {} /\ queue' = queue \ {first}
      /\ UNCHANGED <<running, subscribed, waiting, next_number, failures>>
  BY DEF Bus!Get
<1>2. /\ first \in queue /\ first \in Bus!Items
      /\ \A j \in queue \ {first} : Bus!Before(first, j)
  BY <1>1, FirstComesFirst DEF BusInv, BusTyped
<1>3. w \notin Bus!Busy
  BY <1>1 DEF Bus!Busy
<1>4. /\ worker' = [worker EXCEPT ![w] = x] /\ UNCHANGED <<unfinished, stop_call>>
  BY DEF Bus!Get, BusInv, BusTyped
<1>6. x \in WorkerStates /\ x.pc = "dispatching" /\ x.item = first
  BY <1>2 DEF WorkerStates, Bus!Dispatching, BusInv, BusTyped
<1> HIDE DEF first, x
<1>5. /\ queue' \in SUBSET Bus!Items /\ IsFiniteSet(queue')
      /\ Cardinality(queue') = Cardinality(queue) - 1
      /\ Cardinality(queue) \in Nat
  BY <1>1, <1>2, FS_RemoveElement, FS_CardinalityType DEF BusInv, BusTyped
<1>7. /\ worker' \in [Workers -> WorkerStates] /\ worker'[w] = x
      /\ \A v \in Workers \ {w} : worker'[v] = worker[v]
      /\ Bus!Busy' = Bus!Busy \cup {w}
  BY <1>4, <1>6, BusyAfter DEF BusInv
<1>8. /\ IsFiniteSet(Bus!Busy) /\ Cardinality(Bus!Busy) \in Nat
      /\ Cardinality(Bus!Busy \cup {w}) = Cardinality(Bus!Busy) + 1
  BY <1>3, WorkerIs, FS_AddElement, FS_CardinalityType DEF BusInv
<1>9. BusTyped'
  BY <1>1, <1>4, <1>5, <1>7 DEF BusInv, BusTyped
<1>10. Counted'
  <2>1. running
    BY <1>1 DEF BusInv, Counted, Bus!Gone
  <2> QED
    BY <1>1, <1>4, <1>5, <1>7, <1>8, <2>1, HealthAssumption DEF BusInv, Counted
<1>11. Numbered'
  BY <1>1 DEF BusInv, Numbered
<1> QED
  BY <1>1, <1>2, <1>3, <1>6, <1>7, <1>9, <1>10, <1>11 DEF BusInv, first

LEMMA HandlerEndsInv ==
  ASSUME BusInv, NEW w \in Workers, NEW failed \in BOOLEAN, Bus!HandlerEnds(w, failed)
  PROVE  /\ BusInv' /\ w \in Bus!Busy /\ Bus!Busy' = Bus!Busy \ {w}
         /\ UNCHANGED <<queue, waiting>>
         /\ \A v \in Workers \ {w} : worker'[v] = worker[v]
<1>1. w \in Bus!Busy
  BY DEF Bus!HandlerEnds
<1>2. /\ worker[w].item \in Bus!Items /\ worker[w].item.number \in Nat
      /\ worker[w].todo = <<"subscriber">>
  BY <1>1, WorkerIs, ItemIs DEF BusInv
<1>3. Head(worker[w].todo) = "subscriber" /\ Tail(worker[w].todo) = <<>>
  BY <1>2
<1>4. /\ failures' = IF failed THEN failures \cup {<<worker[w].item.number, "subscriber">>}
                     ELSE failures
      /\ worker' = [worker EXCEPT ![w] = Bus!Getting]
      /\ Bus!TaskDone
      /\ UNCHANGED <<running, subscribed, queue, waiting, next_number>>
  BY <1>3 DEF Bus!HandlerEnds, Bus!Remaining
<1>5. failures' \in SUBSET (Nat \X {"subscriber"})
  BY <1>2, <1>4 DEF BusInv, BusTyped
<1>6. /\ worker' \in [Workers -> WorkerStates]
      /\ \A v \in Workers \ {w} : worker'[v] = worker[v]
      /\ Bus!Busy' = Bus!Busy \ {w}
  <2> DEFINE x == Bus!Getting
  <2>1. x \in WorkerStates /\ x.pc # "dispatching"
    BY DEF WorkerStates, Bus!Getting
  <2>2. worker' = [worker EXCEPT ![w] = x]
    BY <1>4
  <2> HIDE DEF x
  <2> QED
    BY <2>1, <2>2, BusyAfter DEF BusInv
<1>7. unfinished' = unfinished - 1 /\ stop_call' \in {"none", "joining", "joined"}
  BY <1>4 DEF Bus!TaskDone, BusInv, BusTyped
<1>8. BusTyped'
  BY <1>4, <1>5, <1>6, <1>7 DEF BusInv, BusTyped
<1>9. Cardinality(Bus!Busy \ {w}) = Cardinality(Bus!Busy) - 1
       /\ Cardinality(Bus!Busy) \in Nat /\ Cardinality(queue) \in Nat
  BY <1>1, WorkerIs, FS_RemoveElement, FS_CardinalityType DEF BusInv, BusTyped
<1>10. Counted'
  <2>1. running
    BY <1>1 DEF BusInv, Counted, Bus!Busy, Bus!Gone
  <2> QED
    BY <1>4, <1>6, <1>7, <1>9, <2>1 DEF BusInv, Counted
<1>11. Numbered'
  BY <1>4 DEF BusInv, Numbered
<1> QED
  BY <1>1, <1>4, <1>6, <1>8, <1>10, <1>11 DEF BusInv

LEMMA TerminateInv ==
  ASSUME BusInv, Bus!Terminate
  PROVE  BusInv' /\ Bus!Busy' = {} /\ UNCHANGED <<queue, waiting>>
<1>1. /\ running' = FALSE /\ stop_call' = "none"
      /\ worker' = [w \in Workers |-> Bus!Gone]
      /\ unfinished' = unfinished - Cardinality(Bus!Busy)
      /\ UNCHANGED <<subscribed, queue, waiting, next_number, failures>>
  BY BusCounts DEF Bus!Terminate
<1>2. Bus!Busy' = {} /\ worker' \in [Workers -> WorkerStates]
  BY <1>1 DEF Bus!Busy, Bus!Gone, WorkerStates
<1>3. BusTyped'
  BY <1>1, <1>2 DEF BusInv, BusTyped
<1>4. Cardinality(queue) \in Nat /\ Cardinality(Bus!Busy) \in Nat /\ Cardinality({}) = 0
  BY FS_CardinalityType, FS_EmptySet, WorkerIs DEF BusInv, BusTyped
<1>5. Counted'
  BY <1>1, <1>2, <1>4 DEF BusInv, Counted
<1>6. Numbered'
  BY <1>1 DEF BusInv, Numbered
<1> QED
  BY <1>1, <1>2, <1>3, <1>5, <1>6 DEF BusInv

LEMMA BusStartInv ==
  ASSUME BusInv, Bus!Start
  PROVE  BusInv' /\ Bus!Busy' = {} /\ Bus!Busy = {} /\ UNCHANGED <<queue, waiting>>
<1>1. /\ ~running /\ running' = TRUE
      /\ worker' = [w \in Workers |-> Bus!Getting]
      /\ UNCHANGED <<subscribed, queue, unfinished, waiting, next_number, failures,
                     stop_call>>
  BY DEF Bus!Start
<1>2. Bus!Busy = {} /\ Bus!Busy' = {} /\ worker' \in [Workers -> WorkerStates]
  BY <1>1 DEF BusInv, Counted, Bus!Busy, Bus!Gone, Bus!Getting, WorkerStates
<1>3. BusTyped'
  BY <1>1, <1>2 DEF BusInv, BusTyped
<1>4. Counted' /\ Numbered'
  BY <1>1, <1>2 DEF BusInv, Counted, Numbered
<1> QED
  BY <1>1, <1>2, <1>3, <1>4 DEF BusInv

LEMMA StopJoinsInv ==
  ASSUME BusInv, Bus!StopJoins
  PROVE  BusInv' /\ Bus!Busy' = Bus!Busy /\ UNCHANGED <<queue, waiting, worker>>
  BY DEF Bus!StopJoins, BusInv, BusTyped, Counted, Numbered, Bus!Busy

---------------------------------------------------------------------------
(* The monitor's own state.                                                *)

RunTyped(x) ==
  \/ x = NoRun
  \/ /\ x = Run(x.pc, x.left, x.found) /\ x.pc \in {"checking", "announcing"}
     /\ x.left \in Seq(Components)
     /\ DOMAIN x.found \subseteq Components
     /\ \A c \in DOMAIN x.found : x.found[c] \in Statuses
     /\ x.pc = "announcing" => Range(x.left) \subseteq DOMAIN x.found
     /\ x.pc = "checking" => DOMAIN x.found \subseteq Range(x.left)

\* A caller waits for room with one event, in the middle of its announcements.
MonitorTyped ==
  /\ registered \in Seq(Components) /\ IsInjective(registered)
  /\ condition \in [Components -> Conditions]
  /\ task \in {"none", "alive", "dead"} /\ (run[Task] # NoRun => task = "alive")
  /\ DOMAIN run = Runners /\ \A r \in Runners : RunTyped(run[r])
  /\ {previous, believed} \subseteq [Components -> Statuses]
  /\ \A p \in waiting :
       /\ run[p.by].pc = "announcing"
       /\ \A q \in waiting : q.by = p.by => q = p

\* Every item says of its component what its priority fits.
IsOf(item, c) == item.event.component = c /\ item.priority = Priority(item.event)

Recorded ==
  /\ accepted \in [Components -> Seq(Bus!Items)]
  /\ \A c \in Components : \A i \in 1 .. Len(accepted[c]) : IsOf(accepted[c][i], c)
  /\ \A i \in queue : i.priority = Priority(i.event)
  /\ \A p \in waiting : p.item.priority = Priority(p.item.event)

\* What a run need not compare any more was announced, or waits for room.
Told(r, c) ==
  \/ run[r].found[c] = "UNKNOWN" \/ Announced(c, run[r].found[c])
  \/ \E p \in waiting : /\ p.by = r /\ p.item.event.component = c
                        /\ p.item.event.to = run[r].found[c]

FoundIsTold ==
  \A r \in Runners : run[r].pc = "announcing" =>
    \A c \in DOMAIN run[r].found \ Range(run[r].left) : Told(r, c)

ReportIsTold ==
  latest # NoReport =>
    /\ DOMAIN latest.components \subseteq Components
    /\ latest.overall = aggregate_health(latest.components)
    /\ \A c \in DOMAIN latest.components :
         latest.components[c] = "UNKNOWN" \/ Announced(c, latest.components[c])

AnnounceInv == Recorded /\ PreviousWasAnnounced /\ FoundIsTold /\ ReportIsTold

\* Without overlap one run at most is in progress, and what it waits to announce
\* still is a change of what is remembered, and the youngest there is.
TransitionsInv ==
  ~overlapped =>
    /\ \A r, s \in Runners : run[r] # NoRun /\ run[s] # NoRun => r = s
    /\ \A p \in waiting :
         /\ p.item.event.from # p.item.event.to
         /\ p.item.event.from = previous[p.item.event.component]
         /\ \A i \in queue : i.number < p.item.number
    /\ OnlyTransitions

Newest(c) == accepted[c][Len(accepted[c])]

\* Of the items of a component the last that was accepted is the youngest: it is
\* in the queue, or critical, or the only one that is not handled, or handled last.
Settled(c) ==
  /\ \A i \in queue : i.event.component # c
  /\ \/ \E w \in Bus!Busy : worker[w].item = Newest(c)
     \/ /\ \A w \in Bus!Busy : worker[w].item.event.component # c
        /\ believed[c] = Newest(c).event.to

BeliefInv ==
  ~missed /\ ~overlapped /\ Cardinality(Workers) = 1 =>
    /\ \A i \in queue :
         /\ accepted[i.event.component] # <<>>
         /\ i.number <= Newest(i.event.component).number
    /\ \A c \in Components :
         IF accepted[c] = <<>>
         THEN /\ believed[c] = "UNKNOWN"
              /\ \A w \in Bus!Busy : worker[w].item.event.component # c
         ELSE Newest(c) \in queue \/ Newest(c).priority = Bus!CRITICAL \/ Settled(c)

MonitorInv == BusInv /\ MonitorTyped /\ AnnounceInv /\ TransitionsInv /\ BeliefInv

LEMMA StatusIsTyped ==
  ASSUME MonitorTyped, NEW c \in Components, condition[c] # "hangs"
  PROVE  Status(c) \in Statuses
  BY HealthAssumption DEF Status, MonitorTyped, Statuses

\* Where a run goes on, and what it leaves behind.
LEMMA LeftIs ==
  ASSUME MonitorTyped, NEW r \in Runners, Goes(r)
  PROVE  LET x == run[r]
             c == Head(Left(r))
         IN /\ RunTyped(x) /\ x # NoRun /\ Range(x.left) \subseteq DOMAIN x.found
            /\ Left(r) = <<>> => \A d \in Range(x.left) : x.found[d] = previous[d]
            /\ Left(r) # <<>> =>
                 /\ c \in Components /\ c \in DOMAIN x.found /\ x.found[c] # previous[c]
                 /\ Tail(Left(r)) \in Seq(Components)
                 /\ Range(Tail(Left(r))) \subseteq Range(x.left)
                 /\ \A d \in Range(x.left) \ Range(Tail(Left(r))) :
                      d = c \/ x.found[d] = previous[d]
<1> DEFINE x == run[r]
           s == x.left
           changed == {i \in DOMAIN s : IsChanged(r, i)}
           m == Min(changed)
           n == Len(s)
<1>1. RunTyped(x) /\ x # NoRun
  BY DEF MonitorTyped, Goes, NoRun
<1>2. s \in Seq(Components) /\ n \in Nat /\ DOMAIN s = 1 .. n
  BY <1>1 DEF RunTyped
<1>3. Range(s) \subseteq DOMAIN x.found
  BY <1>1 DEF Goes, Unanswered, RunTyped
<1>4. \A i \in 1 .. n : s[i] \in Range(s) /\ s[i] \in Components
  BY <1>2 DEF Range
<1>5. \A d \in Range(s) : \E i \in 1 .. n : s[i] = d
  BY <1>2 DEF Range
<1>6. \A i \in 1 .. n : i \in changed <=> x.found[s[i]] # previous[s[i]]
  BY <1>2 DEF IsChanged
<1>7. Left(r) = IF changed = {} THEN <<>> ELSE SubSeq(s, m, n)
  BY DEF Left
<1>10. changed \subseteq 1 .. n
  BY <1>2
<1>8. CASE changed = {}
  <2>1. \A d \in Range(s) : x.found[d] = previous[d]
    BY <1>5, <1>6, <1>8
  <2> QED
    BY <1>1, <1>3, <1>7, <1>8, <2>1
<1>9. CASE changed # {}
  <2> HIDE DEF changed
  <2>1. m \in changed /\ \A i \in changed : m <= i
    BY <1>9, <1>10, LeastOf
  <2>2. m \in 1 .. n
    BY <1>10, <2>1
  <2> DEFINE t == SubSeq(s, m, n)
  <2> HIDE DEF m, s, n
  <2>3. t \in Seq(Components) /\ Len(t) = n - m + 1 /\ \A i \in 1 .. n - m + 1 : t[i] = s[m + i - 1]
    BY <1>2, <2>2
  <2> HIDE DEF t
  <2>4. t # <<>> /\ Len(t) \in Nat \ {0}
    BY <1>2, <2>2, <2>3
  <2>5. Head(t) = s[m]
    <3>1. Head(t) = t[1] /\ 1 \in 1 .. n - m + 1 /\ m + 1 - 1 = m
      BY <1>2, <2>2, <2>3, <2>4
    <3> QED
      BY <2>3, <3>1
  <2>6. /\ Tail(t) \in Seq(Components) /\ Len(Tail(t)) = n - m
        /\ \A i \in 1 .. n - m : Tail(t)[i] = s[m + i]
    <3>1. /\ Tail(t) \in Seq(Components) /\ Len(Tail(t)) = Len(t) - 1
          /\ \A i \in 1 .. Len(t) - 1 : Tail(t)[i] = t[i + 1]
      BY <2>3, <2>4
    <3>2. Len(t) - 1 = n - m
      BY <1>2, <2>2, <2>3
    <3>3. \A i \in 1 .. n - m : i + 1 \in 1 .. n - m + 1 /\ m + (i + 1) - 1 = m + i
      BY <1>2, <2>2
    <3> QED
      BY <2>3, <3>1, <3>2, <3>3
  <2> DEFINE u == Tail(t)
  <2> HIDE DEF u
  <2>7. DOMAIN u = 1 .. n - m /\ \A i \in 1 .. n - m : u[i] = s[m + i]
    BY <2>6 DEF u
  <2>8. Range(u) \subseteq Range(s)
    <3>1. \A i \in 1 .. n - m : m + i \in 1 .. n
      BY <1>2, <2>2
    <3> QED
      BY <1>4, <2>7, <3>1 DEF Range
  <2>9. ASSUME NEW d \in Range(s) \ Range(u)
        PROVE  d = s[m] \/ x.found[d] = previous[d]
    <3>1. PICK i \in 1 .. n : s[i] = d
      BY <1>5
    <3>2. CASE i < m
      <4>1. i \notin changed
        BY <1>2, <2>1, <2>2, <3>2
      <4> QED
        BY <1>6, <3>1, <4>1
    <3>3. CASE i = m
      BY <3>1, <3>3
    <3>4. CASE i > m
      <4>1. i - m \in 1 .. n - m /\ m + (i - m) = i
        BY <1>2, <2>2, <3>4
      <4>2. u[i - m] = d
        BY <2>7, <3>1, <4>1
      <4> QED
        BY <2>7, <4>1, <4>2 DEF Range
    <3> QED
      BY <1>2, <2>2, <3>2, <3>3, <3>4
  <2>10. Left(r) = t
    BY <1>7, <1>9 DEF t
  <2>11. s[m] \in Components /\ s[m] \in DOMAIN x.found /\ x.found[s[m]] # previous[s[m]]
    BY <1>3, <1>4, <1>6, <2>1, <2>2
  <2> QED
    BY <1>1, <1>3, <2>4, <2>5, <2>6, <2>8, <2>9, <2>10, <2>11 DEF u, s
<1> QED
  BY <1>8, <1>9

\* What accepting an item does to the record.
LEMMA AcceptingIs ==
  ASSUME Recorded, NEW item \in Bus!Items, accepted' = Accepting(item)
  PROVE  LET d == item.event.component
             n == Len(accepted[d])
         IN /\ d \in Components /\ item.event.to \in Statuses
            /\ accepted' \in [Components -> Seq(Bus!Items)]
            /\ \A c \in Components \ {d} : accepted'[c] = accepted[c]
            /\ n \in Nat /\ Len(accepted'[d]) = n + 1 /\ accepted'[d][n + 1] = item
            /\ \A i \in 1 .. n : accepted'[d][i] = accepted[d][i]
            /\ accepted'[d] # <<>> /\ Newest(d)' = item
            /\ Announced(d, item.event.to)'
            /\ \A c \in Components, s \in Statuses : Announced(c, s) => Announced(c, s)'
<1> DEFINE d == item.event.component
           n == Len(accepted[d])
<1>1. d \in Components /\ item.event.to \in Statuses
  BY ItemIs DEF Changes
<1>2. /\ accepted \in [Components -> Seq(Bus!Items)]
      /\ accepted' = [accepted EXCEPT ![d] = Append(@, item)]
  BY DEF Recorded, Accepting
<1>3. accepted[d] \in Seq(Bus!Items) /\ n \in Nat
  BY <1>1, <1>2
<1> HIDE DEF d
<1>4. /\ accepted'[d] = Append(accepted[d], item)
      /\ accepted' \in [Components -> Seq(Bus!Items)]
      /\ \A c \in Components \ {d} : accepted'[c] = accepted[c]
  BY <1>1, <1>2, <1>3
<1>5. /\ Len(accepted'[d]) = n + 1 /\ accepted'[d][n + 1] = item
      /\ \A i \in 1 .. n : accepted'[d][i] = accepted[d][i]
  BY <1>3, <1>4
<1>6. accepted'[d] # <<>> /\ Newest(d)' = item
  BY <1>3, <1>5 DEF Newest
<1>7. Announced(d, item.event.to)'
  BY <1>3, <1>5 DEF Announced
<1>8. ASSUME NEW c \in Components, NEW s \in Statuses, Announced(c, s)
      PROVE  Announced(c, s)'
  <2>1. CASE c = d
    BY <1>3, <1>5, <1>8, <2>1 DEF Announced
  <2>2. CASE c # d
    BY <1>4, <1>8, <2>2 DEF Announced
  <2> QED
    BY <2>1, <2>2
<1> QED
  BY <1>1, <1>3, <1>4, <1>5, <1>6, <1>7, <1>8 DEF d

LEMMA AcceptKeepsRecord ==
  ASSUME MonitorTyped, AnnounceInv, NEW item \in Bus!Items,
         item.priority = Priority(item.event),
         accepted' = Accepting(item), previous' = Remembered(item.event),
         queue' = queue \cup {item}, waiting' \subseteq waiting, latest' = latest
  PROVE  /\ Recorded' /\ PreviousWasAnnounced' /\ ReportIsTold'
         /\ previous' \in [Components -> Statuses]
<1> DEFINE d == item.event.component
           n == Len(accepted[d])
<1>1. /\ d \in Components /\ item.event.to \in Statuses
      /\ accepted' \in [Components -> Seq(Bus!Items)]
      /\ \A c \in Components \ {d} : accepted'[c] = accepted[c]
      /\ n \in Nat /\ Len(accepted'[d]) = n + 1 /\ accepted'[d][n + 1] = item
      /\ \A i \in 1 .. n : accepted'[d][i] = accepted[d][i]
      /\ accepted'[d] # <<>>
      /\ \A c \in Components, s \in Statuses : Announced(c, s) => Announced(c, s)'
  BY AcceptingIs DEF AnnounceInv
<1>2. /\ previous \in [Components -> Statuses]
      /\ previous' = [previous EXCEPT ![d] = item.event.to]
  BY DEF MonitorTyped, Remembered
<1> HIDE DEF d
<1>3. /\ previous' \in [Components -> Statuses] /\ previous'[d] = item.event.to
      /\ \A c \in Components \ {d} : previous'[c] = previous[c]
  BY <1>1, <1>2
<1>4. Recorded'
  <2>1. ASSUME NEW c \in Components, NEW i \in 1 .. Len(accepted'[c])
        PROVE  IsOf(accepted'[c][i], c)
    <3>1. CASE c = d /\ i = n + 1
      BY <1>1, <3>1 DEF IsOf, d
    <3>2. CASE c = d /\ i # n + 1
      <4>1. i \in 1 .. n
        BY <1>1, <3>2
      <4> QED
        BY <1>1, <3>2, <4>1 DEF AnnounceInv, Recorded
    <3>3. CASE c # d
      BY <1>1, <3>3 DEF AnnounceInv, Recorded
    <3> QED
      BY <3>1, <3>2, <3>3
  <2> QED
    BY <1>1, <2>1 DEF AnnounceInv, Recorded
<1>5. PreviousWasAnnounced'
  <2> SUFFICES ASSUME NEW c \in Components PROVE previous'[c] = LastAccepted(c)'
    BY DEF PreviousWasAnnounced
  <2>1. CASE c = d
    BY <1>1, <1>3, <2>1 DEF LastAccepted
  <2>2. CASE c # d
    BY <1>1, <1>3, <2>2 DEF LastAccepted, AnnounceInv, PreviousWasAnnounced
  <2> QED
    BY <2>1, <2>2
<1>6. ReportIsTold'
  <2> SUFFICES ASSUME latest # NoReport
               PROVE  /\ DOMAIN latest.components \subseteq Components
                      /\ latest.overall = aggregate_health(latest.components)
                      /\ \A c \in DOMAIN latest.components :
                           \/ latest.components[c] = "UNKNOWN"
                           \/ Announced(c, latest.components[c])'
    BY DEF ReportIsTold
  <2>1. /\ DOMAIN latest.components \subseteq Components
        /\ latest.overall = aggregate_health(latest.components)
        /\ \A c \in DOMAIN latest.components :
             latest.components[c] = "UNKNOWN" \/ Announced(c, latest.components[c])
    BY DEF AnnounceInv, ReportIsTold
  <2>2. ASSUME NEW c \in Components, NEW s, Announced(c, s)
        PROVE  s \in Statuses
    <3>1. PICK i \in 1 .. Len(accepted[c]) : accepted[c][i].event.to = s
      BY <2>2 DEF Announced
    <3>2. accepted[c] \in Seq(Bus!Items)
      BY DEF AnnounceInv, Recorded
    <3>3. accepted[c][i] \in Bus!Items
      BY <3>2
    <3> QED
      BY <3>1, <3>3, ItemIs DEF Changes
  <2> QED
    BY <1>1, <2>1, <2>2
<1> QED
  BY <1>3, <1>4, <1>5, <1>6

LEMMA AcceptKeepsTransitions ==
  ASSUME AnnounceInv, ~overlapped, OnlyTransitions, NEW item \in Bus!Items,
         accepted' = Accepting(item), overlapped' = overlapped,
         item.event.from # item.event.to,
         item.event.from = previous[item.event.component]
  PROVE  OnlyTransitions'
<1> DEFINE d == item.event.component
           n == Len(accepted[d])
<1>1. /\ d \in Components
      /\ \A c \in Components \ {d} : accepted'[c] = accepted[c]
      /\ n \in Nat /\ Len(accepted'[d]) = n + 1 /\ accepted'[d][n + 1] = item
      /\ \A i \in 1 .. n : accepted'[d][i] = accepted[d][i]
  BY AcceptingIs DEF AnnounceInv
<1> DEFINE Right(s, i) == /\ s[i].event.from # s[i].event.to
                          /\ s[i].event.from = IF i = 1 THEN "UNKNOWN"
                                               ELSE s[i - 1].event.to
<1>2. \A c \in Components : \A i \in 1 .. Len(accepted[c]) : Right(accepted[c], i)
  BY DEF OnlyTransitions
<1>3. previous[d] = IF n = 0 THEN "UNKNOWN" ELSE accepted[d][n].event.to
  <2>1. accepted[d] \in Seq(Bus!Items)
    BY <1>1 DEF AnnounceInv, Recorded
  <2> QED
    BY <1>1, <2>1 DEF AnnounceInv, PreviousWasAnnounced, LastAccepted
<1> SUFFICES ASSUME NEW c \in Components, NEW i \in 1 .. Len(accepted'[c])
             PROVE  Right(accepted'[c], i)
  BY DEF OnlyTransitions
<1>4. item.event.from = previous[d]
  OBVIOUS
<1> HIDE DEF d
<1>5. CASE c = d /\ i = n + 1
  <2>1. i = 1 <=> n = 0
    BY <1>1, <1>5
  <2>2. n # 0 => accepted'[d][i - 1] = accepted[d][n]
    BY <1>1, <1>5
  <2> QED
    BY <1>1, <1>3, <1>4, <1>5, <2>1, <2>2
<1>6. CASE c = d /\ i # n + 1
  <2>1. i \in 1 .. n /\ (i # 1 => i - 1 \in 1 .. n)
    BY <1>1, <1>6
  <2>2. /\ accepted[d][i].event.from # accepted[d][i].event.to
        /\ accepted[d][i].event.from = IF i = 1 THEN "UNKNOWN"
                                       ELSE accepted[d][i - 1].event.to
    BY <1>1, <1>2, <2>1
  <2>3. /\ accepted'[d][i] = accepted[d][i]
        /\ i # 1 => accepted'[d][i - 1] = accepted[d][i - 1]
    BY <1>1, <2>1
  <2> QED
    BY <1>6, <2>2, <2>3
<1>7. CASE c # d
  BY <1>1, <1>2, <1>7
<1> QED
  BY <1>5, <1>6, <1>7

LEMMA AcceptKeepsBelief ==
  ASSUME BusTyped, Recorded, BeliefInv, NEW item \in Bus!Items,
         accepted' = Accepting(item), queue' = queue \cup {item}, Bus!Busy' = Bus!Busy,
         UNCHANGED <<worker, believed, missed, overlapped>>,
         ~overlapped => \A i \in queue : i.number < item.number
  PROVE  BeliefInv'
<1> DEFINE d == item.event.component
<1>1. /\ d \in Components
      /\ \A c \in Components \ {d} : accepted'[c] = accepted[c]
      /\ accepted'[d] # <<>> /\ Newest(d)' = item
  BY AcceptingIs
<1>2. \A c \in Components \ {d} : Newest(c)' = Newest(c)
  BY <1>1 DEF Newest
<1> SUFFICES ASSUME ~missed, ~overlapped, Cardinality(Workers) = 1
             PROVE  /\ \A i \in queue' :
                         /\ accepted'[i.event.component] # <<>>
                         /\ i.number <= Newest(i.event.component)'.number
                    /\ \A c \in Components :
                         IF accepted'[c] = <<>>
                         THEN /\ believed[c] = "UNKNOWN"
                              /\ \A w \in Bus!Busy : worker[w].item.event.component # c
                         ELSE \/ Newest(c)' \in queue'
                              \/ Newest(c)'.priority = Bus!CRITICAL
                              \/ Settled(c)'
  BY DEF BeliefInv
<1>3. /\ \A i \in queue :
           /\ accepted[i.event.component] # <<>>
           /\ i.number <= Newest(i.event.component).number
      /\ \A c \in Components :
           IF accepted[c] = <<>>
           THEN /\ believed[c] = "UNKNOWN"
                /\ \A w \in Bus!Busy : worker[w].item.event.component # c
           ELSE Newest(c) \in queue \/ Newest(c).priority = Bus!CRITICAL \/ Settled(c)
  BY DEF BeliefInv
<1>4. item.number \in Nat /\ \A i \in queue : i.number < item.number
  BY ItemIs
<1>5. ASSUME NEW i \in queue'
      PROVE  /\ accepted'[i.event.component] # <<>>
             /\ i.number <= Newest(i.event.component)'.number
  <2>1. CASE i = item
    BY <1>1, <1>4, <2>1
  <2>2. CASE i # item
    <3>1. i \in queue
      BY <2>2
    <3>2. i.event.component \in Components /\ i.number \in Nat
      BY <3>1, ItemIs DEF BusTyped, Changes
    <3> QED
      BY <1>1, <1>2, <1>3, <1>4, <3>1, <3>2
  <2> QED
    BY <2>1, <2>2
<1>6. ASSUME NEW c \in Components, c # d, Settled(c)
      PROVE  Settled(c)'
  BY <1>1, <1>2, <1>6 DEF Settled
<1> QED
  BY <1>1, <1>2, <1>3, <1>5, <1>6

\* A run that goes on with a component that changed.
LEMMA ChangeIs ==
  ASSUME MonitorTyped, NEW r \in Runners, Goes(r), Left(r) # <<>>
  PROVE  LET e == Change(r)
             c == Head(Left(r))
         IN /\ e \in Changes /\ e.component = c /\ e.to = run[r].found[c]
            /\ e.from = previous[c] /\ e.from # e.to
            /\ Priority(e) \in {Bus!CRITICAL, Bus!NORMAL}
<1> DEFINE c == Head(Left(r))
<1>1. /\ c \in Components /\ c \in DOMAIN run[r].found /\ run[r].found[c] # previous[c]
      /\ RunTyped(run[r]) /\ run[r] # NoRun
  BY LeftIs
<1>2. Change(r) = [component |-> c, from |-> previous[c], to |-> run[r].found[c]]
  BY DEF Change
<1>3. previous[c] \in Statuses /\ run[r].found[c] \in Statuses
  BY <1>1 DEF MonitorTyped, RunTyped
<1> HIDE DEF c
<1> QED
  BY <1>1, <1>2, <1>3 DEF Changes, Priority, c

\* Such a run is announcing from then on, without what it compared.
LEMMA GoneOn ==
  ASSUME BusTyped, MonitorTyped, NEW r \in Runners, Goes(r), Left(r) # <<>>,
         run' = [run EXCEPT ![r] = Run("announcing", Tail(Left(r)), @.found)],
         previous' \in [Components -> Statuses],
         UNCHANGED <<registered, condition, task, believed>>,
         \A p \in waiting' : p \in waiting \/ p.by = r,
         \A p, q \in waiting' : p.by = r /\ q.by = r => p = q
  PROVE  /\ MonitorTyped'
         /\ run'[r].pc = "announcing" /\ run'[r].found = run[r].found
         /\ run'[r].left = Tail(Left(r))
         /\ \A s \in Runners \ {r} : run'[s] = run[s]
<1> DEFINE x == run[r]
           y == Run("announcing", Tail(Left(r)), x.found)
<1>1. /\ RunTyped(x) /\ x # NoRun /\ Range(x.left) \subseteq DOMAIN x.found
      /\ Tail(Left(r)) \in Seq(Components)
      /\ Range(Tail(Left(r))) \subseteq Range(x.left)
  BY LeftIs
<1>2. /\ run'[r] = y /\ DOMAIN run' = Runners
      /\ \A s \in Runners \ {r} : run'[s] = run[s]
  BY DEF MonitorTyped
<1>3. /\ y.pc = "announcing" /\ y.left = Tail(Left(r)) /\ y.found = x.found
      /\ y = Run(y.pc, y.left, y.found)
  BY DEF Run
<1> HIDE DEF y
<1>4. RunTyped(y)
  BY <1>1, <1>3 DEF RunTyped, NoRun
<1>5. \A s \in Runners : RunTyped(run'[s])
  BY <1>2, <1>4 DEF MonitorTyped
<1>6. run'[Task] # NoRun => task' = "alive"
  BY <1>1, <1>2 DEF MonitorTyped
<1>7. \A p \in waiting' : /\ run'[p.by].pc = "announcing"
                          /\ \A q \in waiting' : q.by = p.by => q = p
  <2> TAKE p \in waiting'
  <2>1. CASE p.by = r
    BY <1>2, <1>3, <2>1
  <2>2. CASE p.by # r
    <3>1. p \in waiting
      BY <2>2
    <3>2. p.by \in Runners
      BY <3>1 DEF BusTyped
    <3> QED
      BY <1>2, <2>2, <3>1, <3>2 DEF MonitorTyped
  <2> QED
    BY <2>1, <2>2
<1> QED
  BY <1>2, <1>3, <1>5, <1>6, <1>7 DEF MonitorTyped

\* When a run goes on, what it has behind it was announced.
LEMMA BehindIsTold ==
  ASSUME MonitorTyped, AnnounceInv, NEW r \in Runners, Goes(r)
  PROVE  LET found == run[r].found
         IN \A c \in DOMAIN found \ Range(IF Left(r) = <<>> THEN <<>> ELSE Tail(Left(r))) :
              \/ found[c] = "UNKNOWN" \/ Announced(c, found[c])
              \/ Left(r) # <<>> /\ c = Head(Left(r))
<1> DEFINE x == run[r]
<1> SUFFICES ASSUME NEW c \in DOMAIN x.found,
                    c \notin Range(IF Left(r) = <<>> THEN <<>> ELSE Tail(Left(r))),
                    ~(Left(r) # <<>> /\ c = Head(Left(r)))
             PROVE  x.found[c] = "UNKNOWN" \/ Announced(c, x.found[c])
  OBVIOUS
<1>1. /\ RunTyped(x) /\ x # NoRun
      /\ Left(r) = <<>> => \A d \in Range(x.left) : x.found[d] = previous[d]
      /\ Left(r) # <<>> => \A d \in Range(x.left) \ Range(Tail(Left(r))) :
                             d = Head(Left(r)) \/ x.found[d] = previous[d]
  BY LeftIs
<1>2. c \in Components
  BY <1>1 DEF RunTyped
<1>3. CASE c \in Range(x.left)
  <2>1. x.found[c] = previous[c]
    BY <1>1, <1>3
  <2>2. x.found[c] = LastAccepted(c)
    BY <1>2, <2>1 DEF AnnounceInv, PreviousWasAnnounced
  <2>3. CASE accepted[c] = <<>>
    BY <2>2, <2>3 DEF LastAccepted
  <2>4. CASE accepted[c] # <<>>
    <3>1. accepted[c] \in Seq(Bus!Items)
      BY <1>2 DEF AnnounceInv, Recorded
    <3>2. Len(accepted[c]) \in 1 .. Len(accepted[c])
      BY <2>4, <3>1
    <3> QED
      BY <2>2, <2>4, <3>2 DEF LastAccepted, Announced
  <2> QED
    BY <2>3, <2>4
<1>4. CASE c \notin Range(x.left)
  <2>1. x.pc = "announcing" /\ ~Waits(r)
    BY <1>1, <1>4 DEF RunTyped, Goes
  <2>2. Told(r, c)
    BY <1>4, <2>1 DEF AnnounceInv, FoundIsTold
  <2> QED
    BY <2>1, <2>2 DEF Told, Waits
<1> QED
  BY <1>3, <1>4

\* What other runs have behind them stays told.
LEMMA OthersStayTold ==
  ASSUME MonitorTyped, FoundIsTold, NEW r \in Runners,
         \A c \in Components, s \in Statuses : Announced(c, s) => Announced(c, s)',
         \A s \in Runners \ {r} : run'[s] = run[s],
         \A p \in waiting : p.by # r => p \in waiting'
  PROVE  \A s \in Runners \ {r} : run'[s].pc = "announcing" =>
           \A c \in DOMAIN run'[s].found \ Range(run'[s].left) : Told(s, c)'
<1> SUFFICES ASSUME NEW s \in Runners \ {r}, run[s].pc = "announcing",
                    NEW c \in DOMAIN run[s].found \ Range(run[s].left)
             PROVE  Told(s, c)'
  OBVIOUS
<1>1. c \in Components /\ run[s].found[c] \in Statuses
  BY DEF MonitorTyped, RunTyped, NoRun
<1>2. Told(s, c)
  BY DEF FoundIsTold
<1>3. CASE run[s].found[c] = "UNKNOWN" \/ Announced(c, run[s].found[c])
  <2>1. run'[s] = run[s]
    OBVIOUS
  <2>2. run'[s].found[c] = "UNKNOWN" \/ Announced(c, run[s].found[c])'
    BY <1>1, <1>3, <2>1
  <2> QED
    BY <2>1, <2>2 DEF Told, Announced
<1>4. CASE \E p \in waiting : /\ p.by = s /\ p.item.event.component = c
                              /\ p.item.event.to = run[s].found[c]
  BY <1>4 DEF Told
<1> QED
  BY <1>2, <1>3, <1>4 DEF Told

LEMMA PublishKeepsInv ==
  ASSUME MonitorInv, NEW r \in Runners, Publish(r)
  PROVE  MonitorInv'
<1> SUFFICES ASSUME NEW e, e = Change(r), NEW item, item = Bus!Item(Priority(e), e),
                    NEW found, found = run[r].found
             PROVE  MonitorInv'
  OBVIOUS
<1>1. /\ Goes(r) /\ Left(r) # <<>> /\ Bus!Publish(Priority(e), e)
      /\ accepted' = Accepting(item) /\ previous' = Remembered(e)
      /\ run' = [run EXCEPT ![r] = Run("announcing", Tail(Left(r)), @.found)]
      /\ UNCHANGED <<registered, condition, task, latest, believed, overlapped, missed>>
  BY DEF Publish
<1>2. /\ e \in Changes /\ e.component = Head(Left(r)) /\ e.to = found[Head(Left(r))]
      /\ e.from = previous[e.component] /\ e.from # e.to
      /\ Priority(e) \in {Bus!CRITICAL, Bus!NORMAL}
  BY <1>1, ChangeIs DEF MonitorInv
<1>3. BusInv' /\ queue' = queue \cup {item} /\ Bus!Busy' = Bus!Busy
  BY <1>1, <1>2, PublishInv DEF MonitorInv
<1>4. waiting' = waiting /\ worker' = worker
  BY <1>1 DEF Bus!Publish
<1>5. /\ item \in Bus!Items /\ item.priority = Priority(item.event) /\ item.event = e
      /\ item.number = next_number
  BY <1>2, FreshItem DEF MonitorInv, BusInv, Bus!Item
<1>6. /\ \A c \in Components, s \in Statuses : Announced(c, s) => Announced(c, s)'
      /\ Announced(e.component, e.to)'
  BY <1>1, <1>5, AcceptingIs DEF MonitorInv, AnnounceInv
<1>7. /\ Recorded' /\ PreviousWasAnnounced' /\ ReportIsTold'
      /\ previous' \in [Components -> Statuses]
  BY <1>1, <1>3, <1>4, <1>5, AcceptKeepsRecord DEF MonitorInv
<1>8. \A p \in waiting : p.by # r
  BY <1>1 DEF Goes, Waits, MonitorInv, MonitorTyped
<1>9. /\ MonitorTyped'
      /\ run'[r].pc = "announcing" /\ run'[r].found = found
      /\ run'[r].left = Tail(Left(r))
      /\ \A s \in Runners \ {r} : run'[s] = run[s]
  BY <1>1, <1>4, <1>7, <1>8, GoneOn DEF MonitorInv, BusInv
<1>10. FoundIsTold'
  <2>1. ASSUME NEW c \in DOMAIN found \ Range(Tail(Left(r)))
        PROVE  Told(r, c)'
    <3>1. \/ found[c] = "UNKNOWN" \/ Announced(c, found[c])
          \/ c = Head(Left(r))
      BY <1>1, BehindIsTold DEF MonitorInv
    <3>2. c \in Components /\ found[c] \in Statuses
      <4>1. RunTyped(run[r]) /\ run[r] # NoRun
        BY LeftIs, <1>1 DEF MonitorInv
      <4> QED
        BY <4>1 DEF RunTyped
    <3>3. found[c] = "UNKNOWN" \/ Announced(c, found[c])'
      BY <1>2, <1>6, <3>1, <3>2
    <3> QED
      BY <1>9, <3>3 DEF Told, Announced
  <2>2. \A s \in Runners \ {r} : run'[s].pc = "announcing" =>
           \A c \in DOMAIN run'[s].found \ Range(run'[s].left) : Told(s, c)'
    BY <1>4, <1>6, <1>9, OthersStayTold DEF MonitorInv, AnnounceInv
  <2> QED
    BY <1>9, <2>1, <2>2 DEF FoundIsTold
<1>11. ~overlapped => waiting = {} /\ \A s \in Runners \ {r} : run[s] = NoRun
  <2>1. run[r] # NoRun
    BY <1>1, LeftIs DEF MonitorInv
  <2>2. \A p \in waiting : p.by \in Runners /\ run[p.by] # NoRun
    BY DEF MonitorInv, MonitorTyped, BusInv, BusTyped, NoRun
  <2> QED
    BY <1>8, <2>1, <2>2 DEF MonitorInv, TransitionsInv
<1>12. TransitionsInv'
  <2> SUFFICES ASSUME ~overlapped PROVE TransitionsInv'
    BY <1>1 DEF TransitionsInv
  <2>1. OnlyTransitions'
    BY <1>1, <1>2, <1>5, AcceptKeepsTransitions DEF MonitorInv, TransitionsInv
  <2> QED
    BY <1>4, <1>9, <1>11, <2>1 DEF TransitionsInv
<1>13. BeliefInv'
  <2>1. \A i \in queue : i.number < item.number
    BY <1>5 DEF MonitorInv, BusInv, Numbered
  <2> QED
    BY <1>1, <1>3, <1>4, <1>5, <2>1, AcceptKeepsBelief
       DEF MonitorInv, BusInv, AnnounceInv
<1> QED
  BY <1>3, <1>7, <1>9, <1>10, <1>12, <1>13 DEF MonitorInv, AnnounceInv

\* Nothing new in the record, the queue or what is believed.
LEMMA NothingAccepted ==
  ASSUME AnnounceInv, UNCHANGED <<accepted, previous, latest, queue>>,
         \A p \in waiting' : p \in waiting \/ p.item.priority = Priority(p.item.event)
  PROVE  Recorded' /\ PreviousWasAnnounced' /\ ReportIsTold'
         /\ \A c \in Components, s \in Statuses : Announced(c, s) => Announced(c, s)'
<1>1. Recorded'
  BY DEF AnnounceInv, Recorded
<1>2. PreviousWasAnnounced'
  BY DEF AnnounceInv, PreviousWasAnnounced, LastAccepted
<1>3. ReportIsTold'
  BY DEF AnnounceInv, ReportIsTold, Announced
<1>4. \A c \in Components, s \in Statuses : Announced(c, s) => Announced(c, s)'
  BY DEF Announced
<1> QED
  BY <1>1, <1>2, <1>3, <1>4

LEMMA BeliefStays ==
  ASSUME BeliefInv, overlapped => overlapped',
         UNCHANGED <<accepted, queue, worker, believed, missed>>
  PROVE  BeliefInv'
<1>1. Bus!Busy' = Bus!Busy
  BY DEF Bus!Busy
<1>2. \A c \in Components : Newest(c)' = Newest(c)
  BY DEF Newest
<1> QED
  BY <1>1, <1>2 DEF BeliefInv, Settled, Newest

LEMMA PublishWaitsKeepsInv ==
  ASSUME MonitorInv, NEW r \in Runners, PublishWaits(r)
  PROVE  MonitorInv'
<1> SUFFICES ASSUME NEW e, e = Change(r), NEW item, item = Bus!Item(Priority(e), e),
                    NEW found, found = run[r].found
             PROVE  MonitorInv'
  OBVIOUS
<1>1. /\ Goes(r) /\ Left(r) # <<>> /\ Bus!PublishWaits(r, Priority(e), e)
      /\ previous' = previous
      /\ run' = [run EXCEPT ![r] = Run("announcing", Tail(Left(r)), @.found)]
      /\ UNCHANGED <<registered, condition, task, latest, accepted, believed,
                     overlapped, missed>>
  BY DEF PublishWaits, RememberedMeanwhile, history
<1>2. /\ e \in Changes /\ e.component = Head(Left(r)) /\ e.to = found[Head(Left(r))]
      /\ e.from = previous[e.component] /\ e.from # e.to
      /\ Priority(e) \in {Bus!CRITICAL, Bus!NORMAL}
  BY <1>1, ChangeIs DEF MonitorInv
<1> DEFINE call == [by |-> r, item |-> item]
<1>3. BusInv' /\ UNCHANGED <<queue, worker>> /\ waiting' = waiting \cup {call}
  BY <1>1, <1>2, PublishWaitsInv DEF MonitorInv
<1>5. item.priority = Priority(item.event) /\ item.event = e /\ item.number = next_number
  BY DEF Bus!Item
<1>6. /\ call.by = r /\ call.item = item
  OBVIOUS
<1> HIDE DEF call
<1>7. /\ Recorded' /\ PreviousWasAnnounced' /\ ReportIsTold'
      /\ \A c \in Components, s \in Statuses : Announced(c, s) => Announced(c, s)'
  BY <1>1, <1>3, <1>5, <1>6, NothingAccepted DEF MonitorInv
<1>8. \A p \in waiting : p.by # r
  BY <1>1 DEF Goes, Waits, MonitorInv, MonitorTyped
<1>9. /\ MonitorTyped'
      /\ run'[r].pc = "announcing" /\ run'[r].found = found
      /\ run'[r].left = Tail(Left(r))
      /\ \A s \in Runners \ {r} : run'[s] = run[s]
  <2>1. previous' \in [Components -> Statuses]
    BY <1>1 DEF MonitorInv, MonitorTyped
  <2>2. /\ \A p \in waiting' : p \in waiting \/ p.by = r
        /\ \A p, q \in waiting' : p.by = r /\ q.by = r => p = q
    BY <1>3, <1>6, <1>8
  <2> QED
    BY <1>1, <2>1, <2>2, GoneOn DEF MonitorInv, BusInv
<1>10. FoundIsTold'
  <2>1. ASSUME NEW c \in DOMAIN found \ Range(Tail(Left(r)))
        PROVE  Told(r, c)'
    <3>1. \/ found[c] = "UNKNOWN" \/ Announced(c, found[c])
          \/ c = Head(Left(r))
      BY <1>1, BehindIsTold DEF MonitorInv
    <3>2. CASE c = Head(Left(r))
      BY <1>2, <1>3, <1>5, <1>6, <1>9, <3>2 DEF Told
    <3>3. CASE found[c] = "UNKNOWN" \/ Announced(c, found[c])
      BY <1>1, <1>9, <3>3 DEF Told, Announced
    <3> QED
      BY <3>1, <3>2, <3>3
  <2>2. \A s \in Runners \ {r} : run'[s].pc = "announcing" =>
           \A c \in DOMAIN run'[s].found \ Range(run'[s].left) : Told(s, c)'
    BY <1>3, <1>7, <1>9, OthersStayTold DEF MonitorInv, AnnounceInv
  <2> QED
    BY <1>9, <2>1, <2>2 DEF FoundIsTold
<1>11. ~overlapped => waiting = {} /\ \A s \in Runners \ {r} : run[s] = NoRun
  <2>1. run[r] # NoRun
    BY <1>1, LeftIs DEF MonitorInv
  <2>2. \A p \in waiting : p.by \in Runners /\ run[p.by] # NoRun
    BY DEF MonitorInv, MonitorTyped, BusInv, BusTyped, NoRun
  <2> QED
    BY <1>8, <2>1, <2>2 DEF MonitorInv, TransitionsInv
<1>12. TransitionsInv'
  <2> SUFFICES ASSUME ~overlapped PROVE TransitionsInv'
    BY <1>1 DEF TransitionsInv
  <2>1. OnlyTransitions'
    BY <1>1 DEF MonitorInv, TransitionsInv, OnlyTransitions
  <2>2. waiting' = {call} /\ \A i \in queue : i.number < item.number
    BY <1>3, <1>5, <1>11 DEF MonitorInv, BusInv, Numbered
  <2> QED
    BY <1>1, <1>2, <1>3, <1>5, <1>6, <1>9, <1>11, <2>1, <2>2 DEF TransitionsInv
<1>13. BeliefInv'
  BY <1>1, <1>3, BeliefStays DEF MonitorInv
<1> QED
  BY <1>3, <1>7, <1>9, <1>10, <1>12, <1>13 DEF MonitorInv, AnnounceInv

LEMMA ResumePublishKeepsInv ==
  ASSUME MonitorInv, NEW r \in Runners, ResumePublish(r)
  PROVE  MonitorInv'
<1>1. PICK p \in waiting : /\ p.by = r /\ Bus!PublishResumes(p)
                           /\ accepted' = Accepting(p.item)
                           /\ previous' = Remembered(p.item.event)
  BY DEF ResumePublish
<1> SUFFICES ASSUME NEW item, item = p.item
             PROVE  MonitorInv'
  OBVIOUS
<1>2. /\ UNCHANGED <<registered, condition, task, run, latest, believed, overlapped,
                     missed>>
      /\ UNCHANGED worker
  BY <1>1 DEF ResumePublish, Bus!PublishResumes
<1>3. /\ BusInv' /\ queue' = queue \cup {item} /\ waiting' = waiting \ {p}
      /\ Bus!Busy' = Bus!Busy
  BY <1>1, PublishResumesInv DEF MonitorInv
<1>5. item \in Bus!Items /\ item.priority = Priority(item.event)
  BY DEF MonitorInv, BusInv, BusTyped, AnnounceInv, Recorded
<1>6. /\ \A c \in Components, s \in Statuses : Announced(c, s) => Announced(c, s)'
      /\ Announced(item.event.component, item.event.to)'
      /\ item.event.component \in Components
  BY <1>1, <1>5, AcceptingIs DEF MonitorInv, AnnounceInv
<1>7. /\ Recorded' /\ PreviousWasAnnounced' /\ ReportIsTold'
      /\ previous' \in [Components -> Statuses]
  BY <1>1, <1>2, <1>3, <1>5, AcceptKeepsRecord DEF MonitorInv
<1>9. MonitorTyped'
  BY <1>2, <1>3, <1>7 DEF MonitorInv, MonitorTyped
<1>10. FoundIsTold'
  <2>1. ASSUME NEW c \in DOMAIN run[r].found \ Range(run[r].left),
               run[r].pc = "announcing"
        PROVE  Told(r, c)'
    <3>1. c \in Components /\ run[r].found[c] \in Statuses
      BY <2>1 DEF MonitorInv, MonitorTyped, RunTyped, NoRun
    <3>2. Told(r, c)
      BY <2>1 DEF MonitorInv, AnnounceInv, FoundIsTold
    <3>3. \A q \in waiting : q.by = r => q = p
      BY <1>1 DEF MonitorInv, MonitorTyped
    <3>4. \/ run[r].found[c] = "UNKNOWN" \/ Announced(c, run[r].found[c])
          \/ item.event.component = c /\ item.event.to = run[r].found[c]
      BY <3>2, <3>3 DEF Told
    <3> SUFFICES ASSUME NEW f, f = run[r].found[c]
                 PROVE  Told(r, c)'
      OBVIOUS
    <3>5. f = "UNKNOWN" \/ Announced(c, f)'
      BY <1>6, <3>1, <3>4
    <3> QED
      BY <1>2, <3>5 DEF Told, Announced
  <2>2. \A s \in Runners \ {r} : run'[s].pc = "announcing" =>
           \A c \in DOMAIN run'[s].found \ Range(run'[s].left) : Told(s, c)'
    BY <1>1, <1>2, <1>3, <1>6, OthersStayTold DEF MonitorInv, AnnounceInv
  <2> QED
    BY <1>2, <2>1, <2>2 DEF FoundIsTold
<1>11. ~overlapped => waiting = {p}
  <2>2. \A q \in waiting : q.by \in Runners /\ run[q.by] # NoRun
    BY DEF MonitorInv, MonitorTyped, BusInv, BusTyped, NoRun
  <2> QED
    BY <1>1, <2>2 DEF MonitorInv, MonitorTyped, TransitionsInv
<1>12. TransitionsInv'
  <2> SUFFICES ASSUME ~overlapped PROVE TransitionsInv'
    BY <1>2 DEF TransitionsInv
  <2>1. OnlyTransitions'
    BY <1>1, <1>2, <1>5, AcceptKeepsTransitions DEF MonitorInv, TransitionsInv
  <2> QED
    BY <1>2, <1>3, <1>11, <2>1 DEF MonitorInv, TransitionsInv
<1>13. BeliefInv'
  <2>1. ~overlapped => \A i \in queue : i.number < item.number
    BY DEF MonitorInv, TransitionsInv
  <2> QED
    BY <1>1, <1>2, <1>3, <1>5, <2>1, AcceptKeepsBelief
       DEF MonitorInv, BusInv, AnnounceInv
<1> QED
  BY <1>3, <1>7, <1>9, <1>10, <1>12, <1>13 DEF MonitorInv, AnnounceInv

LEMMA BusStays ==
  ASSUME BusInv, UNCHANGED bus
  PROVE  BusInv' /\ UNCHANGED <<queue, worker, waiting>>
  BY DEF bus, BusInv, BusTyped, Counted, Numbered, Bus!Busy

\* A run begins, goes on asking, or ends.
LEMMA RunChangesInv ==
  ASSUME MonitorInv, NEW r \in Runners, NEW x,
         run' = [run EXCEPT ![r] = x],
         x = NoRun \/ (RunTyped(x) /\ x.pc = "checking"),
         BusInv', UNCHANGED <<queue, worker>>, waiting' = {p \in waiting : p.by # r},
         UNCHANGED <<registered, condition, previous, accepted, believed, missed>>,
         task' \in {"none", "alive", "dead"}, run'[Task] # NoRun => task' = "alive",
         ReportIsTold', overlapped => overlapped',
         ~overlapped' /\ x # NoRun =>
           run[r] # NoRun \/ \A s \in Runners \ {r} : run[s] = NoRun
  PROVE  MonitorInv'
<1>1. /\ DOMAIN run' = Runners /\ run'[r] = x /\ RunTyped(x) /\ x.pc # "announcing"
      /\ \A s \in Runners \ {r} : run'[s] = run[s]
  BY DEF MonitorInv, MonitorTyped, RunTyped, NoRun
<1>2. MonitorTyped'
  <2>1. \A s \in Runners : RunTyped(run'[s])
    BY <1>1 DEF MonitorInv, MonitorTyped
  <2>2. \A p \in waiting' : p \in waiting /\ p.by \in Runners \ {r}
    BY DEF MonitorInv, BusInv, BusTyped
  <2>3. \A p \in waiting' : /\ run'[p.by].pc = "announcing"
                            /\ \A q \in waiting' : q.by = p.by => q = p
    BY <1>1, <2>2 DEF MonitorInv, MonitorTyped
  <2> QED
    BY <1>1, <2>1, <2>3 DEF MonitorInv, MonitorTyped
<1>3. /\ Recorded' /\ PreviousWasAnnounced'
      /\ \A c \in Components, s \in Statuses : Announced(c, s) => Announced(c, s)'
  <2>1. Recorded'
    BY DEF MonitorInv, AnnounceInv, Recorded
  <2>2. PreviousWasAnnounced'
    BY DEF MonitorInv, AnnounceInv, PreviousWasAnnounced, LastAccepted
  <2> QED
    BY <2>1, <2>2 DEF Announced
<1>4. FoundIsTold'
  <2>1. \A s \in Runners \ {r} : run'[s].pc = "announcing" =>
           \A c \in DOMAIN run'[s].found \ Range(run'[s].left) : Told(s, c)'
    BY <1>1, <1>3, OthersStayTold DEF MonitorInv, AnnounceInv
  <2> QED
    BY <1>1, <2>1 DEF FoundIsTold
<1>5. TransitionsInv'
  <2> SUFFICES ASSUME ~overlapped' PROVE TransitionsInv'
    BY DEF TransitionsInv
  <2>1. OnlyTransitions'
    BY DEF MonitorInv, TransitionsInv, OnlyTransitions
  <2>2. /\ \A t, s \in Runners : run[t] # NoRun /\ run[s] # NoRun => t = s
        /\ \A p \in waiting :
             /\ p.item.event.from # p.item.event.to
             /\ p.item.event.from = previous[p.item.event.component]
             /\ \A i \in queue : i.number < p.item.number
    BY DEF MonitorInv, TransitionsInv
  <2>3. \A t, s \in Runners : run'[t] # NoRun /\ run'[s] # NoRun => t = s
    BY <1>1, <2>2
  <2> QED
    BY <2>1, <2>2, <2>3 DEF TransitionsInv
<1>6. BeliefInv'
  BY BeliefStays DEF MonitorInv
<1> QED
  BY <1>2, <1>3, <1>4, <1>5, <1>6 DEF MonitorInv, AnnounceInv

\* A report that is the same, of what has been announced since then.
LEMMA ReportStays ==
  ASSUME MonitorInv, UNCHANGED <<latest, accepted>>
  PROVE  ReportIsTold'
  BY DEF MonitorInv, AnnounceInv, ReportIsTold, Announced

LEMMA BeginRunKeepsInv ==
  ASSUME MonitorInv, NEW r \in Runners, BeginRun(r), task' = task,
         r = Task => task = "alive"
  PROVE  MonitorInv'
<1> DEFINE x == Run("checking", registered, <<>>)
<1>1. /\ run[r] = NoRun /\ run' = [run EXCEPT ![r] = x]
      /\ overlapped' = (overlapped \/ \E other \in Runners : run[other] # NoRun)
      /\ UNCHANGED <<bus, registered, condition, task, previous, latest,
                     accepted, believed, missed>>
  BY DEF BeginRun
<1>2. RunTyped(x) /\ x.pc = "checking"
  BY DEF RunTyped, Run, MonitorInv, MonitorTyped
<1>3. waiting' = {p \in waiting : p.by # r}
  <2>1. \A p \in waiting : p.by # r
    BY <1>1 DEF MonitorInv, MonitorTyped, NoRun
  <2> QED
    BY <1>1, <2>1, BusStays DEF MonitorInv
<1>4. ReportIsTold'
  BY <1>1, ReportStays
<1>5. task' \in {"none", "alive", "dead"} /\ (run'[Task] # NoRun => task' = "alive")
  <2>1. CASE r = Task
    BY <1>1, <2>1 DEF MonitorInv, MonitorTyped
  <2>2. CASE r # Task
    BY <1>1, <2>2 DEF MonitorInv, MonitorTyped
  <2> QED
    BY <2>1, <2>2
<1>6. BusInv' /\ UNCHANGED <<queue, worker>>
  BY <1>1, BusStays DEF MonitorInv
<1>7. ~overlapped' => ~overlapped /\ \A s \in Runners \ {r} : run[s] = NoRun
  BY <1>1
<1> HIDE DEF x
<1> QED
  BY <1>1, <1>2, <1>3, <1>4, <1>5, <1>6, <1>7, RunChangesInv

LEMMA AnswerKeepsInv ==
  ASSUME MonitorInv, NEW r \in Runners, NEW c \in Components, Answer(r, c)
  PROVE  MonitorInv'
<1> DEFINE found == With(run[r].found, c, Status(c))
           x == Run("checking", run[r].left, found)
<1>1. /\ run[r].pc = "checking" /\ c \in Unanswered(r) /\ condition[c] # "hangs"
      /\ run' = [run EXCEPT ![r] = x]
      /\ UNCHANGED <<bus, registered, condition, task, previous, latest,
                     accepted, believed, overlapped, missed>>
  BY DEF Answer, history
<1>2. RunTyped(run[r]) /\ run[r] # NoRun /\ Status(c) \in Statuses
  BY <1>1, StatusIsTyped DEF MonitorInv, MonitorTyped, NoRun
<1>3. /\ DOMAIN found = DOMAIN run[r].found \cup {c}
      /\ \A d \in DOMAIN found : found[d] \in Statuses
  BY <1>2 DEF With, RunTyped
<1>4. c \in Range(run[r].left)
  BY <1>1 DEF Unanswered
<1> HIDE DEF found
<1>5. RunTyped(x) /\ x.pc = "checking"
  BY <1>1, <1>2, <1>3, <1>4 DEF RunTyped, Run
<1>6. waiting' = {p \in waiting : p.by # r}
  <2>1. \A p \in waiting : p.by # r
    BY <1>1 DEF MonitorInv, MonitorTyped
  <2> QED
    BY <1>1, <2>1, BusStays DEF MonitorInv
<1>7. ReportIsTold'
  BY <1>1, ReportStays
<1>8. task' \in {"none", "alive", "dead"} /\ (run'[Task] # NoRun => task' = "alive")
  <2>1. CASE r = Task
    BY <1>1, <1>2, <2>1 DEF MonitorInv, MonitorTyped
  <2>2. CASE r # Task
    BY <1>1, <2>2 DEF MonitorInv, MonitorTyped
  <2> QED
    BY <2>1, <2>2
<1>9. BusInv' /\ UNCHANGED <<queue, worker>>
  BY <1>1, BusStays DEF MonitorInv
<1> HIDE DEF x
<1> QED
  BY <1>1, <1>2, <1>5, <1>6, <1>7, <1>8, <1>9, RunChangesInv

\* A run that ends, for whatever reason, leaves no call in publish() behind.
LEMMA RunEndsInv ==
  ASSUME MonitorInv, NEW r \in Runners, run' = [run EXCEPT ![r] = NoRun],
         \/ (UNCHANGED bus /\ ~Waits(r))
         \/ \E p \in waiting : p.by = r /\ Bus!PublishCancelled(p),
         UNCHANGED <<registered, condition, previous, accepted, believed, overlapped,
                     missed>>,
         task' \in {"none", "alive", "dead"}, r # Task => task' = task, ReportIsTold'
  PROVE  MonitorInv'
<1>1. /\ BusInv' /\ UNCHANGED <<queue, worker>>
      /\ waiting' = {p \in waiting : p.by # r}
  <2>1. CASE UNCHANGED bus /\ ~Waits(r)
    BY <2>1, BusStays DEF MonitorInv, Waits
  <2>2. CASE \E p \in waiting : p.by = r /\ Bus!PublishCancelled(p)
    <3>1. PICK p \in waiting : p.by = r /\ Bus!PublishCancelled(p)
      BY <2>2
    <3>2. BusInv' /\ waiting' = waiting \ {p} /\ UNCHANGED <<queue, worker>>
      BY <3>1, PublishCancelledInv DEF MonitorInv
    <3>3. \A q \in waiting : q.by = r <=> q = p
      BY <3>1 DEF MonitorInv, MonitorTyped
    <3> QED
      BY <3>2, <3>3
  <2> QED
    BY <2>1, <2>2
<1>2. run'[Task] # NoRun => task' = "alive"
  BY DEF MonitorInv, MonitorTyped
<1>3. PICK x : x = NoRun
  OBVIOUS
<1>4. run' = [run EXCEPT ![r] = x]
  BY <1>3
<1> QED
  BY <1>1, <1>2, <1>3, <1>4, RunChangesInv

LEMMA PublishRaisesKeepsInv ==
  ASSUME MonitorInv, NEW r \in Runners, PublishRaises(r)
  PROVE  MonitorInv'
<1>1. ReportIsTold'
  BY ReportStays DEF PublishRaises, history
<1>2. ~Waits(r)
  BY DEF PublishRaises, Goes, MonitorInv, MonitorTyped, Waits
<1>3. task' \in {"none", "alive", "dead"} /\ (r # Task => task' = task)
  BY DEF PublishRaises, MonitorInv, MonitorTyped
<1> QED
  BY <1>1, <1>2, <1>3, RunEndsInv DEF PublishRaises, history

LEMMA EndRunKeepsInv ==
  ASSUME MonitorInv, NEW r \in Runners, EndRun(r)
  PROVE  MonitorInv'
<1> SUFFICES ASSUME NEW found, found = run[r].found
             PROVE  MonitorInv'
  OBVIOUS
<1>1. /\ Goes(r) /\ Left(r) = <<>>
      /\ latest' = [overall |-> aggregate_health(found), components |-> found]
      /\ UNCHANGED accepted
  BY DEF EndRun, history
<1>2. \A c \in DOMAIN found : found[c] = "UNKNOWN" \/ Announced(c, found[c])
  <2>1. Range(<<>>) = {}
    BY DEF Range
  <2> QED
    BY <1>1, <2>1, BehindIsTold DEF MonitorInv
<1>3. DOMAIN found \subseteq Components
  BY <1>1, LeftIs DEF MonitorInv, RunTyped
<1>4. ReportIsTold'
  BY <1>1, <1>2, <1>3 DEF ReportIsTold, Announced
<1>5. ~Waits(r)
  BY <1>1 DEF Goes, MonitorInv, MonitorTyped, Waits
<1>6. task' \in {"none", "alive", "dead"} /\ (r # Task => task' = task)
  BY DEF EndRun, MonitorInv, MonitorTyped
<1> QED
  BY <1>4, <1>5, <1>6, RunEndsInv DEF EndRun, history

LEMMA CancelKeepsInv ==
  ASSUME MonitorInv, NEW r \in Runners, Cancel(r),
         task' \in {"none", "alive", "dead"}, r # Task => task' = task
  PROVE  MonitorInv'
<1>1. /\ run' = [run EXCEPT ![r] = NoRun]
      /\ IF Waits(r) THEN \E p \in waiting : p.by = r /\ Bus!PublishCancelled(p)
                     ELSE UNCHANGED bus
      /\ UNCHANGED <<registered, condition, previous, latest,
                     accepted, believed, overlapped, missed>>
  BY DEF Cancel, history
<1>2. ReportIsTold'
  BY <1>1, ReportStays
<1> QED
  BY <1>1, <1>2, RunEndsInv

---------------------------------------------------------------------------
(* The registry, the monitor's task and the rest of the system.            *)

LEMMA RemoveAtInjective ==
  ASSUME NEW S, NEW s \in Seq(S), NEW m \in 1 .. Len(s), IsInjective(s)
  PROVE  RemoveAt(s, m) \in Seq(S) /\ IsInjective(RemoveAt(s, m))
<1> DEFINE a == SubSeq(s, 1, m - 1)
           b == SubSeq(s, m + 1, Len(s))
           t == a \o b
<1>0. m \in Nat /\ Len(s) \in Nat /\ 1 <= m /\ m <= Len(s)
  OBVIOUS
<1>1. a \in Seq(S) /\ Len(a) = m - 1 /\ \A j \in 1 .. m - 1 : a[j] = s[j]
  OBVIOUS
<1>2. b \in Seq(S) /\ Len(b) = Len(s) - m /\ \A j \in 1 .. Len(s) - m : b[j] = s[m + j]
  OBVIOUS
<1>3. RemoveAt(s, m) = t
  BY DEF RemoveAt
<1> HIDE DEF a, b
<1>4. /\ t \in Seq(S) /\ DOMAIN t = 1 .. Len(s) - 1
      /\ \A j \in 1 .. Len(s) - 1 :
           t[j] = IF j <= Len(a) THEN a[j] ELSE b[j - Len(a)]
  BY <1>0, <1>1, <1>2
<1> HIDE DEF t
<1>5. ASSUME NEW j \in 1 .. Len(s) - 1
      PROVE  t[j] = s[IF j < m THEN j ELSE j + 1]
  <2>2. CASE j < m
    BY <1>0, <1>1, <1>4, <2>2
  <2>3. CASE ~(j < m)
    <3>1. ~(j <= Len(a)) /\ j - Len(a) \in 1 .. Len(s) - m
          /\ m + (j - Len(a)) = j + 1
      BY <1>0, <1>1, <2>3
    <3> QED
      BY <1>2, <1>4, <2>3, <3>1
  <2> QED
    BY <2>2, <2>3
<1>6. ASSUME NEW j \in 1 .. Len(s) - 1, NEW k \in 1 .. Len(s) - 1, t[j] = t[k]
      PROVE  j = k
  <2> DEFINE At(x) == IF x < m THEN x ELSE x + 1
  <2>1. At(j) \in DOMAIN s /\ At(k) \in DOMAIN s
    BY <1>0
  <2>2. s[At(j)] = s[At(k)]
    BY <1>5, <1>6
  <2>3. At(j) = At(k)
    <3> HIDE DEF At
    <3> QED
      BY <2>1, <2>2 DEF IsInjective
  <2> QED
    BY <1>0, <2>3
<1> QED
  BY <1>3, <1>4, <1>6 DEF IsInjective

LEMMA RemoveFirstInjective ==
  ASSUME NEW S, NEW s \in Seq(S), NEW e, IsInjective(s)
  PROVE  RemoveFirst(s, e) \in Seq(S) /\ IsInjective(RemoveFirst(s, e))
<1>1. CASE \A i \in 1 .. Len(s) : s[i] # e
  BY <1>1 DEF RemoveFirst
<1>2. CASE \E i \in 1 .. Len(s) : s[i] = e
  <2> DEFINE I == {i \in 1 .. Len(s) : s[i] = e}
             m == CHOOSE x \in I : \A y \in I : x <= y
  <2>1. I \subseteq Nat /\ I # {}
    BY <1>2
  <2>2. m \in I
    <3> HIDE DEF I
    <3> QED
      BY <2>1, LeastOf DEF Min
  <2>3. RemoveFirst(s, e) = RemoveAt(s, m)
    BY <1>2 DEF RemoveFirst, SelectInSeq, Min
  <2> HIDE DEF m
  <2> QED
    BY <2>2, <2>3, RemoveAtInjective
<1> QED
  BY <1>1, <1>2

\* A step of the providers, of the registry or of start().
LEMMA OthersKeepInv ==
  ASSUME MonitorInv, UNCHANGED <<bus, run, previous, latest, history>>,
         registered' \in Seq(Components), IsInjective(registered'),
         condition' \in [Components -> Conditions],
         task' \in {"none", "alive", "dead"}, task = "alive" => task' = "alive"
  PROVE  MonitorInv'
<1>1. BusInv' /\ UNCHANGED <<queue, worker, waiting>>
  BY BusStays DEF MonitorInv
<1>2. MonitorTyped'
  BY <1>1 DEF MonitorInv, MonitorTyped, history
<1>3. AnnounceInv'
  <2>1. Recorded' /\ PreviousWasAnnounced' /\ ReportIsTold'
    BY <1>1, NothingAccepted DEF MonitorInv, history
  <2>2. FoundIsTold'
    BY <1>1 DEF MonitorInv, AnnounceInv, FoundIsTold, Told, Announced, history
  <2> QED
    BY <2>1, <2>2 DEF AnnounceInv
<1>4. TransitionsInv'
  BY <1>1 DEF MonitorInv, TransitionsInv, OnlyTransitions, history
<1>5. BeliefInv'
  BY <1>1, BeliefStays DEF MonitorInv, history
<1> QED
  BY <1>1, <1>2, <1>3, <1>4, <1>5 DEF MonitorInv

LEMMA RegistryKeepsInv ==
  ASSUME MonitorInv, NEW c \in Components,
         Register(c) \/ Unregister(c) \/ ConditionChanges(c)
  PROVE  MonitorInv'
<1>0. /\ registered \in Seq(Components) /\ IsInjective(registered)
      /\ condition \in [Components -> Conditions] /\ task \in {"none", "alive", "dead"}
  BY DEF MonitorInv, MonitorTyped
<1>1. CASE Register(c)
  <2>1. c \notin Range(registered) /\ registered' = Append(registered, c)
    BY <1>1 DEF Register
  <2>2. registered' \in Seq(Components) /\ IsInjective(registered')
    BY <1>0, <2>1 DEF IsInjective, Range
  <2> QED
    BY <1>0, <1>1, <2>2, OthersKeepInv DEF Register
<1>2. CASE Unregister(c)
  <2>1. registered' \in Seq(Components) /\ IsInjective(registered')
    BY <1>0, <1>2, RemoveFirstInjective DEF Unregister
  <2> QED
    BY <1>0, <1>2, <2>1, OthersKeepInv DEF Unregister
<1>3. CASE ConditionChanges(c)
  <2>1. condition' \in [Components -> Conditions]
    BY <1>0, <1>3 DEF ConditionChanges
  <2> QED
    BY <1>0, <1>3, <2>1, OthersKeepInv DEF ConditionChanges
<1> QED
  BY <1>1, <1>2, <1>3

---------------------------------------------------------------------------
(* The bus works, starts and stops.                                        *)

LEMMA BusWorkKeepsInv ==
  ASSUME MonitorInv, BusInv', waiting' = waiting, queue' \subseteq queue,
         UNCHANGED <<monitor, accepted, overlapped>>,
         believed' \in [Components -> Statuses], BeliefInv'
  PROVE  MonitorInv'
<1>1. MonitorTyped'
  BY DEF MonitorInv, MonitorTyped, monitor
<1>2. AnnounceInv'
  <2>1. Recorded'
    BY DEF MonitorInv, AnnounceInv, Recorded
  <2>2. PreviousWasAnnounced'
    BY DEF MonitorInv, AnnounceInv, PreviousWasAnnounced, LastAccepted, monitor
  <2>3. ReportIsTold'
    BY DEF MonitorInv, AnnounceInv, ReportIsTold, Announced, monitor
  <2>4. FoundIsTold'
    BY DEF MonitorInv, AnnounceInv, FoundIsTold, Told, Announced, monitor
  <2> QED
    BY <2>1, <2>2, <2>3, <2>4 DEF AnnounceInv
<1>3. TransitionsInv'
  BY DEF MonitorInv, TransitionsInv, OnlyTransitions, monitor
<1> QED
  BY <1>1, <1>2, <1>3 DEF MonitorInv

\* With one worker, who is busy is that one.
LEMMA OneWorker ==
  ASSUME BusInv, Cardinality(Workers) = 1, NEW w \in Workers
  PROVE  Workers = {w} /\ Bus!Busy \subseteq {w}
<1>1. \E x : Workers = {x}
  BY FS_Singleton, HealthAssumption
<1> QED
  BY <1>1, WorkerIs DEF BusInv

LEMMA WorkerGetsKeepsInv ==
  ASSUME MonitorInv, NEW w \in Workers, WorkerGets(w)
  PROVE  MonitorInv'
<1> SUFFICES ASSUME NEW first, first = Bus!FirstItem
             PROVE  MonitorInv'
  OBVIOUS
<1>1. Bus!Get(w) /\ UNCHANGED <<monitor, history, incidents>>
  BY DEF WorkerGets
<1>2. /\ BusInv' /\ UNCHANGED waiting /\ w \notin Bus!Busy /\ first \in queue
      /\ queue' = queue \ {first}
      /\ \A j \in queue' : Bus!Before(first, j)
      /\ Bus!Busy' = Bus!Busy \cup {w} /\ worker'[w].item = first
  BY <1>1, GetInv DEF MonitorInv
<1>3. BeliefInv'
  <2> SUFFICES ASSUME ~missed, ~overlapped, Cardinality(Workers) = 1
               PROVE  BeliefInv'
    BY <1>1 DEF BeliefInv, history
  <2>1. Bus!Busy = {} /\ Bus!Busy' = {w}
    BY <1>2, OneWorker DEF MonitorInv
  <2>2. /\ \A i \in queue :
             /\ accepted[i.event.component] # <<>>
             /\ i.number <= Newest(i.event.component).number
        /\ \A c \in Components :
             IF accepted[c] = <<>>
             THEN /\ believed[c] = "UNKNOWN"
                  /\ \A v \in Bus!Busy : worker[v].item.event.component # c
             ELSE Newest(c) \in queue \/ Newest(c).priority = Bus!CRITICAL \/ Settled(c)
    BY DEF MonitorInv, BeliefInv
  <2>3. ASSUME NEW c \in Components, accepted[c] # <<>>
        PROVE  Newest(c) \in queue' \/ Newest(c).priority = Bus!CRITICAL \/ Settled(c)'
    <3>1. CASE Newest(c) = first /\ Newest(c).priority # Bus!CRITICAL
      <4>1. IsOf(Newest(c), c)
        <5>1. accepted[c] \in Seq(Bus!Items)
          BY DEF MonitorInv, AnnounceInv, Recorded
        <5>2. Len(accepted[c]) \in 1 .. Len(accepted[c])
          BY <2>3, <5>1
        <5> QED
          BY <5>2 DEF MonitorInv, AnnounceInv, Recorded, Newest
      <4>2. first.priority = 20
        BY <1>2, <3>1 DEF MonitorInv, AnnounceInv, Recorded, Priority, Bus!CRITICAL,
                          Bus!NORMAL
      <4>3. ASSUME NEW i \in queue', i.event.component = c
            PROVE  FALSE
        <5>1. i \in queue /\ Bus!Before(first, i) /\ i.number <= first.number
          BY <1>2, <2>2, <3>1, <4>3
        <5>2. i.priority \in {0, 20} /\ i.number \in Nat /\ first.number \in Nat
          BY <1>2, <5>1, ItemIs
             DEF MonitorInv, BusInv, BusTyped, AnnounceInv, Recorded, Priority,
                 Bus!CRITICAL, Bus!NORMAL
        <5> QED
          BY <4>2, <5>1, <5>2 DEF Bus!Before
      <4>4. worker'[w].item = Newest(c)' /\ w \in Bus!Busy'
        BY <1>1, <1>2, <3>1 DEF Newest, history
      <4> QED
        BY <4>3, <4>4 DEF Settled
    <3>2. CASE Settled(c)
      <4>1. /\ \A i \in queue : i.event.component # c
            /\ believed[c] = Newest(c).event.to
        BY <2>1, <3>2 DEF Settled
      <4>2. \A v \in Bus!Busy' : worker'[v].item.event.component # c
        BY <1>2, <2>1, <4>1
      <4> QED
        BY <1>1, <1>2, <4>1, <4>2 DEF Settled, Newest, history
    <3> QED
      BY <1>2, <2>2, <2>3, <3>1, <3>2
  <2>4. ASSUME NEW c \in Components, accepted[c] = <<>>
        PROVE  /\ believed[c] = "UNKNOWN"
               /\ \A v \in Bus!Busy' : worker'[v].item.event.component # c
    BY <1>2, <2>1, <2>2, <2>4
  <2>5. /\ accepted' = accepted /\ believed' = believed
        /\ \A c \in Components : Newest(c)' = Newest(c)
    BY <1>1 DEF history, Newest
  <2>6. \A i \in queue' : i.event.component \in Components
    BY <1>2, ItemIs DEF BusInv, BusTyped, Changes
  <2> QED
    BY <1>2, <2>2, <2>3, <2>4, <2>5, <2>6 DEF BeliefInv
<1>4. believed' \in [Components -> Statuses]
  BY <1>1 DEF MonitorInv, MonitorTyped, history
<1> QED
  BY <1>1, <1>2, <1>3, <1>4, BusWorkKeepsInv DEF history

LEMMA SubscriberEndsKeepsInv ==
  ASSUME MonitorInv, NEW w \in Workers, SubscriberEnds(w)
  PROVE  MonitorInv'
<1> SUFFICES ASSUME NEW item, item = worker[w].item
             PROVE  MonitorInv'
  OBVIOUS
<1>1. PICK failed \in BOOLEAN :
        /\ Bus!HandlerEnds(w, failed) /\ missed' = (missed \/ failed)
        /\ IF failed THEN UNCHANGED believed
           ELSE believed' = [believed EXCEPT ![item.event.component] = item.event.to]
  BY DEF SubscriberEnds
<1>2. UNCHANGED <<monitor, accepted, overlapped>>
  BY DEF SubscriberEnds
<1>3. /\ BusInv' /\ w \in Bus!Busy /\ Bus!Busy' = Bus!Busy \ {w}
      /\ UNCHANGED <<queue, waiting>>
      /\ \A v \in Workers \ {w} : worker'[v] = worker[v]
  BY <1>1, HandlerEndsInv DEF MonitorInv
<1>4. /\ item.event.component \in Components /\ item.event.to \in Statuses
      /\ believed \in [Components -> Statuses]
  <2>1. item \in Bus!Items
    BY <1>3, WorkerIs DEF MonitorInv, BusInv
  <2> QED
    BY <2>1, ItemIs DEF Changes, MonitorInv, MonitorTyped
<1>5. believed' \in [Components -> Statuses]
  BY <1>1, <1>4
<1>6. BeliefInv'
  <2> SUFFICES ASSUME ~missed', ~overlapped', Cardinality(Workers) = 1
               PROVE  BeliefInv'
    BY DEF BeliefInv
  <2>1. Bus!Busy = {w} /\ Bus!Busy' = {}
    BY <1>3, OneWorker DEF MonitorInv
  <2>2. /\ ~failed /\ ~missed /\ ~overlapped
        /\ believed' = [believed EXCEPT ![item.event.component] = item.event.to]
    BY <1>1, <1>2
  <2>3. /\ \A i \in queue :
             /\ accepted[i.event.component] # <<>>
             /\ i.number <= Newest(i.event.component).number
        /\ \A c \in Components :
             IF accepted[c] = <<>>
             THEN /\ believed[c] = "UNKNOWN"
                  /\ \A v \in Bus!Busy : worker[v].item.event.component # c
             ELSE Newest(c) \in queue \/ Newest(c).priority = Bus!CRITICAL \/ Settled(c)
    BY <2>2 DEF MonitorInv, BeliefInv
  <2>4. ASSUME NEW c \in Components, accepted[c] # <<>>
        PROVE  Newest(c) \in queue \/ Newest(c).priority = Bus!CRITICAL \/ Settled(c)'
    <3>1. CASE Settled(c)
      <4>1. believed'[c] = Newest(c).event.to
        <5>1. CASE item = Newest(c)
          <6>1. accepted[c] \in Seq(Bus!Items)
            BY DEF MonitorInv, AnnounceInv, Recorded
          <6>2. Len(accepted[c]) \in 1 .. Len(accepted[c])
            BY <2>4, <6>1
          <6>3. item.event.component = c
            BY <5>1, <6>2 DEF MonitorInv, AnnounceInv, Recorded, Newest, IsOf
          <6> QED
            BY <1>4, <2>2, <5>1, <6>3
        <5>2. CASE item # Newest(c)
          <6>1. item.event.component # c /\ believed[c] = Newest(c).event.to
            BY <2>1, <3>1, <5>2 DEF Settled
          <6> QED
            BY <1>4, <2>2, <6>1
        <5> QED
          BY <5>1, <5>2
      <4> QED
        BY <1>2, <1>3, <2>1, <3>1, <4>1 DEF Settled, Newest
    <3> QED
      BY <2>3, <2>4, <3>1
  <2>5. ASSUME NEW c \in Components, accepted[c] = <<>>
        PROVE  believed'[c] = "UNKNOWN"
    <3>1. item.event.component # c /\ believed[c] = "UNKNOWN"
      BY <2>1, <2>3, <2>5
    <3> QED
      BY <1>4, <2>2, <3>1
  <2>6. accepted' = accepted /\ \A c \in Components : Newest(c)' = Newest(c)
    BY <1>2 DEF Newest
  <2>7. \A i \in queue : i.event.component \in Components
    BY ItemIs DEF MonitorInv, BusInv, BusTyped, Changes
  <2> QED
    BY <1>3, <2>1, <2>3, <2>4, <2>5, <2>6, <2>7 DEF BeliefInv
<1> QED
  BY <1>2, <1>3, <1>5, <1>6, BusWorkKeepsInv

\* Starting and stopping the bus: no worker is busy before or after, or else
\* what it was busy with was missed.
LEMMA IdleBusKeepsInv ==
  ASSUME MonitorInv, BusInv', UNCHANGED <<queue, waiting>>, Bus!Busy' = {},
         UNCHANGED <<monitor, accepted, believed, overlapped>>,
         ~missed' => ~missed /\ Bus!Busy = {}
  PROVE  MonitorInv'
<1>1. BeliefInv'
  BY DEF MonitorInv, BeliefInv, Settled, Newest
<1>2. believed' \in [Components -> Statuses]
  BY DEF MonitorInv, MonitorTyped
<1> QED
  BY <1>1, <1>2, BusWorkKeepsInv

LEMMA BusStepsKeepInv ==
  ASSUME MonitorInv, StartBus \/ StopBusGoesOn \/ \E drain \in BOOLEAN : StopBus(drain)
  PROVE  MonitorInv'
<1>1. CASE StartBus
  <2>1. BusInv' /\ Bus!Busy' = {} /\ Bus!Busy = {} /\ UNCHANGED <<queue, waiting>>
    BY <1>1, BusStartInv DEF StartBus, MonitorInv
  <2> QED
    BY <1>1, <2>1, IdleBusKeepsInv DEF StartBus, history
<1>2. ASSUME Bus!Terminate, missed' = (missed \/ Bus!Busy # {}),
             UNCHANGED <<monitor, accepted, believed, overlapped>>
      PROVE  MonitorInv'
  <2>1. BusInv' /\ Bus!Busy' = {} /\ UNCHANGED <<queue, waiting>>
    BY <1>2, TerminateInv DEF MonitorInv
  <2>2. ~missed' => ~missed /\ Bus!Busy = {}
    BY <1>2
  <2> QED
    BY <1>2, <2>1, <2>2, IdleBusKeepsInv
<1>3. CASE StopBusGoesOn
  BY <1>2, <1>3 DEF StopBusGoesOn, Bus!StopGoesOn
<1>4. ASSUME NEW drain \in BOOLEAN, StopBus(drain)
      PROVE  MonitorInv'
  <2>1. CASE Bus!StopAtOnce(drain) /\ missed' = (missed \/ Bus!Busy # {})
    BY <1>2, <1>4, <2>1 DEF StopBus, Bus!StopAtOnce
  <2>2. CASE Bus!StopJoins /\ UNCHANGED missed
    <3>1. BusInv' /\ UNCHANGED <<queue, waiting, worker>>
      BY <2>2, StopJoinsInv DEF MonitorInv
    <3>2. UNCHANGED <<monitor, accepted, believed, overlapped>>
      BY <1>4 DEF StopBus
    <3>3. BeliefInv' /\ believed' \in [Components -> Statuses]
      BY <2>2, <3>1, <3>2, BeliefStays DEF MonitorInv, MonitorTyped
    <3> QED
      BY <3>1, <3>2, <3>3, BusWorkKeepsInv
  <2> QED
    BY <1>4, <2>1, <2>2 DEF StopBus
<1> QED
  BY <1>1, <1>3, <1>4

LEMMA MonitorInitInv == MonitorInit => MonitorInv
<1> SUFFICES ASSUME MonitorInit PROVE MonitorInv
  OBVIOUS
<1>1. /\ running = FALSE /\ stop_call = "none" /\ subscribed = <<"subscriber">>
      /\ queue = {} /\ unfinished = 0 /\ waiting = {} /\ next_number = 0
      /\ worker = [w \in Workers |-> Bus!Gone] /\ failures = {}
      /\ registered \in SetToSeqs(Components)
      /\ condition = [c \in Components |-> "HEALTHY"]
      /\ task = "none" /\ run = [r \in Runners |-> NoRun]
      /\ previous = [c \in Components |-> "UNKNOWN"] /\ latest = NoReport
      /\ accepted = [c \in Components |-> <<>>] /\ believed = previous
  BY DEF MonitorInit, Bus!Init
<1>2. Bus!Busy = {}
  BY <1>1 DEF Bus!Busy, Bus!Gone
<1>3. BusInv
  <2>1. IsFiniteSet({}) /\ Cardinality({}) = 0
    BY FS_EmptySet
  <2>2. BusTyped
    BY <1>1, <2>1 DEF BusTyped, WorkerStates
  <2>3. Counted /\ Numbered
    BY <1>1, <1>2, <2>1, HealthAssumption DEF Counted, Numbered
  <2> QED
    BY <2>2, <2>3 DEF BusInv
<1>4. MonitorTyped
  <2>1. registered \in Seq(Components) /\ IsInjective(registered)
    <3>1. Cardinality(Components) \in Nat
      BY FS_CardinalityType, HealthAssumption
    <3> DEFINE D == 1 .. Cardinality(Components)
    <3>2. registered \in [D -> Components] /\ \A i, j \in D : i # j => registered[i] # registered[j]
      BY <1>1 DEF SetToSeqs
    <3> QED
      BY <3>1, <3>2 DEF IsInjective
  <2>2. \A r \in Runners : RunTyped(run[r])
    BY <1>1 DEF RunTyped
  <2>3. run[Task] = NoRun
    BY <1>1 DEF Runners
  <2> QED
    BY <1>1, <2>1, <2>2, <2>3, HealthAssumption DEF MonitorTyped, Statuses
<1>5. AnnounceInv
  BY <1>1 DEF AnnounceInv, Recorded, PreviousWasAnnounced, LastAccepted, FoundIsTold,
              ReportIsTold, NoRun
<1>6. TransitionsInv
  BY <1>1 DEF TransitionsInv, OnlyTransitions
<1>7. BeliefInv
  BY <1>1, <1>2 DEF BeliefInv
<1> QED
  BY <1>3, <1>4, <1>5, <1>6, <1>7 DEF MonitorInv

LEMMA MonitorNextInv == MonitorInv /\ [MonitorNext]_monitoring => MonitorInv'
<1> SUFFICES ASSUME MonitorInv, [MonitorNext]_monitoring PROVE MonitorInv'
  OBVIOUS
<1>1. ASSUME NEW r \in Runners, Continues(r) PROVE MonitorInv'
  BY <1>1, PublishKeepsInv, PublishWaitsKeepsInv, PublishRaisesKeepsInv, EndRunKeepsInv
     DEF Continues
<1>2. ASSUME NEW r \in Runners, ResumePublish(r) PROVE MonitorInv'
  BY <1>2, ResumePublishKeepsInv
<1>3. ASSUME NEW r \in Runners, NEW c \in Components, Answer(r, c) PROVE MonitorInv'
  BY <1>3, AnswerKeepsInv
<1>4. CASE start
  <2>1. /\ registered \in Seq(Components) /\ IsInjective(registered)
        /\ condition \in [Components -> Conditions]
    BY DEF MonitorInv, MonitorTyped
  <2> QED
    BY <1>4, <2>1, OthersKeepInv DEF start
<1>5. CASE stop
  <2>1. Task \in Runners /\ Cancel(Task) /\ task' = "none"
    BY <1>5 DEF stop, Runners
  <2> QED
    BY <2>1, CancelKeepsInv
<1>6. CASE TaskRuns
  <2>1. Task \in Runners /\ BeginRun(Task) /\ task' = task /\ task = "alive"
    BY <1>6 DEF TaskRuns, Runners, BeginRun
  <2> QED
    BY <2>1, BeginRunKeepsInv
<1>7. ASSUME NEW r \in Callers, CallerRuns(r) \/ CallerIsCancelled(r)
      PROVE  MonitorInv'
  <2>1. r \in Runners /\ r # Task
    BY HealthAssumption DEF Runners
  <2>2. CASE CallerRuns(r)
    BY <2>1, <2>2, BeginRunKeepsInv DEF CallerRuns, BeginRun
  <2>3. CASE CallerIsCancelled(r)
    <3>1. task \in {"none", "alive", "dead"} /\ task' = task /\ Cancel(r)
      BY <2>3 DEF CallerIsCancelled, MonitorInv, MonitorTyped
    <3> QED
      BY <2>1, <3>1, CancelKeepsInv
  <2> QED
    BY <1>7, <2>2, <2>3
<1>8. ASSUME NEW c \in Components, Register(c) \/ Unregister(c) \/ ConditionChanges(c)
      PROVE  MonitorInv'
  BY <1>8, RegistryKeepsInv
<1>9. ASSUME NEW w \in Workers, WorkerGets(w) \/ SubscriberEnds(w)
      PROVE  MonitorInv'
  BY <1>9, WorkerGetsKeepsInv, SubscriberEndsKeepsInv
<1>10. CASE StartBus \/ StopBusGoesOn \/ \E drain \in BOOLEAN : StopBus(drain)
  BY <1>10, BusStepsKeepInv
<1>11. CASE UNCHANGED monitoring
  <2>1. /\ registered \in Seq(Components) /\ IsInjective(registered)
        /\ condition \in [Components -> Conditions] /\ task \in {"none", "alive", "dead"}
    BY DEF MonitorInv, MonitorTyped
  <2> QED
    BY <1>11, <2>1, OthersKeepInv DEF monitoring, monitor
<1> QED
  BY <1>1, <1>2, <1>3, <1>4, <1>5, <1>6, <1>7, <1>8, <1>9, <1>10, <1>11
     DEF MonitorNext

LEMMA MonitorInvAlways == MonitorSpec => []MonitorInv
  BY MonitorInitInv, MonitorNextInv, PTL DEF MonitorSpec

LEMMA MonitorTypeIs == MonitorInv => MonitorTypeOK
<1> SUFFICES ASSUME MonitorInv PROVE MonitorTypeOK
  OBVIOUS
<1>1. /\ BusTyped /\ Counted /\ MonitorTyped
  BY DEF MonitorInv, BusInv
<1>2. Bus!IsOrderOfHandlers(<<"subscriber">>)
  BY DEF Bus!IsOrderOfHandlers, Bus!IsInjective, Bus!ToSet, IsInjective, ToSet
<1>3. \A w \in Workers :
        \/ worker[w] \in {Bus!Gone, Bus!Getting}
        \/ /\ worker[w] = Bus!Dispatching(worker[w].item, worker[w].todo)
           /\ worker[w].item \in Bus!Items
           /\ worker[w].todo # <<>> /\ Bus!IsOrderOfHandlers(worker[w].todo)
  <2> TAKE w \in Workers
  <2>1. CASE w \in Bus!Busy
    <3>1. /\ worker[w] = Bus!Dispatching(worker[w].item, <<"subscriber">>)
          /\ worker[w].item \in Bus!Items /\ worker[w].todo = <<"subscriber">>
      BY <1>1, <2>1, WorkerIs
    <3> QED
      BY <1>2, <3>1
  <2>2. CASE w \notin Bus!Busy
    BY <1>1, <2>2, WorkerIs
  <2> QED
    BY <2>1, <2>2
<1>4. \A failure \in failures : failure[1] \in Nat /\ failure[2] \in Bus!ToSet(<<"subscriber">>)
  BY <1>1 DEF BusTyped, Bus!ToSet, ToSet
<1>5. Bus!BusTypeOK
  BY <1>1, <1>2, <1>3, <1>4, BusCounts DEF Bus!BusTypeOK, BusTyped, Counted
<1>6. ASSUME NEW r \in Runners
      PROVE  /\ Cardinality({p \in waiting : p.by = r}) <= 1
             /\ Waits(r) => run[r].pc = "announcing"
             /\ run[r].pc = "announcing" => Range(run[r].left) \subseteq DOMAIN run[r].found
  <2> DEFINE own == {p \in waiting : p.by = r}
  <2>1. \A p, q \in own : p = q
    BY <1>1 DEF MonitorTyped
  <2>2. Cardinality(own) <= 1
    <3> HIDE DEF own
    <3>1. CASE own = {}
      BY <3>1, FS_EmptySet
    <3>2. CASE own # {}
      <4>1. PICK p : own = {p}
        BY <2>1, <3>2
      <4>2. Cardinality(own) = 1
        BY <4>1, FS_Singleton
      <4> QED
        BY <4>2
    <3> QED
      BY <3>1, <3>2
  <2>4. RunTyped(run[r])
    BY <1>1 DEF MonitorTyped
  <2> QED
    BY <1>1, <2>2, <2>4 DEF MonitorTyped, Waits, RunTyped, NoRun
<1>7. Range(registered) \subseteq Components
  BY <1>1 DEF MonitorTyped, Range
<1> QED
  BY <1>1, <1>5, <1>6, <1>7 DEF MonitorTypeOK, MonitorTyped

LEMMA NewestIs ==
  ASSUME AnnounceInv, NEW c \in Components, accepted[c] # <<>>
  PROVE  IsOf(Newest(c), c) /\ previous[c] = Newest(c).event.to
<1>1. accepted[c] \in Seq(Bus!Items)
  BY DEF AnnounceInv, Recorded
<1>2. Len(accepted[c]) \in 1 .. Len(accepted[c])
  BY <1>1
<1> QED
  BY <1>2 DEF AnnounceInv, Recorded, PreviousWasAnnounced, LastAccepted, Newest

LEMMA ReportIsAnnounced == AnnounceInv => LatestWasAnnounced
<1> SUFFICES ASSUME AnnounceInv, latest # NoReport,
                    NEW found, found = latest.components
             PROVE  /\ latest.overall = "HEALTHY" =>
                         /\ DOMAIN found # {}
                         /\ \A c \in DOMAIN found : Announced(c, "HEALTHY")
                    /\ latest.overall = "FAILED" <=>
                         \E c \in DOMAIN found \cap Critical :
                           /\ found[c] = "FAILED" /\ Announced(c, "FAILED")
                           /\ \E i \in 1 .. Len(accepted[c]) :
                                accepted[c][i].priority = Bus!CRITICAL
  BY DEF LatestWasAnnounced
<1>1. /\ DOMAIN found \subseteq Components /\ latest.overall = aggregate_health(found)
      /\ \A c \in DOMAIN found : found[c] = "UNKNOWN" \/ Announced(c, found[c])
  BY DEF AnnounceInv, ReportIsTold
<1>2. ASSUME NEW c \in DOMAIN found \cap Critical, found[c] = "FAILED"
      PROVE  /\ Announced(c, "FAILED")
             /\ \E i \in 1 .. Len(accepted[c]) : accepted[c][i].priority = Bus!CRITICAL
  <2>1. Announced(c, "FAILED") /\ c \in Components
    BY <1>1, <1>2
  <2>2. PICK i \in 1 .. Len(accepted[c]) : accepted[c][i].event.to = "FAILED"
    BY <2>1 DEF Announced
  <2>3. accepted[c][i].priority = Bus!CRITICAL
    BY <2>1, <2>2 DEF AnnounceInv, Recorded, IsOf, Priority
  <2> QED
    BY <2>1, <2>3
<1>3. ASSUME latest.overall = "HEALTHY"
      PROVE  DOMAIN found # {} /\ \A c \in DOMAIN found : Announced(c, "HEALTHY")
  <2>1. DOMAIN found # {} /\ \A c \in DOMAIN found : found[c] = "HEALTHY"
    BY <1>1, <1>3 DEF aggregate_health
  <2> QED
    BY <1>1, <2>1
<1>4. latest.overall = "FAILED" <=> \E c \in DOMAIN found \cap Critical : found[c] = "FAILED"
  BY <1>1 DEF aggregate_health
<1> QED
  BY <1>2, <1>3, <1>4

\* What the health monitor remembers and reports was announced on the event bus
\* before, however its runs overlap, wait for room, are cancelled or find the bus
\* stopped (monitor.py:44-62), and each transition once unless runs overlap,
\* whatever the number of components, callers, workers and incidents.
THEOREM KnowsWhatItAnnouncedAlways == MonitorSpec => []KnowsWhatItAnnounced
<1>1. MonitorInv => KnowsWhatItAnnounced
  <2> SUFFICES ASSUME MonitorInv PROVE KnowsWhatItAnnounced
    OBVIOUS
  <2>1. AnnounceInv /\ MonitorTypeOK /\ LatestWasAnnounced
    BY MonitorTypeIs, ReportIsAnnounced DEF MonitorInv
  <2>2. OnlyTransitions
    BY DEF MonitorInv, TransitionsInv, OnlyTransitions
  <2> QED
    BY <2>1, <2>2 DEF KnowsWhatItAnnounced, AnnounceInv
<1> QED
  BY <1>1, MonitorInvAlways, PTL

\* Once a queue with one worker has been worked off, a subscriber that missed
\* nothing knows of every component what the monitor remembers, unless that is a
\* critical failure, whose event went to the front (bus.py:103-129).
THEOREM StaleOnlyIfOvertakenAlways == MonitorSpec => []StaleOnlyIfOvertaken
<1>1. MonitorInv => StaleOnlyIfOvertaken
  <2> SUFFICES ASSUME MonitorInv, queue = {}, Bus!Busy = {}, ~missed, ~overlapped,
                      Cardinality(Workers) = 1, NEW c \in Components,
                      believed[c] # previous[c]
               PROVE  c \in Critical /\ previous[c] = "FAILED"
    BY DEF StaleOnlyIfOvertaken
  <2>1. IF accepted[c] = <<>> THEN believed[c] = "UNKNOWN"
        ELSE Newest(c).priority = Bus!CRITICAL \/ Settled(c)
    <3>1. \A d \in Components :
            IF accepted[d] = <<>>
            THEN /\ believed[d] = "UNKNOWN"
                 /\ \A w \in Bus!Busy : worker[w].item.event.component # d
            ELSE Newest(d) \in queue \/ Newest(d).priority = Bus!CRITICAL \/ Settled(d)
      BY DEF MonitorInv, BeliefInv
    <3> QED
      BY <3>1
  <2>2. CASE accepted[c] = <<>>
    <3>1. previous[c] = LastAccepted(c)
      BY DEF MonitorInv, AnnounceInv, PreviousWasAnnounced
    <3> QED
      BY <2>1, <2>2, <3>1 DEF LastAccepted
  <2>3. CASE accepted[c] # <<>>
    <3>1. IsOf(Newest(c), c) /\ previous[c] = Newest(c).event.to
      BY <2>3, NewestIs DEF MonitorInv
    <3>2. Settled(c) => believed[c] = Newest(c).event.to
      BY DEF Settled
    <3>3. Newest(c).priority = Bus!CRITICAL
      BY <2>1, <2>3, <3>1, <3>2
    <3> QED
      BY <3>1, <3>3 DEF IsOf, Priority, Bus!CRITICAL, Bus!NORMAL
  <2> QED
    BY <2>2, <2>3
<1> QED
  BY <1>1, MonitorInvAlways, PTL

---------------------------------------------------------------------------
(* The gesture classifier: what its window holds, and when turns make a    *)
(* wave.                                                                   *)

Oldest == Len(trace) - Len(rolls)

GestureInv ==
  /\ trace \in Seq(Telemetry) /\ rolls \in Seq(Int)
  /\ Len(rolls) = IF Len(trace) < WaveWindow THEN Len(trace) ELSE WaveWindow
  /\ \A i \in 1 .. Len(rolls) : rolls[i] = trace[Oldest + i].roll
  /\ seen = IF trace = <<>> THEN Observation("UNKNOWN", 0)
            ELSE Named(trace[Len(trace)], rolls)

LEMMA GreatestOf ==
  ASSUME NEW T \in SUBSET Nat, T # {}, NEW n \in Nat, \A x \in T : x <= n
  PROVE  \E m \in T : \A x \in T : x <= m
<1> DEFINE D == {n - x : x \in T}
<1>1. D \in SUBSET Nat /\ D # {}
  <2>1. \A x \in T : n - x \in Nat
    OBVIOUS
  <2>2. D \subseteq Nat
    BY <2>1
  <2>3. D # {}
    OBVIOUS
  <2> QED
    BY <2>2, <2>3
<1>2. \A x \in T : n - x \in D
  OBVIOUS
<1>3. \A y \in D : \E x \in T : y = n - x
  OBVIOUS
<1> HIDE DEF D
<1>4. PICK y \in D : \A z \in D : y <= z
  BY <1>1, LeastOf
<1>5. PICK m \in T : y = n - m
  BY <1>3
<1>6. \A x \in T : x <= m
  BY <1>2, <1>4, <1>5
<1> QED
  BY <1>6

\* Three numbers in a set, and in order.
LEMMA OneLess ==
  ASSUME NEW T, IsFiniteSet(T), NEW x \in T
  PROVE  /\ IsFiniteSet(T \ {x}) /\ Cardinality(T \ {x}) \in Nat
         /\ Cardinality(T) = Cardinality(T \ {x}) + 1
<1>1. /\ IsFiniteSet(T \ {x}) /\ Cardinality(T \ {x}) = Cardinality(T) - 1
      /\ Cardinality(T) \in Nat
  BY FS_RemoveElement, FS_CardinalityType
<1>2. Cardinality(T \ {x}) \in Nat
  BY <1>1, FS_CardinalityType
<1> QED
  BY <1>1, <1>2

LEMMA ThreeOf ==
  ASSUME NEW T \in SUBSET Nat, IsFiniteSet(T)
  PROVE  /\ Cardinality(T) >= 3 => \E x, y, z \in T : x < y /\ y < z
         /\ (\E x, y, z \in T : x < y /\ y < z) => Cardinality(T) >= 3
         /\ (\E x, y, z, u \in T : x < y /\ y < z /\ z < u) => Cardinality(T) >= 4
<1>0. Cardinality({}) = 0
  BY FS_EmptySet
<1>1. ASSUME Cardinality(T) >= 3
      PROVE  \E x, y, z \in T : x < y /\ y < z
  <2>1. T # {}
    BY <1>0, <1>1
  <2>2. PICK x \in T : \A v \in T : x <= v
    BY <2>1, LeastOf
  <2> DEFINE U == T \ {x}
  <2>3. /\ IsFiniteSet(U) /\ Cardinality(U) \in Nat /\ Cardinality(U) >= 2
        /\ U \in SUBSET Nat /\ U \subseteq T /\ \A v \in U : x < v
    BY <1>1, <2>2, OneLess
  <2> HIDE DEF U
  <2>4. U # {}
    BY <1>0, <2>3
  <2>5. PICK y \in U : \A v \in U : y <= v
    BY <2>3, <2>4, LeastOf
  <2> DEFINE V == U \ {y}
  <2>6. /\ Cardinality(V) \in Nat /\ Cardinality(V) >= 1
        /\ V \subseteq U /\ \A v \in V : y < v
    BY <2>3, <2>5, OneLess
  <2> HIDE DEF V
  <2>7. PICK z : z \in V
    BY <1>0, <2>6
  <2> QED
    BY <2>3, <2>5, <2>6, <2>7
<1>2. ASSUME NEW x \in T, NEW y \in T, NEW z \in T, x < y, y < z
      PROVE  /\ Cardinality(T) >= 3
             /\ (\E u \in T : z < u) => Cardinality(T) >= 4
  <2> DEFINE U == T \ {x}
             V == U \ {y}
             W == V \ {z}
  <2>1. y \in U /\ z \in V
    BY <1>2
  <2>2. IsFiniteSet(U) /\ Cardinality(U) \in Nat /\ Cardinality(T) = Cardinality(U) + 1
    BY OneLess
  <2> HIDE DEF U
  <2>3. IsFiniteSet(V) /\ Cardinality(V) \in Nat /\ Cardinality(U) = Cardinality(V) + 1
    BY <2>1, <2>2, OneLess
  <2> HIDE DEF V
  <2>4. IsFiniteSet(W) /\ Cardinality(W) \in Nat /\ Cardinality(V) = Cardinality(W) + 1
    BY <2>1, <2>3, OneLess
  <2>5. ASSUME NEW u \in T, z < u
        PROVE  Cardinality(W) >= 1
    <3>1. u \in W
      BY <1>2, <2>5 DEF U, V
    <3> HIDE DEF W
    <3>2. Cardinality(W) = Cardinality(W \ {u}) + 1 /\ Cardinality(W \ {u}) \in Nat
      BY <2>4, <3>1, OneLess
    <3> QED
      BY <3>2
  <2> HIDE DEF W
  <2> QED
    BY <2>2, <2>3, <2>4, <2>5
<1> QED
  BY <1>1, <1>2

LEMMA SwingsAre ==
  ASSUME NEW h \in Seq(Int)
  PROVE  /\ Swings(h) \in SUBSET Nat /\ IsFiniteSet(Swings(h))
         /\ \A i \in Swings(h) : i <= Len(h)
         /\ Turns(h) \in SUBSET Nat /\ IsFiniteSet(Turns(h)) /\ Turns(h) \subseteq Swings(h)
         /\ \A i \in Turns(h) : \E j \in Swings(h) :
              /\ i < j /\ (\A k \in Swings(h) : i < k => j <= k)
              /\ IsRight(h[i]) # IsRight(h[j])
<1>1. Swings(h) \subseteq 1 .. Len(h) /\ Len(h) \in Nat
  BY DEF Swings
<1>2. Turns(h) \subseteq Swings(h)
  BY DEF Turns
<1>3. IsFiniteSet(Swings(h)) /\ IsFiniteSet(Turns(h))
  <2>1. IsFiniteSet(1 .. Len(h))
    BY <1>1, FS_Interval
  <2>2. IsFiniteSet(Swings(h))
    BY <1>1, <2>1, FS_Subset
  <2> QED
    BY <1>2, <2>2, FS_Subset
<1>4. ASSUME NEW i \in Turns(h)
      PROVE  \E j \in Swings(h) : /\ i < j /\ (\A k \in Swings(h) : i < k => j <= k)
                                  /\ IsRight(h[i]) # IsRight(h[j])
  <2>1. PICK j \in DOMAIN h : FollowedBy(h, i, j) /\ IsRight(h[i]) # IsRight(h[j])
    BY DEF Turns
  <2>2. j \in Swings(h) /\ i < j /\ \A k \in Swings(h) : ~(i < k /\ k < j)
    BY <2>1 DEF FollowedBy
  <2>3. \A k \in Swings(h) : i < k => j <= k
    BY <1>1, <2>2
  <2> QED
    BY <2>1, <2>2, <2>3
<1> QED
  BY <1>1, <1>2, <1>3, <1>4

\* Between swings to different sides there is a turn.
LEMMA TurnBetween ==
  ASSUME NEW h \in Seq(Int), NEW p \in Swings(h), NEW q \in Swings(h), p < q,
         IsRight(h[p]) # IsRight(h[q])
  PROVE  \E i \in Turns(h) : p <= i /\ i < q
<1> DEFINE S == Swings(h)
           T == {x \in S : p < x /\ IsRight(h[x]) # IsRight(h[p])}
<1>1. S \in SUBSET Nat
  BY SwingsAre
<1>2. PICK j \in T : \A x \in T : j <= x
  <2>1. T \in SUBSET Nat /\ q \in T
    BY <1>1
  <2> HIDE DEF T
  <2> QED
    BY <2>1, LeastOf
<1> DEFINE U == {x \in S : x < j}
<1>3. PICK i \in U : \A x \in U : x <= i
  <2>1. U \in SUBSET Nat /\ p \in U /\ j \in Nat /\ \A x \in U : x <= j
    BY <1>1, <1>2
  <2> HIDE DEF U, T
  <2> QED
    BY <2>1, GreatestOf
<1>4. /\ p \in Nat /\ q \in Nat /\ i \in S /\ j \in S /\ i \in Nat /\ j \in Nat
      /\ p <= i /\ i < j /\ j <= q
  BY <1>1, <1>2, <1>3
<1>5. IsRight(h[i]) = IsRight(h[p])
  <2>1. i # p => p < i
    BY <1>4
  <2>2. i \notin T
    BY <1>2, <1>4
  <2> QED
    BY <1>4, <2>1, <2>2
<1>6. FollowedBy(h, i, j)
  <2>1. \A k \in S : ~(i < k /\ k < j)
    BY <1>1, <1>3, <1>4
  <2> QED
    BY <1>4, <2>1 DEF FollowedBy
<1>7. IsRight(h[j]) # IsRight(h[p]) /\ j \in DOMAIN h
  BY <1>2 DEF Swings
<1>8. i \in Turns(h)
  BY <1>4, <1>5, <1>6, <1>7 DEF Turns
<1> QED
  BY <1>4, <1>8

Alternate(h, a, b, c, d) ==
  /\ a < b /\ b < c /\ c < d
  /\ IsRight(h[a]) # IsRight(h[b]) /\ IsRight(h[b]) # IsRight(h[c])
  /\ IsRight(h[c]) # IsRight(h[d])

\* Three turns are four swings to and fro, and the other way round.
LEMMA WaveIsToAndFro ==
  ASSUME NEW h \in Seq(Int)
  PROVE  /\ Cardinality(Swings(h)) >= 4 /\ Cardinality(Turns(h)) >= 3
            => \E a, b, c, d \in Swings(h) : Alternate(h, a, b, c, d)
         /\ (\E a, b, c, d \in Swings(h) : Alternate(h, a, b, c, d))
            => Cardinality(Swings(h)) >= 4 /\ Cardinality(Turns(h)) >= 3
<1> DEFINE S == Swings(h)
           T == Turns(h)
<1>1. /\ S \in SUBSET Nat /\ IsFiniteSet(S) /\ T \in SUBSET Nat /\ IsFiniteSet(T)
      /\ T \subseteq S
      /\ \A i \in T : \E j \in S :
           /\ i < j /\ (\A k \in S : i < k => j <= k)
           /\ IsRight(h[i]) # IsRight(h[j])
  BY SwingsAre
<1>2. \A x \in Int : IsRight(x) \in BOOLEAN
  BY DEF IsRight
<1>3. \A i \in S : h[i] \in Int
  BY DEF Swings
<1>4. ASSUME Cardinality(T) >= 3
      PROVE  \E a, b, c, d \in S : Alternate(h, a, b, c, d)
  <2>1. PICK i1 \in T, i2 \in T, i3 \in T : i1 < i2 /\ i2 < i3
    <3> HIDE DEF T
    <3> QED
      BY <1>1, <1>4, ThreeOf
  <2>2. PICK n1 \in S : /\ i1 < n1 /\ (\A k \in S : i1 < k => n1 <= k)
                        /\ IsRight(h[i1]) # IsRight(h[n1])
    BY <1>1
  <2>3. PICK n2 \in S : /\ i2 < n2 /\ (\A k \in S : i2 < k => n2 <= k)
                        /\ IsRight(h[i2]) # IsRight(h[n2])
    BY <1>1
  <2>4. PICK n3 \in S : i3 < n3 /\ IsRight(h[i3]) # IsRight(h[n3])
    BY <1>1
  <2> HIDE DEF S, T
  <2>5. /\ i1 \in Nat /\ i2 \in Nat /\ i3 \in Nat /\ n1 \in Nat /\ n2 \in Nat /\ n3 \in Nat
        /\ i1 \in S /\ i2 \in S /\ i3 \in S /\ n1 <= i2 /\ n2 <= i3
    BY <1>1, <2>1, <2>2, <2>3, <2>4
  <2>6. PICK c \in S : n1 < c /\ c <= i3 /\ IsRight(h[c]) # IsRight(h[n1])
    <3>1. CASE IsRight(h[i2]) # IsRight(h[n1])
      <4>1. n1 < i2
        BY <2>5, <3>1
      <4> QED
        BY <2>1, <2>5, <3>1, <4>1
    <3>2. CASE IsRight(h[i2]) = IsRight(h[n1])
      BY <2>3, <2>5, <3>2
    <3> QED
      BY <3>1, <3>2
  <2>7. PICK d \in S : c < d /\ IsRight(h[d]) # IsRight(h[c])
    <3>1. c \in Nat
      BY <1>1
    <3>2. CASE IsRight(h[i3]) # IsRight(h[c])
      <4>1. c < i3
        BY <2>5, <2>6, <3>1, <3>2
      <4> QED
        BY <2>5, <3>2, <4>1
    <3>3. CASE IsRight(h[i3]) = IsRight(h[c])
      BY <2>4, <2>5, <2>6, <3>1, <3>3
    <3> QED
      BY <3>2, <3>3
  <2>8. Alternate(h, i1, n1, c, d)
    BY <2>2, <2>6, <2>7 DEF Alternate
  <2> QED
    BY <2>5, <2>8
<1>5. ASSUME NEW a \in S, NEW b \in S, NEW c \in S, NEW d \in S, Alternate(h, a, b, c, d)
      PROVE  Cardinality(S) >= 4 /\ Cardinality(T) >= 3
  <2>1. /\ a < b /\ b < c /\ c < d
        /\ IsRight(h[a]) # IsRight(h[b]) /\ IsRight(h[b]) # IsRight(h[c])
        /\ IsRight(h[c]) # IsRight(h[d])
    BY <1>5 DEF Alternate
  <2>2. PICK i1 \in T : a <= i1 /\ i1 < b
    BY <2>1, TurnBetween
  <2>3. PICK i2 \in T : b <= i2 /\ i2 < c
    BY <2>1, TurnBetween
  <2>4. PICK i3 \in T : c <= i3 /\ i3 < d
    BY <2>1, TurnBetween
  <2> HIDE DEF S, T
  <2>5. i1 < i2 /\ i2 < i3
    BY <1>1, <2>2, <2>3, <2>4
  <2>6. Cardinality(T) >= 3
    BY <1>1, <2>5, ThreeOf
  <2>7. Cardinality(S) >= 4
    BY <1>1, <2>1, ThreeOf
  <2> QED
    BY <2>6, <2>7
<1> QED
  BY <1>4, <1>5

---------------------------------------------------------------------------
(* The window, and what is seen in it.                                     *)

LEMMA ConfidenceIs ==
  ASSUME NEW x \in Int, NEW full \in {16200, 19800, 2400}, 2 * Size(x) >= full
  PROVE  Confidence(x, full) \in 50 .. 100
<1> DEFINE q == (100 * Size(x)) \div full
<1>1. Size(x) \in Nat
  BY DEF Size
<1>2. q \in Int /\ q >= 50
  BY <1>1
<1>3. Confidence(x, full) = Min({100, q})
  BY DEF Confidence
<1> HIDE DEF q
<1>4. Min({100, q}) \in {100, q} /\ Min({100, q}) <= 100
  BY <1>2, LesserOfTwo
<1> QED
  BY <1>2, <1>3, <1>4

LEMMA NamedIs ==
  ASSUME NEW s \in Telemetry, NEW past \in Seq(Int), NEW o, o = Named(s, past)
  PROVE  /\ o.gesture = "WAVE" <=> IsWave(past)
         /\ IF o.gesture = "UNKNOWN" THEN o.confidence = 0 ELSE o.confidence \in 50 .. 100
<1>1. ASSUME NEW x \in {s.roll, s.pitch, s.gy, s.gz}
      PROVE  /\ Size(x) >= ROTATION => Confidence(x, 16200) \in 50 .. 100
             /\ Size(x) >= FLICK => Confidence(x, 19800) \in 50 .. 100
             /\ Size(x) >= TILT => Confidence(x, 2400) \in 50 .. 100
  <2>1. x \in Int
    BY GestureAssumption
  <2>2. Size(x) \in Int
    BY <2>1 DEF Size
  <2>3. ASSUME Size(x) >= ROTATION PROVE Confidence(x, 16200) \in 50 .. 100
    <3>1. 2 * Size(x) >= 16200
      BY <2>2, <2>3 DEF ROTATION
    <3> QED
      BY <2>1, <3>1, ConfidenceIs
  <2>4. ASSUME Size(x) >= FLICK PROVE Confidence(x, 19800) \in 50 .. 100
    <3>1. 2 * Size(x) >= 19800
      BY <2>2, <2>4 DEF FLICK
    <3> QED
      BY <2>1, <3>1, ConfidenceIs
  <2>5. ASSUME Size(x) >= TILT PROVE Confidence(x, 2400) \in 50 .. 100
    <3>1. 2 * Size(x) >= 2400
      BY <2>2, <2>5 DEF TILT
    <3> QED
      BY <2>1, <3>1, ConfidenceIs
  <2> QED
    BY <2>3, <2>4, <2>5
<1>2. CASE IsWave(past)
  BY <1>2 DEF Named, Observation
<1>3. CASE ~IsWave(past)
  <2>1. /\ o.gesture # "WAVE"
        /\ IF o.gesture = "UNKNOWN" THEN o.confidence = 0 ELSE o.confidence \in 50 .. 100
    <3>1. CASE Size(s.gz) >= ROTATION
      <4>1. o = Observation("ROTATION", Confidence(s.gz, 16200))
        BY <1>3, <3>1 DEF Named
      <4>2. Confidence(s.gz, 16200) \in 50 .. 100
        BY <1>1, <3>1
      <4> QED
        BY <4>1, <4>2 DEF Observation
    <3>2. CASE ~(Size(s.gz) >= ROTATION) /\ Size(s.gy) >= FLICK
      <4>1. o = Observation(BySign(s.gy, "FLICK_RIGHT", "FLICK_LEFT"), Confidence(s.gy, 19800))
        BY <1>3, <3>2 DEF Named
      <4>2. Confidence(s.gy, 19800) \in 50 .. 100
        BY <1>1, <3>2
      <4> QED
        BY <4>1, <4>2 DEF Observation, BySign
    <3>3. CASE ~(Size(s.gz) >= ROTATION) /\ ~(Size(s.gy) >= FLICK) /\ Size(s.roll) >= TILT
      <4>1. o = Observation(BySign(s.roll, "TILT_RIGHT", "TILT_LEFT"), Confidence(s.roll, 2400))
        BY <1>3, <3>3 DEF Named
      <4>2. Confidence(s.roll, 2400) \in 50 .. 100
        BY <1>1, <3>3
      <4> QED
        BY <4>1, <4>2 DEF Observation, BySign
    <3>4. CASE /\ ~(Size(s.gz) >= ROTATION) /\ ~(Size(s.gy) >= FLICK)
               /\ ~(Size(s.roll) >= TILT) /\ Size(s.pitch) >= TILT
      <4>1. o = Observation(BySign(s.pitch, "TILT_FORWARD", "TILT_BACKWARD"),
                            Confidence(s.pitch, 2400))
        BY <1>3, <3>4 DEF Named
      <4>2. Confidence(s.pitch, 2400) \in 50 .. 100
        BY <1>1, <3>4
      <4> QED
        BY <4>1, <4>2 DEF Observation, BySign
    <3>5. CASE /\ ~(Size(s.gz) >= ROTATION) /\ ~(Size(s.gy) >= FLICK)
               /\ ~(Size(s.roll) >= TILT) /\ ~(Size(s.pitch) >= TILT)
      <4>1. o = IF IsHeld(s) THEN Observation("HOLD", 70) ELSE Observation("UNKNOWN", 0)
        BY <1>3, <3>5 DEF Named
      <4>2. 70 \in 50 .. 100
        OBVIOUS
      <4> QED
        BY <4>1, <4>2 DEF Observation
    <3> QED
      BY <3>1, <3>2, <3>3, <3>4, <3>5
  <2> QED
    BY <1>3, <2>1
<1> QED
  BY <1>2, <1>3

LEMMA WindowIs ==
  ASSUME GestureInv
  PROVE  LET n == Len(trace)
             k == Len(rolls)
         IN /\ trace \in Seq(Telemetry) /\ n \in Nat /\ rolls \in Seq(Int) /\ k \in Nat
            /\ k = IF n < WaveWindow THEN n ELSE WaveWindow
            /\ \A i \in 1 .. k : rolls[i] = trace[n - k + i].roll
            /\ WaveWindow \in Nat /\ WaveWindow >= 4
<1>1. trace \in Seq(Telemetry) /\ rolls \in Seq(Int)
  BY DEF GestureInv
<1>2. Len(rolls) = IF Len(trace) < WaveWindow THEN Len(trace) ELSE WaveWindow
  BY DEF GestureInv
<1>3. \A i \in 1 .. Len(rolls) : rolls[i] = trace[Len(trace) - Len(rolls) + i].roll
  BY DEF GestureInv, Oldest
<1>4. WaveWindow \in Nat /\ WaveWindow >= 4
  BY GestureAssumption
<1>5. Len(trace) \in Nat /\ Len(rolls) \in Nat
  BY <1>1
<1> QED
  BY <1>1, <1>2, <1>3, <1>4, <1>5

LEMMA GestureInitInv == GestureInit => GestureInv
  BY GestureAssumption DEF GestureInit, GestureInv, Oldest

LEMMA ClassifyKeepsInv ==
  ASSUME GestureInv, NEW s \in Telemetry, Classify(s)
  PROVE  GestureInv'
<1> DEFINE n == Len(trace)
           k == Len(rolls)
           longer == Append(rolls, s.roll)
<1>1. /\ trace' = Append(trace, s) /\ rolls' = Remember(s.roll)
      /\ seen' = Named(s, Remember(s.roll))
  BY DEF Classify
<1>2. /\ trace \in Seq(Telemetry) /\ n \in Nat /\ rolls \in Seq(Int) /\ k \in Nat
      /\ k = IF n < WaveWindow THEN n ELSE WaveWindow
      /\ \A i \in 1 .. k : rolls[i] = trace[n - k + i].roll
      /\ WaveWindow \in Nat /\ WaveWindow >= 4 /\ s.roll \in Int
  <2>1. s.roll \in Int
    BY GestureAssumption
  <2> QED
    BY <2>1, WindowIs
<1>3. /\ trace' \in Seq(Telemetry) /\ Len(trace') = n + 1 /\ trace' # <<>>
      /\ trace'[n + 1] = s /\ \A i \in 1 .. n : trace'[i] = trace[i]
  BY <1>1, <1>2
<1>4. /\ longer \in Seq(Int) /\ Len(longer) = k + 1 /\ longer # <<>>
      /\ longer[k + 1] = s.roll /\ \A i \in 1 .. k : longer[i] = rolls[i]
  BY <1>2
<1>5. rolls' = IF Len(longer) > WaveWindow THEN Tail(longer) ELSE longer
  BY <1>1 DEF Remember
<1> HIDE DEF n, k, longer
<1>6. \A i \in 1 .. k + 1 : longer[i] = trace'[n - k + i].roll
  <2> TAKE i \in 1 .. k + 1
  <2>1. CASE i = k + 1
    <3>1. n - k + i = n + 1
      BY <1>2, <2>1
    <3> QED
      BY <1>3, <1>4, <2>1, <3>1
  <2>2. CASE i # k + 1
    <3>1. i \in 1 .. k /\ n - k + i \in 1 .. n
      BY <1>2, <2>2
    <3> QED
      BY <1>2, <1>3, <1>4, <3>1
  <2> QED
    BY <2>1, <2>2
<1>9. seen' = IF trace' = <<>> THEN Observation("UNKNOWN", 0)
              ELSE Named(trace'[Len(trace')], rolls')
  <2>1. trace'[Len(trace')] = s
    BY <1>2, <1>3
  <2> QED
    BY <1>1, <1>3, <2>1
<1>7. CASE n < WaveWindow
  <2>1. rolls' = longer /\ k = n
    BY <1>2, <1>4, <1>5, <1>7
  <2>2. Oldest' = n - k
    <3>1. Len(trace') = n + 1 /\ Len(rolls') = k + 1
      BY <1>3, <1>4, <2>1
    <3>2. n \in Nat /\ k \in Nat
      BY <1>2
    <3>3. (n + 1) - (k + 1) = n - k
      BY <3>2
    <3> QED
      BY <3>1, <3>3 DEF Oldest
  <2>3. Len(rolls') = IF Len(trace') < WaveWindow THEN Len(trace') ELSE WaveWindow
    BY <1>2, <1>3, <1>4, <1>7, <2>1
  <2>4. \A i \in 1 .. Len(rolls') : rolls'[i] = trace'[Oldest' + i].roll
    BY <1>4, <1>6, <2>1, <2>2
  <2> QED
    BY <1>3, <1>4, <1>9, <2>1, <2>3, <2>4 DEF GestureInv
<1>8. CASE ~(n < WaveWindow)
  <2>1. rolls' = Tail(longer) /\ k = WaveWindow
    BY <1>2, <1>4, <1>5, <1>8
  <2>2. /\ rolls' \in Seq(Int) /\ Len(rolls') = k
        /\ \A i \in 1 .. k : rolls'[i] = longer[i + 1]
    BY <1>2, <1>4, <2>1
  <2>3. Oldest' = n + 1 - k
    BY <1>2, <1>3, <2>2 DEF Oldest
  <2>4. \A i \in 1 .. k : rolls'[i] = trace'[n + 1 - k + i].roll
    <3> TAKE i \in 1 .. k
    <3>1. i + 1 \in 1 .. k + 1 /\ n - k + (i + 1) = n + 1 - k + i
      BY <1>2
    <3> QED
      BY <1>6, <2>2, <3>1
  <2>5. \A i \in 1 .. Len(rolls') : rolls'[i] = trace'[Oldest' + i].roll
    BY <2>2, <2>3, <2>4
  <2>6. Len(rolls') = IF Len(trace') < WaveWindow THEN Len(trace') ELSE WaveWindow
    BY <1>2, <1>3, <1>8, <2>1, <2>2
  <2> QED
    BY <1>3, <1>9, <2>2, <2>5, <2>6 DEF GestureInv
<1> QED
  BY <1>7, <1>8

LEMMA GestureInvAlways == GestureSpec => []GestureInv
<1>1. GestureInv /\ [GestureNext]_gestures => GestureInv'
  <2> SUFFICES ASSUME GestureInv, [GestureNext]_gestures PROVE GestureInv'
    OBVIOUS
  <2>1. CASE UNCHANGED gestures
    BY <2>1 DEF gestures, GestureInv, Oldest
  <2> QED
    BY <2>1, ClassifyKeepsInv DEF GestureNext
<1> QED
  BY <1>1, GestureInitInv, PTL DEF GestureSpec

\* What the window holds, said of the samples.
LEMMA WaveIsSeenInTrace == GestureInv => WaveMeansSwinging
<1> SUFFICES ASSUME GestureInv PROVE WaveMeansSwinging
  OBVIOUS
<1> DEFINE n == Len(trace)
           k == Len(rolls)
           Opposite(i, j) == IsRight(trace[i].roll) # IsRight(trace[j].roll)
           Far(i) == Size(trace[i].roll) >= SWING
           Swung == \E a, b, c, d \in (n - WaveWindow + 1) .. n :
                      /\ a < b /\ b < c /\ c < d
                      /\ \A i \in {a, b, c, d} : Far(i)
                      /\ Opposite(a, b) /\ Opposite(b, c) /\ Opposite(c, d)
<1>1. /\ n \in Nat /\ rolls \in Seq(Int) /\ k \in Nat
      /\ k = IF n < WaveWindow THEN n ELSE WaveWindow
      /\ \A i \in 1 .. k : rolls[i] = trace[n - k + i].roll
      /\ WaveWindow \in Nat /\ WaveWindow >= 4
  BY WindowIs
<1>2. seen.gesture = "WAVE" <=> IsWave(rolls)
  <2>1. CASE trace = <<>>
    <3>1. Len(rolls) # WaveWindow
      BY <1>1, <2>1
    <3> QED
      BY <2>1, <3>1 DEF GestureInv, Observation, IsWave
  <2>2. CASE trace # <<>>
    <3>1. trace[n] \in Telemetry /\ seen = Named(trace[n], rolls)
      BY <2>2 DEF GestureInv
    <3> QED
      BY <1>1, <3>1, NamedIs
  <2> QED
    BY <2>1, <2>2
<1>3. ASSUME n >= WaveWindow
      PROVE  Swung <=> \E a, b, c, d \in Swings(rolls) : Alternate(rolls, a, b, c, d)
  <2> DEFINE o == n - WaveWindow
  <2>1. k = WaveWindow /\ o \in Nat /\ o = n - k /\ DOMAIN rolls = 1 .. k
    BY <1>1, <1>3
  <2>2. \A i \in 1 .. k : rolls[i] = trace[o + i].roll
    BY <1>1, <2>1
  <2>3. \A i \in Swings(rolls) : i \in 1 .. k /\ Size(rolls[i]) >= SWING
    BY <2>1 DEF Swings
  <2>4. \A i \in 1 .. k : Size(rolls[i]) >= SWING => i \in Swings(rolls)
    BY <2>1 DEF Swings
  <2>5. ASSUME NEW a \in Swings(rolls), NEW b \in Swings(rolls), NEW c \in Swings(rolls),
               NEW d \in Swings(rolls), Alternate(rolls, a, b, c, d)
        PROVE  Swung
    <3> DEFINE At(i) == o + i
    <3>1. \A i \in Swings(rolls) : /\ At(i) \in (n - WaveWindow + 1) .. n
                                   /\ trace[At(i)].roll = rolls[i] /\ Far(At(i))
      <4> TAKE i \in Swings(rolls)
      <4>1. i \in 1 .. k /\ Size(rolls[i]) >= SWING
        BY <2>3
      <4>2. At(i) \in (n - WaveWindow + 1) .. n
        BY <1>1, <2>1, <4>1
      <4> QED
        BY <2>2, <4>1, <4>2
    <3>2. /\ a < b /\ b < c /\ c < d
          /\ IsRight(rolls[a]) # IsRight(rolls[b]) /\ IsRight(rolls[b]) # IsRight(rolls[c])
          /\ IsRight(rolls[c]) # IsRight(rolls[d])
      BY <2>5 DEF Alternate
    <3>3. At(a) < At(b) /\ At(b) < At(c) /\ At(c) < At(d)
      BY <2>1, <2>3, <3>2
    <3>4. Opposite(At(a), At(b)) /\ Opposite(At(b), At(c)) /\ Opposite(At(c), At(d))
      BY <3>1, <3>2
    <3> HIDE DEF At, Far, Opposite
    <3> QED
      BY <3>1, <3>3, <3>4
  <2>6. ASSUME NEW a \in (n - WaveWindow + 1) .. n, NEW b \in (n - WaveWindow + 1) .. n,
               NEW c \in (n - WaveWindow + 1) .. n, NEW d \in (n - WaveWindow + 1) .. n,
               a < b, b < c, c < d, Far(a), Far(b), Far(c), Far(d),
               Opposite(a, b), Opposite(b, c), Opposite(c, d)
        PROVE  \E w, x, y, z \in Swings(rolls) : Alternate(rolls, w, x, y, z)
    <3> DEFINE At(i) == i - o
    <3>1. ASSUME NEW i \in (n - WaveWindow + 1) .. n
          PROVE  At(i) \in 1 .. k /\ rolls[At(i)] = trace[i].roll
      <4>1. At(i) \in 1 .. k /\ o + At(i) = i
        BY <1>1, <2>1
      <4> HIDE DEF At
      <4> QED
        BY <2>2, <4>1
    <3>2. /\ At(a) \in Swings(rolls) /\ At(b) \in Swings(rolls)
          /\ At(c) \in Swings(rolls) /\ At(d) \in Swings(rolls)
      BY <2>4, <2>6, <3>1
    <3>3. At(a) < At(b) /\ At(b) < At(c) /\ At(c) < At(d)
      BY <1>1, <2>1, <2>6
    <3>4. Alternate(rolls, At(a), At(b), At(c), At(d))
      BY <2>6, <3>1, <3>3 DEF Alternate
    <3> QED
      BY <3>2, <3>4
  <2>7. Swung => \E a, b, c, d \in Swings(rolls) : Alternate(rolls, a, b, c, d)
    <3> HIDE DEF Far, Opposite
    <3> QED
      BY <2>6
  <2> QED
    BY <2>5, <2>7
<1>4. IsWave(rolls) <=> n >= WaveWindow /\ Swung
  <2>1. Len(rolls) = WaveWindow <=> n >= WaveWindow
    BY <1>1
  <2>2. IsWave(rolls) <=> /\ Len(rolls) = WaveWindow
                          /\ \E a, b, c, d \in Swings(rolls) : Alternate(rolls, a, b, c, d)
    BY <1>1, WaveIsToAndFro DEF IsWave
  <2> HIDE DEF Swung
  <2> QED
    BY <1>3, <2>1, <2>2
<1> QED
  BY <1>2, <1>4 DEF WaveMeansSwinging

\* The classifier says WAVE exactly when, among the last samples that fill its
\* window, the hand was far to one side, to the other, and back and forth again;
\* and whatever it recognizes has a confidence between 50 and 100 percent
\* (classifier.py:35-104), for every window and every reading of the sensors.
THEOREM GestureIsSoundAlways == GestureSpec => []GestureIsSound
<1>1. GestureInv => GestureIsSound
  <2> SUFFICES ASSUME GestureInv PROVE GestureIsSound
    OBVIOUS
  <2>1. ConfidenceIsUsable
    <3>1. CASE trace = <<>>
      BY <3>1 DEF GestureInv, Observation, ConfidenceIsUsable
    <3>2. CASE trace # <<>>
      <4>1. /\ trace[Len(trace)] \in Telemetry /\ seen = Named(trace[Len(trace)], rolls)
            /\ rolls \in Seq(Int)
        BY <3>2 DEF GestureInv
      <4> QED
        BY <4>1, NamedIs DEF ConfidenceIsUsable
    <3> QED
      BY <3>1, <3>2
  <2> QED
    BY <2>1, WaveIsSeenInTrace DEF GestureIsSound
<1> QED
  BY <1>1, GestureInvAlways, PTL
===========================================================================
