--------------------- MODULE MotionSafetySupervisor ---------------------
(***************************************************************************)
(* The only part of the host that may authorize motion                     *)
(* (src/rci/safety/supervisor.py).  It owns one lifecycle controller and   *)
(* one envelope; evaluate() feeds the controller with what the candidate   *)
(* reports, then asks it, then asks the pure checks.  evaluate() is        *)
(* synchronous: nothing of the host runs between its calls.                *)
(***************************************************************************)
EXTENDS SafetyLifecycle, FiniteSets

CONSTANTS
  Missing,            \* None
  Envelope,           \* MotionSafetySupervisor._envelope
  Candidates, AllDynamics,   \* what callers of evaluate() pass
  MaxAuthorizations   \* bound

VARIABLES
  minted,             \* the authorizations handed out so far
  last,               \* the last evaluation: its inputs and its result
  shown               \* the stops evaluations were shown since the last reset

vars == <<snapshot, minted, last, shown>>

ME == INSTANCE MotionEligibility
        WITH Requests <- {}, request <- <<>>, verdict <- <<>>

\* The constructor refuses an envelope whose policy disagrees with the
\* controller about the heartbeat timeout.
ASSUME SameTimeoutAssumption ==
  Envelope.motion_policy # Missing
    => Envelope.motion_policy.heartbeat_timeout_ms = HeartbeatTimeout

ASSUME ConstantsAssumption ==
  /\ NonFinite \notin Int /\ Missing \notin Int \cup {NonFinite}

\* The dataclasses' annotations.
ASSUME InputsAssumption ==
  /\ \A cand \in Candidates : cand.estop_active \in BOOLEAN
  /\ \A dyn \in AllDynamics : ME!WellTyped(Envelope, dyn)

Decisions == {"APPROVE", "REJECT", "ESTOP"}

---------------------------------------------------------------------------

\* Seeded fault: the heartbeat is not reported to the controller.
AfterButtonReport(s, cand, dyn) == AfterPhysicalEstop(s, cand.estop_active)

\* The controller is told of the button and the heartbeat in this order.
AfterReports(s, cand, dyn) ==
  AfterHeartbeatAge(AfterPhysicalEstop(s, cand.estop_active),
                       dyn.heartbeat_age_ms)

\* _evaluate_lifecycle: what alone forbids motion, whatever the candidate.
LifecycleVerdict(s) ==
  CASE s.estop_latched \/ s.physical_estop_active ->
         [decision |-> "ESTOP", violations |-> {"LIFECYCLE_ESTOP_LATCHED"}]
    [] ~(s.estop_latched \/ s.physical_estop_active) /\ ~s.watchdog_armed ->
         [decision |-> "REJECT", violations |-> {"WATCHDOG_NOT_ARMED"}]
    [] OTHER -> [decision |-> "REJECT", violations |-> {"WATCHDOG_UNHEALTHY"}]

\* Seeded fault: only a latch blocks motion, not a watchdog that is off.
EvaluationVerdictLatchOnly(s, cand, dyn) ==
  IF s.estop_latched THEN LifecycleVerdict(s)
  ELSE ME!AssessDynamicMotionEligibility(Envelope, cand, dyn)

\* The whole decision.  The code's last test of the policy and the point is
\* implied by the eligibility checks it follows.
EvaluationVerdict(s, cand, dyn) ==
  IF MotionBlocked(s) THEN LifecycleVerdict(s)
  ELSE ME!AssessDynamicMotionEligibility(Envelope, cand, dyn)

\* Seeded fault: the mark is the number of the next change.
MintedForNext(s, cand) ==
  [lifecycle_sequence |-> s.sequence + 1,
   joint_targets_deg |-> cand.joint_targets_deg]

MintedFor(s, cand) ==
  [lifecycle_sequence |-> s.sequence,
   joint_targets_deg |-> cand.joint_targets_deg]

\* The stops an evaluation is shown.  A heartbeat counts while the watchdog that
\* listens to it is armed.
ReportedStops(s, cand, dyn) ==
  (IF cand.estop_active THEN {"HARDWARE_ESTOP"} ELSE {})
  \cup (IF s.watchdog_armed /\ AgeInvalid(dyn.heartbeat_age_ms)
        THEN {"WATCHDOG_INVALID"} ELSE {})
  \cup (IF s.watchdog_armed /\ ~AgeInvalid(dyn.heartbeat_age_ms)
            /\ AgeStale(dyn.heartbeat_age_ms)
        THEN {"WATCHDOG_TIMEOUT"} ELSE {})

NoEvaluation ==
  [decision |-> "REJECT", violations |-> {}, candidate |-> Missing,
   dynamics |-> Missing, stops |-> {}]

Init ==
  /\ LifecycleInit
  /\ minted = {}
  /\ last = NoEvaluation
  /\ shown = {}

Evaluate(cand, dyn) ==
  LET s == AfterReports(snapshot, cand, dyn)
      verdict == EvaluationVerdict(s, cand, dyn)
  IN /\ Becomes(s)
     /\ minted' = IF verdict.decision = "APPROVE"
                  THEN minted \cup {MintedFor(s, cand)} ELSE minted
     /\ Cardinality(minted') <= MaxAuthorizations
     /\ last' = [decision |-> verdict.decision, violations |-> verdict.violations,
                 candidate |-> cand, dynamics |-> dyn,
                 stops |-> ReportedStops(snapshot, cand, dyn)]
     /\ shown' = shown \cup ReportedStops(snapshot, cand, dyn)

\* The supervisor's other methods pass on to the controller, which its owner may
\* also call itself.
GrantedReset == RequestManualReset /\ ResetDenials(snapshot) = {}

CallController ==
  /\ LifecycleNext
  /\ shown' = IF GrantedReset THEN {} ELSE shown
  /\ UNCHANGED <<minted, last>>

Next ==
  \/ \E cand \in Candidates, dyn \in AllDynamics : Evaluate(cand, dyn)
  \/ CallController

Spec == Init /\ [][Next]_vars

---------------------------------------------------------------------------
(* Properties.                                                             *)

TypeOK ==
  /\ snapshot \in Snapshots
  /\ \A a \in minted : a.lifecycle_sequence \in Nat
  /\ last.decision \in Decisions
  /\ shown \subseteq Causes

\* lifecycle_sequence is a sound freshness mark: an authorization whose number
\* is still the controller's was not followed by any stop, disarming or lost
\* heartbeat.  (That the gateway never looks at the mark is checked elsewhere.)
CurrentAuthorizationIsPermitted ==
  \A a \in minted :
    /\ a.lifecycle_sequence <= snapshot.sequence
    /\ a.lifecycle_sequence = snapshot.sequence => ~MotionBlocked(snapshot)

\* Only a safe motion is ever approved, and only while the controller permits
\* motion: the two layers of checks leave no gap between them.
ApprovedMotionIsSafe ==
  [][minted' # minted =>
       /\ ME!SafeMotion(Envelope, last'.candidate, last'.dynamics)
       /\ ~MotionBlocked(snapshot')
       /\ snapshot.causes = {} /\ snapshot.watchdog_armed]_vars

\* A stop that an evaluation was shown, a pressed button or, with the watchdog
\* armed, a heartbeat too old or without a value, holds the latch under its own
\* cause from then on, whatever is reported or called later, until a reset is
\* granted; the evaluation that was shown it answers ESTOP.  Both layers test the
\* button and the heartbeat, and the checks, which latch nothing, never get to
\* be the ones that find them.  (With the watchdog disarmed a lost heartbeat is
\* no stop: the motion is rejected for the watchdog and no latch remains.)
StopsAlwaysLatch ==
  /\ shown # {} => snapshot.estop_latched
  /\ shown \subseteq snapshot.causes
  /\ last.stops # {} => last.decision = "ESTOP"
  /\ last.violations \cap {"ESTOP_ACTIVE", "HEARTBEAT_STALE", "HEARTBEAT_AGE_INVALID"}
       = {}
===========================================================================
