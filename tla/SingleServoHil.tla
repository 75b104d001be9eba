-------------------------- MODULE SingleServoHil --------------------------
(***************************************************************************)
(* The first motion of one real servo: the operator's evidence, the gate   *)
(* that turns it into a permit file (src/rci/hil/), and the guard in the   *)
(* firmware that is configured, armed and asked for each target            *)
(* (firmware/robot/hil_single_servo.h).  How the calibration of a permit   *)
(* reaches the guard is not in the repository: any calibration may be      *)
(* offered to it.                                                          *)
(*                                                                         *)
(* Angles are in the guard's units and pulses in microseconds; both are    *)
(* small integers.  Documents are records; a file that is half written is  *)
(* "partial".                                                              *)
(***************************************************************************)
EXTENDS Integers, FiniteSets

CONSTANTS
  Absent,         \* no document, no file
  Evidences,      \* documents the operator may submit
  Configs,        \* what the servo configuration may say
  Results,        \* run results the operator may record
  Calibrations,   \* calibrations offered to the guard
  Angles,         \* angles at which it is asked, as current and as target
  MaxRuns,        \* bound on the different questions to the gate
  AngleWidth      \* values of the type of an angle: 2^16 in the code

ASSUME HilAssumption == AngleWidth \in Nat \ {0} /\ MaxRuns \in Nat

\* The types of SingleServoHilCalibration: two angles are less than AngleWidth apart.
ASSUME CalibrationsAssumption ==
  /\ Absent \notin Calibrations /\ Angles \subseteq Int
  /\ \A c \in Calibrations :
       /\ {c.lower, c.neutral, c.upper, c.test_lower, c.test_upper} \subseteq Int
       /\ c.test_upper - c.test_lower < AngleWidth
       /\ {c.lower_pulse, c.neutral_pulse, c.upper_pulse, c.max_step} \subseteq Nat
       /\ c.protocol_id \in 0 .. 255

VARIABLES
  files,    \* permit, run result and their temporary files
  writing,  \* the document being written and how far, or Absent
  gated,    \* [evidence, config] the gate was asked about (history)
  guard,    \* SingleServoHilGuard: configured_, armed_, estop_latched_, calibration_
  given     \* what the guard was last offered, and what is owed to it before a
            \* target may be eligible: an arming, a reset (history)

hil == <<files, writing, gated, guard, given>>

---------------------------------------------------------------------------
(* Evidence and the gate.                                                  *)

\* The order of the pulses may be either way.
PulsesValid(c) ==
  \/ c.lower_pulse < c.neutral_pulse /\ c.neutral_pulse < c.upper_pulse
  \/ c.upper_pulse < c.neutral_pulse /\ c.neutral_pulse < c.lower_pulse

\* ServoCalibrationEvidence: Field constraints and validate_ranges
CalibrationValid(c) ==
  /\ c.protocol_id \in 1 .. 255
  /\ c.lower_pulse > 0 /\ c.neutral_pulse > 0 /\ c.upper_pulse > 0 /\ c.max_step > 0
  /\ c.lower < c.neutral /\ c.neutral < c.upper
  /\ PulsesValid(c)
  /\ c.lower <= c.test_lower /\ c.test_lower < c.test_upper /\ c.test_upper <= c.upper
  /\ c.test_lower <= c.neutral /\ c.neutral <= c.test_upper
  /\ c.max_step <= c.test_upper - c.test_lower

\* SingleServoHilEvidence.require_artifact_classes, with that of its parts
EvidenceValid(e) ==
  e.timezone /\ {"wiring", "measurement"} \subseteq e.kinds /\ CalibrationValid(e.calibration)

Checks ==
  {"common_ground", "rails_separate", "independent_estop", "power_cut",
   "servo_secured", "load_path_clear", "manual_range", "hard_stop_clearance"}

\* Seeded fault: the channel is not compared.
MatchesWithoutChannel(e, c) ==
  /\ e.joint \in DOMAIN c.joints /\ c.joints[e.joint].protocol_id = e.calibration.protocol_id
  /\ c.driver = e.driver

\* No CONFIG_ reason: the servo measured is the one that is configured, on the
\* same channel, with the same driver and frequency.
MatchesConfig(e, c) ==
  /\ e.joint \in DOMAIN c.joints
  /\ c.joints[e.joint] = [protocol_id |-> e.calibration.protocol_id, channel |-> e.channel]
  /\ c.driver = e.driver

\* SingleServoHilGate.evaluate
Approved(e, c) == MatchesConfig(e, c) /\ e.checks = Checks

\* The permit carries the digest of the evidence and its calibration.
Permit(e) == [evidence |-> e, calibration |-> e.calibration]

\* SingleServoHilRunResult.validate_result
ResultValid(r) ==
  /\ r.timezone /\ r.started <= r.completed
  /\ r.outcome = "pass" =>
       /\ r.observations > 0 /\ ~r.unexpected_motion
       /\ r.estop_response /\ r.power_cut_response
       /\ "measurement" \in r.kinds /\ {"video", "telemetry"} \cap r.kinds # {}

---------------------------------------------------------------------------
(* Files.                                                                  *)

Names == {"permit", "result"}

BeginWrite(name, document) ==
  /\ writing' = [name |-> name, document |-> document, done |-> FALSE]
  /\ files' = [files EXCEPT !.temporary[name] = "partial"]

\* cli.main: evidence that is not valid, or that the gate denies, ends the run
\* and leaves whatever permit there is.
Submit(e, c) ==
  /\ writing = Absent
  /\ EvidenceValid(e)
  /\ gated' = gated \cup {<<e, c>>} /\ Cardinality(gated') <= MaxRuns
  /\ IF Approved(e, c) THEN BeginWrite("permit", Permit(e)) ELSE UNCHANGED <<files, writing>>
  /\ UNCHANGED <<guard, given>>

\* write_run_result
Record(r) ==
  /\ writing = Absent /\ ResultValid(r)
  /\ BeginWrite("result", r)
  /\ UNCHANGED <<gated, guard, given>>

\* The rest of write_text, into the temporary file
Finish ==
  /\ writing # Absent /\ ~writing.done
  /\ writing' = [writing EXCEPT !.done = TRUE]
  /\ files' = [files EXCEPT !.temporary[writing.name] = writing.document]
  /\ UNCHANGED <<gated, guard, given>>

\* os.replace
Replace ==
  /\ writing # Absent /\ writing.done
  /\ files' = [final |-> [files.final EXCEPT ![writing.name] = writing.document],
               temporary |-> [files.temporary EXCEPT ![writing.name] = Absent]]
  /\ writing' = Absent
  /\ UNCHANGED <<gated, guard, given>>

\* An OSError is answered by removing the temporary file; a crash leaves it.
Fail ==
  /\ writing # Absent /\ writing' = Absent
  /\ \/ files' = [files EXCEPT !.temporary[writing.name] = Absent]
     \/ UNCHANGED files
  /\ UNCHANGED <<gated, guard, given>>

---------------------------------------------------------------------------
(* The guard.                                                              *)

\* test_span is cast to the unsigned type of the step.
StepFits(c) == c.max_step <= (c.test_upper - c.test_lower) % AngleWidth

ValidHilCalibration(c) ==
  /\ c.protocol_id # 0 /\ c.max_step # 0
  /\ c.lower < c.neutral /\ c.neutral < c.upper
  /\ c.lower <= c.test_lower /\ c.test_lower < c.test_upper /\ c.test_upper <= c.upper
  /\ c.test_lower <= c.neutral /\ c.neutral <= c.test_upper
  /\ 0 \notin {c.lower_pulse, c.neutral_pulse, c.upper_pulse}
  /\ PulsesValid(c)
  /\ StepFits(c)

\* Seeded fault: a new calibration leaves the guard armed.
ConfiguredStillArmed(c) ==
  [guard EXCEPT !.configured = TRUE, !.latched = FALSE, !.calibration = c]

Configured(c) ==
  [configured |-> TRUE, armed |-> FALSE, latched |-> FALSE, calibration |-> c]

\* A calibration that is not valid leaves the latch and the old calibration.
Configure(c) ==
  /\ guard' = IF ValidHilCalibration(c) THEN Configured(c)
              ELSE [guard EXCEPT !.configured = FALSE, !.armed = FALSE]
  /\ given' = [offered |-> c,
               owed |-> {"arm"} \cup IF CalibrationValid(c) THEN {} ELSE given.owed]
  /\ UNCHANGED <<files, writing, gated>>

\* The four arguments: wiring, independent E-stop, E-stop clear, acknowledgement
Arm(verified) ==
  /\ guard' = [guard EXCEPT
       !.armed = guard.configured /\ ~guard.latched /\ verified = 1 .. 4]
  /\ given' = [given EXCEPT
       !.owed = IF verified = 1 .. 4 THEN @ \ {"arm"} ELSE @ \cup {"arm"}]
  /\ UNCHANGED <<files, writing, gated>>

ObserveEstop(active) ==
  /\ IF active
     THEN /\ guard' = [guard EXCEPT !.latched = TRUE, !.armed = FALSE]
          /\ given' = [given EXCEPT !.owed = {"arm", "reset"}]
     ELSE UNCHANGED <<guard, given>>
  /\ UNCHANGED <<files, writing, gated>>

ManualReset(clear, acknowledged) ==
  /\ IF guard.configured /\ clear /\ acknowledged
     THEN /\ guard' = [guard EXCEPT !.latched = FALSE, !.armed = FALSE]
          /\ given' = [given EXCEPT !.owed = {"arm"}]
     ELSE UNCHANGED <<guard, given>>
  /\ UNCHANGED <<files, writing, gated>>

\* EvaluateTarget, which changes nothing
EvaluateTarget(id, current, target) ==
  LET delta == target - current
  IN /\ guard.configured /\ guard.armed /\ ~guard.latched
     /\ id = guard.calibration.protocol_id
     /\ guard.calibration.test_lower <= target /\ target <= guard.calibration.test_upper
     /\ (IF delta < 0 THEN -delta ELSE delta) <= guard.calibration.max_step

---------------------------------------------------------------------------

HilInit ==
  /\ files = [final |-> [n \in Names |-> Absent], temporary |-> [n \in Names |-> Absent]]
  /\ writing = Absent /\ gated = {}
  /\ guard = [configured |-> FALSE, armed |-> FALSE, latched |-> FALSE, calibration |-> Absent]
  /\ given = [offered |-> Absent, owed |-> {"arm"}]

DocumentStep ==
  \/ \E e \in Evidences, c \in Configs : Submit(e, c)
  \/ \E r \in Results : Record(r)
  \/ Finish \/ Replace \/ Fail

GuardStep ==
  \/ \E c \in Calibrations : Configure(c)
  \/ \E verified \in SUBSET (1 .. 4) : Arm(verified)
  \/ \E active \in BOOLEAN : ObserveEstop(active)
  \/ \E clear, acknowledged \in BOOLEAN : ManualReset(clear, acknowledged)

HilNext == DocumentStep \/ GuardStep

HilSpec == HilInit /\ [][HilNext]_hil

---------------------------------------------------------------------------

\* At whatever point writing breaks off, the permit file is absent or is the
\* whole permit of evidence that the gate was asked about, all of it verified,
\* for the servo that was then configured; and the result file is absent or a
\* whole result, a pass only with both stops tried out.
PermitIsEarned ==
  LET permit == files.final["permit"]
      result == files.final["result"]
  IN /\ permit # Absent =>
          \E run \in gated :
            LET e == run[1] IN LET joints == run[2].joints IN
            /\ permit = [evidence |-> e, calibration |-> e.calibration]
            /\ Cardinality(e.checks) = 8 /\ run[2].driver = e.driver
            /\ e.joint \in DOMAIN joints /\ joints[e.joint].channel = e.channel
            /\ joints[e.joint].protocol_id = permit.calibration.protocol_id
     /\ result # Absent =>
          result \in Results /\ (result.outcome = "pass" =>
                                   result.estop_response /\ result.power_cut_response)

\* The host and the guard take the same calibrations: no permit is written that
\* the guard refuses, and the guard takes none that the host would not permit.
GuardAgreesWithHost ==
  given.offered # Absent => (guard.configured <=> CalibrationValid(given.offered))

\* A target is eligible only if the guard was armed with everything verified
\* after the last calibration and after the last E-stop, and then within the
\* range of the first test, which is within the measured range, and no further
\* away than one step.  (Configuring again clears the latch without a manual
\* reset, but never arms.)
EligibleMeansSafe ==
  \A id \in {0, 1}, current, target \in Angles :
    EvaluateTarget(id, current, target) =>
      LET c == given.offered
      IN /\ given.owed = {}
         /\ id = c.protocol_id
         /\ c.lower <= target /\ target <= c.upper
         /\ c.test_lower <= target /\ target <= c.test_upper
         /\ target - current \in -c.max_step .. c.max_step
         /\ c.max_step <= c.test_upper - c.test_lower

\* The guard takes the calibrations the host permits, and moves within them only.
GuardKeepsCalibration == GuardAgreesWithHost /\ EligibleMeansSafe

===========================================================================
