------------------------- MODULE SafetyLifecycle -------------------------
(***************************************************************************)
(* The host's latched emergency stop and watchdog                          *)
(* (src/rci/safety/lifecycle.py, SafetyLifecycleController).               *)
(*                                                                         *)
(* The controller has no timers and no tasks: every method runs to its end *)
(* on the caller's thread and replaces one immutable snapshot.  The state  *)
(* is therefore one record, and each method is one action.  The methods    *)
(* are also given as functions from a snapshot to a snapshot (After...),   *)
(* so that modules that embed the controller apply the same definitions.   *)
(***************************************************************************)
EXTENDS Integers

CONSTANTS
  HeartbeatTimeout,   \* policy.heartbeat_timeout_ms
  Ages,               \* heartbeat ages a caller may report
  NonFinite,          \* NaN or an infinity, reported as an age
  MaxSequence         \* bound on the number of committed changes

ASSUME TimeoutAssumption == HeartbeatTimeout \in Nat \ {0}
ASSUME AgesAssumption == Ages \subseteq Int \cup {NonFinite}
ASSUME MaxSequenceAssumption == MaxSequence \in Nat

VARIABLE snapshot     \* SafetyLifecycleController._snapshot

Causes == {"HARDWARE_ESTOP", "SOFTWARE_ESTOP",
           "WATCHDOG_TIMEOUT", "WATCHDOG_INVALID"}

\* A latest_reason is free text; what matters is which event wrote it.
NoReason == "none"
ManualResetDone == "manual_reset"
Reasons == Causes \cup {NoReason, ManualResetDone}

Snapshots ==
  [sequence : Nat, watchdog_armed : BOOLEAN, watchdog_healthy : BOOLEAN,
   physical_estop_active : BOOLEAN, estop_latched : BOOLEAN,
   causes : SUBSET Causes, latest_reason : Reasons]

InitialSnapshot ==
  [sequence |-> 0, watchdog_armed |-> FALSE, watchdog_healthy |-> FALSE,
   physical_estop_active |-> FALSE, estop_latched |-> FALSE,
   causes |-> {}, latest_reason |-> NoReason]

MotionBlocked(s) ==
  \/ s.estop_latched
  \/ s.physical_estop_active
  \/ ~s.watchdog_armed
  \/ ~s.watchdog_healthy

---------------------------------------------------------------------------
(* The methods, as functions of the snapshot.                              *)

AgeInvalid(age) == IF age = NonFinite THEN TRUE ELSE age < 0
AgeStale(age) == age > HeartbeatTimeout
AgeFresh(age) == ~AgeInvalid(age) /\ ~AgeStale(age)

\* _commit: every change takes the next sequence number.
Commit(s) == [s EXCEPT !.sequence = @ + 1]

\* _latch: the cause joins the others, the latch is set, one commit.
Latched(s, cause) ==
  [Commit(s) EXCEPT !.estop_latched = TRUE, !.causes = @ \cup {cause},
                    !.latest_reason = cause]

AfterArm(s) ==
  IF s.watchdog_armed THEN s
  ELSE [Commit(s) EXCEPT !.watchdog_armed = TRUE, !.watchdog_healthy = FALSE]

\* Seeded fault: disarming keeps the last verdict on the heartbeat.
AfterDisarmKeepingHealth(s) ==
  IF ~s.watchdog_armed THEN s ELSE [Commit(s) EXCEPT !.watchdog_armed = FALSE]

AfterDisarm(s) ==
  IF ~s.watchdog_armed /\ ~s.watchdog_healthy THEN s
  ELSE [Commit(s) EXCEPT !.watchdog_armed = FALSE, !.watchdog_healthy = FALSE]

AfterHeartbeatAge(s, age) ==
  CASE ~s.watchdog_armed -> s
    [] s.watchdog_armed /\ ~AgeFresh(age) ->
         [Latched(s, IF AgeInvalid(age) THEN "WATCHDOG_INVALID"
                                        ELSE "WATCHDOG_TIMEOUT")
            EXCEPT !.watchdog_healthy = FALSE]
    [] s.watchdog_armed /\ AgeFresh(age) /\ s.watchdog_healthy -> s
    [] OTHER -> [Commit(s) EXCEPT !.watchdog_healthy = TRUE]

\* Seeded fault: releasing the button takes its cause back.
AfterPhysicalEstopForgetting(s, active) ==
  IF active THEN [Latched(s, "HARDWARE_ESTOP") EXCEPT !.physical_estop_active = TRUE]
  ELSE [Commit(s) EXCEPT !.physical_estop_active = FALSE,
                         !.causes = @ \ {"HARDWARE_ESTOP"}]

AfterPhysicalEstop(s, active) ==
  CASE active ->
         [Latched(s, "HARDWARE_ESTOP") EXCEPT !.physical_estop_active = TRUE]
    [] ~active /\ s.physical_estop_active ->
         [Commit(s) EXCEPT !.physical_estop_active = FALSE]
    [] OTHER -> s

AfterSoftwareEstop(s) == Latched(s, "SOFTWARE_ESTOP")

\* Seeded fault: the button is not looked at.
ResetDenialsButtonIgnored(s) ==
  IF ~s.estop_latched THEN {"NO_LATCH"}
  ELSE IF ~s.watchdog_healthy THEN {"WATCHDOG_UNHEALTHY"} ELSE {}

\* request_manual_reset refuses while any of its denials applies.
ResetDenials(s) ==
  IF ~s.estop_latched THEN {"NO_LATCH"}
  ELSE (IF s.physical_estop_active THEN {"PHYSICAL_ESTOP_ACTIVE"} ELSE {})
       \cup (IF ~s.watchdog_armed THEN {"WATCHDOG_NOT_ARMED"}
             ELSE IF ~s.watchdog_healthy THEN {"WATCHDOG_UNHEALTHY"} ELSE {})

AfterManualReset(s) ==
  IF ResetDenials(s) # {} THEN s
  ELSE [Commit(s) EXCEPT !.estop_latched = FALSE, !.causes = {},
                         !.latest_reason = ManualResetDone]

---------------------------------------------------------------------------
(* The state machine.                                                      *)

LifecycleInit == snapshot = InitialSnapshot

\* A call that commits nothing is always possible; one that commits needs room
\* below the bound.
Becomes(s) == s.sequence <= MaxSequence /\ snapshot' = s

ArmWatchdog == Becomes(AfterArm(snapshot))
DisarmWatchdog == Becomes(AfterDisarm(snapshot))
ObserveHeartbeatAge(age) == Becomes(AfterHeartbeatAge(snapshot, age))
SetPhysicalEstop(active) == Becomes(AfterPhysicalEstop(snapshot, active))
TriggerSoftwareEstop == Becomes(AfterSoftwareEstop(snapshot))
RequestManualReset == Becomes(AfterManualReset(snapshot))

LifecycleNext ==
  \/ ArmWatchdog
  \/ DisarmWatchdog
  \/ \E age \in Ages : ObserveHeartbeatAge(age)
  \/ \E active \in BOOLEAN : SetPhysicalEstop(active)
  \/ TriggerSoftwareEstop
  \/ RequestManualReset

LifecycleSpec == LifecycleInit /\ [][LifecycleNext]_snapshot

---------------------------------------------------------------------------
(* Properties.                                                             *)

\* Type invariant: the snapshot always has the fields and ranges of
\* SafetyLifecycleSnapshot.
LifecycleTypeOK == snapshot \in Snapshots

\* The flags, the set of causes and the displayed reason are written by six
\* methods that each touch a part of them; in every state they agree.  A
\* pressed button stays latched under its own cause, a healthy watchdog is an
\* armed one, and the reason a rejected caller is shown is a recorded cause.
LatchIsExplained ==
  /\ snapshot.estop_latched <=> snapshot.causes # {}
  /\ snapshot.estop_latched => snapshot.latest_reason \in snapshot.causes
  /\ snapshot.physical_estop_active => "HARDWARE_ESTOP" \in snapshot.causes
  /\ snapshot.watchdog_healthy => snapshot.watchdog_armed

\* No call forgets a stop cause except a manual reset that finds the button
\* released and a fresh heartbeat on an armed watchdog; that reset forgets all
\* of them at once and leaves motion permitted, never merely half released.
CausesForgottenOnlyByReset ==
  [][~(snapshot.causes \subseteq snapshot'.causes)
       => /\ ResetDenials(snapshot) = {}
          /\ snapshot'.causes = {}
          /\ ~MotionBlocked(snapshot')]_snapshot

\* What the controller promises to the rest of the system: EmergencyStop, with
\* the flags read as one mode.
Mode ==
  IF snapshot.estop_latched THEN "latched"
  ELSE IF MotionBlocked(snapshot) THEN "blocked" ELSE "enabled"

ES == INSTANCE EmergencyStop
        WITH mode <- Mode, pressed <- snapshot.physical_estop_active

\* Every sequence of calls is a behaviour of the abstract emergency stop.  In
\* particular a latch is left for permitted motion and for nothing else.
ImplementsEmergencyStop == ES!Spec
===========================================================================
