---------------------- MODULE SafetyLifecycleProofs ----------------------
(***************************************************************************)
(* Theorems about SafetyLifecycle, for every timeout, set of ages and      *)
(* bound.  LatchIsExplained is inductive with the type invariant: each     *)
(* method is shown to preserve both, whichever snapshot it starts from.    *)
(***************************************************************************)
EXTENDS SafetyLifecycle, TLAPS

\* LatchIsExplained of any snapshot, so that it can be used of a method's
\* argument and result in modules that embed the controller.
Explained(s) ==
  /\ s.estop_latched <=> s.causes # {}
  /\ s.estop_latched => s.latest_reason \in s.causes
  /\ s.physical_estop_active => "HARDWARE_ESTOP" \in s.causes
  /\ s.watchdog_healthy => s.watchdog_armed

\* The snapshots a controller can be in.
Consistent(s) == s \in Snapshots /\ Explained(s)

\* A commit (lifecycle.py _commit) changes the number and nothing else.
LEMMA CommitConsistent ==
  ASSUME NEW s, Consistent(s)
  PROVE  /\ Consistent(Commit(s))
         /\ Commit(s).causes = s.causes
         /\ Commit(s).watchdog_armed = s.watchdog_armed
         /\ Commit(s).watchdog_healthy = s.watchdog_healthy
         /\ Commit(s).physical_estop_active = s.physical_estop_active
  BY DEF Consistent, Explained, Snapshots, Commit

\* What latching (lifecycle.py _latch) leaves behind.
LEMMA LatchedConsistent ==
  ASSUME NEW s, Consistent(s), NEW c \in Causes
  PROVE  /\ Consistent(Latched(s, c))
         /\ s.causes \subseteq Latched(s, c).causes
         /\ Latched(s, c).estop_latched
  BY CommitConsistent DEF Consistent, Explained, Snapshots, Reasons, Latched

\* A watchdog switched on or off is never left healthy.
LEMMA ArmConsistent ==
  ASSUME NEW s, Consistent(s)
  PROVE  Consistent(AfterArm(s)) /\ AfterArm(s).causes = s.causes
  BY CommitConsistent DEF Consistent, Explained, Snapshots, AfterArm

LEMMA DisarmConsistent ==
  ASSUME NEW s, Consistent(s)
  PROVE  Consistent(AfterDisarm(s)) /\ AfterDisarm(s).causes = s.causes
  BY CommitConsistent DEF Consistent, Explained, Snapshots, AfterDisarm

\* Any reported age, finite or not, leaves the controller consistent.
LEMMA HeartbeatAgeConsistent ==
  ASSUME NEW s, Consistent(s), NEW age
  PROVE  /\ Consistent(AfterHeartbeatAge(s, age))
         /\ s.causes \subseteq AfterHeartbeatAge(s, age).causes
<1> DEFINE c == IF AgeInvalid(age) THEN "WATCHDOG_INVALID"
                                   ELSE "WATCHDOG_TIMEOUT"
           l == Latched(s, c)
<1>1. CASE ~s.watchdog_armed
  BY <1>1 DEF AfterHeartbeatAge
<1>2. CASE s.watchdog_armed /\ ~AgeFresh(age)
  <2>1. c \in Causes
    BY DEF Causes
  <2>2. Consistent(l) /\ s.causes \subseteq l.causes
    BY <2>1, LatchedConsistent
  <2>3. AfterHeartbeatAge(s, age) = [l EXCEPT !.watchdog_healthy = FALSE]
    BY <1>2 DEF AfterHeartbeatAge
  <2> HIDE DEF l
  <2> QED
    BY <2>2, <2>3 DEF Consistent, Explained, Snapshots
<1>3. CASE s.watchdog_armed /\ AgeFresh(age) /\ s.watchdog_healthy
  BY <1>3 DEF AfterHeartbeatAge
<1>4. CASE s.watchdog_armed /\ AgeFresh(age) /\ ~s.watchdog_healthy
  <2>1. AfterHeartbeatAge(s, age) = [Commit(s) EXCEPT !.watchdog_healthy = TRUE]
    BY <1>4 DEF AfterHeartbeatAge
  <2>2. /\ Consistent(Commit(s))
        /\ Commit(s).causes = s.causes
        /\ Commit(s).watchdog_armed
    BY <1>4, CommitConsistent
  <2> QED
    BY <2>1, <2>2 DEF Consistent, Explained, Snapshots
<1> QED
  BY <1>1, <1>2, <1>3, <1>4 DEF Consistent, Snapshots

\* Pressing the button latches; releasing it changes that one flag.
LEMMA PhysicalEstopConsistent ==
  ASSUME NEW s, Consistent(s), NEW active \in BOOLEAN
  PROVE  /\ Consistent(AfterPhysicalEstop(s, active))
         /\ s.causes \subseteq AfterPhysicalEstop(s, active).causes
<1>1. CASE active
  <2> DEFINE l == Latched(s, "HARDWARE_ESTOP")
  <2>1. Consistent(l) /\ s.causes \subseteq l.causes /\ l.estop_latched
    BY LatchedConsistent DEF Causes
  <2>2. "HARDWARE_ESTOP" \in l.causes
    BY DEF Latched, Consistent, Snapshots
  <2>3. AfterPhysicalEstop(s, active)
          = [l EXCEPT !.physical_estop_active = TRUE]
    BY <1>1 DEF AfterPhysicalEstop
  <2> HIDE DEF l
  <2> QED
    BY <2>1, <2>2, <2>3 DEF Consistent, Explained, Snapshots
<1>2. CASE ~active /\ s.physical_estop_active
  BY <1>2, CommitConsistent DEF AfterPhysicalEstop, Consistent, Explained, Snapshots
<1>3. CASE ~active /\ ~s.physical_estop_active
  BY <1>3 DEF AfterPhysicalEstop
<1> QED
  BY <1>1, <1>2, <1>3

\* A reset that is not refused forgets every cause and permits motion.
LEMMA ManualResetConsistent ==
  ASSUME NEW s, Consistent(s)
  PROVE  /\ Consistent(AfterManualReset(s))
         /\ \/ AfterManualReset(s) = s
            \/ /\ ResetDenials(s) = {}
               /\ AfterManualReset(s).causes = {}
               /\ ~MotionBlocked(AfterManualReset(s))
<1>1. CASE ResetDenials(s) # {}
  BY <1>1 DEF AfterManualReset
<1>2. CASE ResetDenials(s) = {}
  <2>1. s.estop_latched /\ ~s.physical_estop_active
        /\ s.watchdog_armed /\ s.watchdog_healthy
    BY <1>2 DEF ResetDenials
  <2>2. AfterManualReset(s)
          = [Commit(s) EXCEPT !.estop_latched = FALSE, !.causes = {},
                              !.latest_reason = ManualResetDone]
    BY <1>2 DEF AfterManualReset
  <2>3. /\ Consistent(Commit(s))
        /\ ~Commit(s).physical_estop_active
        /\ Commit(s).watchdog_armed /\ Commit(s).watchdog_healthy
    BY <2>1, CommitConsistent
  <2>4. /\ Consistent(AfterManualReset(s))
        /\ AfterManualReset(s).causes = {}
        /\ ~AfterManualReset(s).estop_latched
        /\ ~AfterManualReset(s).physical_estop_active
        /\ AfterManualReset(s).watchdog_armed
        /\ AfterManualReset(s).watchdog_healthy
    BY <2>2, <2>3 DEF Consistent, Explained, Snapshots, Reasons
  <2> QED
    BY <1>2, <2>4 DEF MotionBlocked
<1> QED
  BY <1>1, <1>2

LEMMA InitConsistent == Consistent(InitialSnapshot)
  BY DEF Consistent, Explained, Snapshots, InitialSnapshot, Reasons

\* Every method keeps a consistent controller consistent.
LEMMA NextConsistent ==
  ASSUME Consistent(snapshot), [LifecycleNext]_snapshot
  PROVE  Consistent(snapshot')
<1>1. CASE ArmWatchdog
  BY <1>1, ArmConsistent DEF ArmWatchdog, Becomes
<1>2. CASE DisarmWatchdog
  BY <1>2, DisarmConsistent DEF DisarmWatchdog, Becomes
<1>3. ASSUME NEW age \in Ages, ObserveHeartbeatAge(age)
      PROVE  Consistent(snapshot')
  BY <1>3, HeartbeatAgeConsistent DEF ObserveHeartbeatAge, Becomes
<1>4. ASSUME NEW active \in BOOLEAN, SetPhysicalEstop(active)
      PROVE  Consistent(snapshot')
  BY <1>4, PhysicalEstopConsistent DEF SetPhysicalEstop, Becomes
<1>5. CASE TriggerSoftwareEstop
  BY <1>5, LatchedConsistent
     DEF TriggerSoftwareEstop, AfterSoftwareEstop, Becomes, Causes
<1>6. CASE RequestManualReset
  BY <1>6, ManualResetConsistent DEF RequestManualReset, Becomes
<1>7. CASE UNCHANGED snapshot
  BY <1>7
<1> QED
  BY <1>1, <1>2, <1>3, <1>4, <1>5, <1>6, <1>7 DEF LifecycleNext

\* In every reachable state the snapshot is well typed and its flags, causes
\* and displayed reason agree, whatever sequence of calls led there.
THEOREM ConsistentAlways == LifecycleSpec => []Consistent(snapshot)
<1>1. LifecycleInit => Consistent(snapshot)
  BY InitConsistent DEF LifecycleInit
<1>2. Consistent(snapshot) /\ [LifecycleNext]_snapshot => Consistent(snapshot)'
  BY NextConsistent
<1> QED
  BY <1>1, <1>2, PTL DEF LifecycleSpec

\* In every reachable state the snapshot has the fields and ranges of
\* SafetyLifecycleSnapshot.
THEOREM TypeCorrect == LifecycleSpec => []LifecycleTypeOK
<1>1. Consistent(snapshot) => LifecycleTypeOK
  BY DEF Consistent, LifecycleTypeOK
<1> QED
  BY <1>1, ConsistentAlways, PTL

\* In every reachable state a latch has a cause and a reason, and there is no
\* cause without a latch: no sequence of calls leaves a stop unexplained.
THEOREM LatchIsAlwaysExplained == LifecycleSpec => []LatchIsExplained
<1>1. Consistent(snapshot) => LatchIsExplained
  BY DEF Consistent, Explained, LatchIsExplained
<1> QED
  BY <1>1, ConsistentAlways, PTL

\* What one step may do to a consistent controller: forget nothing, or be the
\* reset that was not refused.
KeepsOrResets ==
  \/ snapshot.causes \subseteq snapshot'.causes
  \/ /\ ResetDenials(snapshot) = {}
     /\ snapshot'.causes = {}
     /\ ~MotionBlocked(snapshot')

LEMMA StepKeepsCauses ==
  ASSUME Consistent(snapshot), LifecycleNext
  PROVE  KeepsOrResets
<1> USE DEF KeepsOrResets
<1>1. CASE ArmWatchdog
  BY <1>1, ArmConsistent DEF ArmWatchdog, Becomes
<1>2. CASE DisarmWatchdog
  BY <1>2, DisarmConsistent DEF DisarmWatchdog, Becomes
<1>3. ASSUME NEW age \in Ages, ObserveHeartbeatAge(age)
      PROVE  snapshot.causes \subseteq snapshot'.causes
  BY <1>3, HeartbeatAgeConsistent DEF ObserveHeartbeatAge, Becomes
<1>4. ASSUME NEW active \in BOOLEAN, SetPhysicalEstop(active)
      PROVE  snapshot.causes \subseteq snapshot'.causes
  BY <1>4, PhysicalEstopConsistent DEF SetPhysicalEstop, Becomes
<1>5. CASE TriggerSoftwareEstop
  BY <1>5, LatchedConsistent
     DEF TriggerSoftwareEstop, AfterSoftwareEstop, Becomes, Causes
<1>6. CASE RequestManualReset
  BY <1>6, ManualResetConsistent DEF RequestManualReset, Becomes
<1> QED
  BY <1>1, <1>2, <1>3, <1>4, <1>5, <1>6 DEF LifecycleNext

\* A stop cause, once recorded, outlives every call except a manual reset that
\* finds the button released and the watchdog armed and healthy.
THEOREM CausesOutliveEverythingButReset == LifecycleSpec => CausesForgottenOnlyByReset
<1>1. Consistent(snapshot) /\ [LifecycleNext]_snapshot
        => [~(snapshot.causes \subseteq snapshot'.causes)
              => /\ ResetDenials(snapshot) = {}
                 /\ snapshot'.causes = {}
                 /\ ~MotionBlocked(snapshot')]_snapshot
  BY StepKeepsCauses DEF KeepsOrResets
<1> QED
  BY <1>1, ConsistentAlways, PTL DEF LifecycleSpec, CausesForgottenOnlyByReset

\* A method either leaves the snapshot alone or gives it a greater number, so
\* the number tells a holder of an old snapshot that something happened.
Advanced(s, t) == t = s \/ t.sequence > s.sequence

LEMMA LatchedAdvances ==
  ASSUME NEW s, Consistent(s), NEW c
  PROVE  Latched(s, c).sequence > s.sequence
<1>1. Commit(s).sequence = s.sequence + 1
  BY DEF Consistent, Snapshots, Commit
<1>2. Latched(s, c).sequence = Commit(s).sequence
  BY DEF Latched, Commit
<1> QED
  BY <1>1, <1>2 DEF Consistent, Snapshots

LEMMA MethodsAdvance ==
  ASSUME NEW s, Consistent(s)
  PROVE  /\ Advanced(s, AfterArm(s))
         /\ Advanced(s, AfterDisarm(s))
         /\ \A age : Advanced(s, AfterHeartbeatAge(s, age))
         /\ \A active \in BOOLEAN : Advanced(s, AfterPhysicalEstop(s, active))
         /\ Advanced(s, AfterSoftwareEstop(s))
         /\ Advanced(s, AfterManualReset(s))
<1>1. Commit(s).sequence > s.sequence
  BY DEF Consistent, Snapshots, Commit
<1>2. Advanced(s, AfterArm(s)) /\ Advanced(s, AfterDisarm(s))
  BY <1>1 DEF Advanced, AfterArm, AfterDisarm, Commit
<1>3. ASSUME NEW age
      PROVE  Advanced(s, AfterHeartbeatAge(s, age))
  <2> DEFINE c == IF AgeInvalid(age) THEN "WATCHDOG_INVALID"
                                     ELSE "WATCHDOG_TIMEOUT"
             t == AfterHeartbeatAge(s, age)
  <2>1. \/ t = s
        \/ t = [Latched(s, c) EXCEPT !.watchdog_healthy = FALSE]
        \/ t = [Commit(s) EXCEPT !.watchdog_healthy = TRUE]
    BY DEF AfterHeartbeatAge
  <2>2. [Latched(s, c) EXCEPT !.watchdog_healthy = FALSE].sequence
          = Latched(s, c).sequence
    BY DEF Latched, Commit
  <2>3. [Commit(s) EXCEPT !.watchdog_healthy = TRUE].sequence
          = Commit(s).sequence
    BY DEF Commit
  <2> HIDE DEF t, c
  <2>4. t = s \/ t.sequence > s.sequence
    BY <1>1, <2>1, <2>2, <2>3, LatchedAdvances
  <2> QED
    BY <2>4 DEF Advanced, t
<1>4. ASSUME NEW active \in BOOLEAN
      PROVE  Advanced(s, AfterPhysicalEstop(s, active))
  <2>1. CASE active
    <3>1. AfterPhysicalEstop(s, active)
            = [Latched(s, "HARDWARE_ESTOP") EXCEPT !.physical_estop_active = TRUE]
      BY <2>1 DEF AfterPhysicalEstop
    <3>2. [Latched(s, "HARDWARE_ESTOP") EXCEPT
              !.physical_estop_active = TRUE].sequence
            = Latched(s, "HARDWARE_ESTOP").sequence
      BY DEF Latched, Commit
    <3> QED
      BY <3>1, <3>2, LatchedAdvances DEF Advanced
  <2>2. CASE ~active
    BY <1>1, <2>2 DEF Advanced, AfterPhysicalEstop, Commit
  <2> QED
    BY <2>1, <2>2
<1>5. Advanced(s, AfterSoftwareEstop(s))
  BY LatchedAdvances DEF Advanced, AfterSoftwareEstop
<1>6. Advanced(s, AfterManualReset(s))
  BY <1>1 DEF Advanced, AfterManualReset, Commit
<1> QED
  BY <1>2, <1>3, <1>4, <1>5, <1>6

---------------------------------------------------------------------------
(* The refinement.  Of a consistent snapshot the mode says everything the  *)
(* abstract steps test.                                                    *)

\* A pressed button, or a cause that is not forgotten, keeps the mode latched.
LEMMA ModeOfConsistent ==
  ASSUME Consistent(snapshot)
  PROVE  /\ Mode \in {"latched", "blocked", "enabled"}
         /\ Mode = "latched" <=> snapshot.estop_latched
         /\ Mode = "enabled" <=> ~MotionBlocked(snapshot)
         /\ snapshot.physical_estop_active => Mode = "latched"
         /\ snapshot.physical_estop_active \in BOOLEAN
  BY DEF Mode, MotionBlocked, Consistent, Explained, Snapshots

\* Any change that keeps the causes or resets is a step of EmergencyStop or
\* changes nothing that EmergencyStop speaks of.
LEMMA StepImplements ==
  ASSUME Consistent(snapshot), Consistent(snapshot'), KeepsOrResets
  PROVE  [ES!Next]_<<Mode, snapshot.physical_estop_active>>
<1> DEFINE Pressed == snapshot.physical_estop_active
<1>1. /\ Mode \in {"latched", "blocked", "enabled"}
      /\ Mode = "latched" <=> snapshot.causes # {}
      /\ Mode = "enabled" <=> ~MotionBlocked(snapshot)
      /\ Pressed => Mode = "latched"
      /\ Pressed \in BOOLEAN
  BY ModeOfConsistent DEF Consistent, Explained
<1>2. /\ Mode' \in {"latched", "blocked", "enabled"}
      /\ Mode' = "latched" <=> snapshot'.causes # {}
      /\ Mode' = "enabled" <=> ~MotionBlocked(snapshot')
      /\ Pressed' => Mode' = "latched"
      /\ Pressed' \in BOOLEAN
  BY DEF Consistent, Explained, Snapshots, Mode, MotionBlocked
<1>5. CASE ~Pressed /\ Mode = "latched" /\ Mode' = "enabled" /\ ~Pressed'
  BY <1>5, <1>1, <1>2 DEF ES!Next, ES!Reset
<1>6. CASE Mode' = "latched" /\ (Pressed => Pressed')
  BY <1>6, <1>1, <1>2 DEF ES!Next, ES!Trip
<1>7. CASE Mode = "latched" /\ Mode' = "latched" /\ Pressed /\ ~Pressed'
  BY <1>7, <1>1, <1>2 DEF ES!Next, ES!ReleaseButton
<1>8. CASE Mode # "latched" /\ Mode' # "latched"
  BY <1>8, <1>1, <1>2 DEF ES!Next, ES!Block, ES!Enable
<1>9. CASE snapshot.causes \subseteq snapshot'.causes
  <2>1. Mode = "latched" => Mode' = "latched"
    BY <1>9, <1>1, <1>2
  <2> QED
    BY <2>1, <1>1, <1>2, <1>6, <1>7, <1>8
<1>10. CASE /\ ResetDenials(snapshot) = {}
            /\ snapshot'.causes = {}
            /\ ~MotionBlocked(snapshot')
  <2>1. snapshot.estop_latched /\ ~Pressed
    BY <1>10 DEF ResetDenials
  <2> QED
    BY <2>1, <1>10, <1>1, <1>2, <1>5, ModeOfConsistent
<1> QED
  BY <1>9, <1>10 DEF KeepsOrResets

\* The controller implements the abstract emergency stop.
THEOREM LifecycleImplementsEmergencyStop == LifecycleSpec => ImplementsEmergencyStop
<1>1. LifecycleInit => ES!Init
  BY DEF LifecycleInit, InitialSnapshot, ES!Init, Mode, MotionBlocked
<1>2. Consistent(snapshot) /\ Consistent(snapshot)' /\ [LifecycleNext]_snapshot
        => [ES!Next]_<<Mode, snapshot.physical_estop_active>>
  <2>1. UNCHANGED snapshot => UNCHANGED <<Mode, snapshot.physical_estop_active>>
    BY DEF Mode, MotionBlocked
  <2> QED
    BY <2>1, StepKeepsCauses, StepImplements
<1> QED
  BY <1>1, <1>2, ConsistentAlways, PTL DEF LifecycleSpec, ImplementsEmergencyStop, ES!Spec
===========================================================================
