----------------------- MODULE RobotRuntimeProofs -----------------------
(***************************************************************************)
(* Theorems about RobotRuntime, for every modulus, timeout and loop time.  *)
(*                                                                         *)
(* NeverReadyAgainstInputs is inductive with the type invariant.  The      *)
(* replay window needs the stronger fact that, within the window, the      *)
(* distance moved is the modular distance between the watched frame and    *)
(* the last one; the lemmas on % give the arithmetic it needs.             *)
(*                                                                         *)
(* The robot implements EmergencyStop by its types alone.  The watchdog's  *)
(* deadline and the live heartbeat relate the age modulo the clock's       *)
(* period to the true silence; ClockIsLongEnough, the hypothesis of both,  *)
(* says that the silences considered end within one period.                *)
(***************************************************************************)
EXTENDS RobotRuntime, TLAPS

LEMMA DifferenceModulo ==
  ASSUME NEW M \in Nat \ {0}, NEW a \in 0 .. M - 1, NEW b \in 0 .. M - 1
  PROVE  (a - b) % M = IF a >= b THEN a - b ELSE a - b + M
  OBVIOUS

LEMMA ModuloInRange ==
  ASSUME NEW M \in Nat \ {0}, NEW a \in Int
  PROVE  a % M \in 0 .. M - 1
  OBVIOUS

\* Of two frames at most one is ahead of the other: a frame that supersedes
\* another is never superseded by it.
LEMMA FreshnessIsAsymmetric ==
  ASSUME NEW a \in Sequences16, NEW b \in Sequences16, SequenceIsFresh(a, b)
  PROVE  ~SequenceIsFresh(b, a)
  BY RuntimeAssumption, DifferenceModulo
     DEF SequenceIsFresh, Ahead, HalfWindow, Sequences16

\* The frame handlers, one by one, on a well-typed robot for which the safety
\* invariant holds.
Guarded(r) ==
  /\ r \in Robots
  /\ r.physical_estop_active => r.state = "kEstop"
  /\ r.state = "kReady" => r.heartbeat_seen /\ r.heartbeat_healthy

LEMMA AgeIsInteger ==
  ASSUME NEW r \in Robots, NEW t \in Int
  PROVE  HeartbeatAge(r, t) \in Int
<1>1. r.last_heartbeat_ms \in Int
  BY RuntimeAssumption DEF Robots
<1> QED
  BY <1>1, RuntimeAssumption DEF HeartbeatAge

\* Tick never readies the robot and never touches the latch, the button or the
\* sequence window.
LEMMA TickGuarded ==
  ASSUME NEW r, Guarded(r), NEW t \in Int
  PROVE  /\ Guarded(AfterTick(r, t))
         /\ AfterTick(r, t).state = r.state
              \/ (r.state # "kEstop" /\ AfterTick(r, t).state = "kSafe")
         /\ AfterTick(r, t).physical_estop_active = r.physical_estop_active
         /\ AfterTick(r, t).last_sequence = r.last_sequence
         /\ AfterTick(r, t).sequence_seen = r.sequence_seen
<1>1. CASE ~r.heartbeat_seen
  BY <1>1 DEF AfterTick, Guarded, Robots, States
<1>2. CASE r.heartbeat_seen
  <2> DEFINE healthy == HeartbeatAge(r, t) <= HeartbeatTimeout
             stale == HeartbeatAge(r, t) > HeartbeatTimeout
  <2>1. AfterTick(r, t)
          = [r EXCEPT !.heartbeat_healthy = healthy,
                      !.state = IF stale /\ @ # "kEstop" THEN "kSafe" ELSE @]
    BY <1>2 DEF AfterTick
  <2>2. healthy \in BOOLEAN /\ (~stale => healthy)
    BY AgeIsInteger, RuntimeAssumption DEF Guarded
  <2> HIDE DEF healthy, stale
  <2> QED
    BY <1>2, <2>1, <2>2 DEF Guarded, Robots, States
<1> QED
  BY <1>1, <1>2 DEF Guarded, Robots

LEMMA PhysicalEstopGuarded ==
  ASSUME NEW r, Guarded(r), NEW active \in BOOLEAN
  PROVE  Guarded(AfterPhysicalEstop(r, active))
  BY DEF AfterPhysicalEstop, Guarded, Robots, States

\* A reset either only ticks, or readies a robot whose button is released.
LEMMA ManualResetGuarded ==
  ASSUME NEW r, Guarded(r), NEW t \in Int
  PROVE  /\ Guarded(AfterManualReset(r, t))
         /\ AfterManualReset(r, t).physical_estop_active = r.physical_estop_active
         /\ AfterManualReset(r, t).last_sequence = r.last_sequence
         /\ AfterManualReset(r, t).sequence_seen = r.sequence_seen
         /\ \/ AfterManualReset(r, t).state = r.state
            \/ r.state # "kEstop" /\ AfterManualReset(r, t).state = "kSafe"
            \/ /\ AfterManualReset(r, t).state = "kReady"
               /\ AfterManualReset(r, t).heartbeat_healthy
               /\ ~r.physical_estop_active
<1> DEFINE k == AfterTick(r, t)
<1>1. /\ Guarded(k)
      /\ k.state = r.state \/ (r.state # "kEstop" /\ k.state = "kSafe")
      /\ k.physical_estop_active = r.physical_estop_active
      /\ k.last_sequence = r.last_sequence
      /\ k.sequence_seen = r.sequence_seen
  BY TickGuarded
<1>2. k.heartbeat_healthy => k.heartbeat_seen
  BY DEF AfterTick, Guarded, Robots
<1>3. \/ AfterManualReset(r, t) = k
      \/ /\ ~k.physical_estop_active /\ k.heartbeat_healthy
         /\ AfterManualReset(r, t) = [k EXCEPT !.state = "kReady"]
  BY DEF AfterManualReset
<1> HIDE DEF k
<1>4. CASE AfterManualReset(r, t) = k
  BY <1>1, <1>4
<1>5. CASE /\ ~k.physical_estop_active /\ k.heartbeat_healthy
           /\ AfterManualReset(r, t) = [k EXCEPT !.state = "kReady"]
  BY <1>1, <1>2, <1>5 DEF Guarded, Robots, States
<1> QED
  BY <1>3, <1>4, <1>5

\* What any frame can do: a frame that does not parse or is stale does nothing;
\* any other takes the sequence window to its own number, leaves the button
\* alone and never ends a latched stop.
LEMMA DispatchGuarded ==
  ASSUME NEW r, Guarded(r), NEW frame \in Frames, NEW t \in 0 .. ClockModulus - 1
  PROVE  LET d == Dispatch(r, frame, t).robot
         IN /\ Guarded(d)
            /\ d.physical_estop_active = r.physical_estop_active
            /\ r.state = "kEstop" => d.state = "kEstop"
            /\ \/ frame.type = "invalid" \/ Stale(r, frame)
               \/ d.sequence_seen /\ d.last_sequence = frame.sequence
<1> DEFINE taken == [r EXCEPT !.sequence_seen = TRUE,
                              !.last_sequence = frame.sequence]
           d == Dispatch(r, frame, t).robot
           Kept(x) == /\ Guarded(x)
                      /\ x.physical_estop_active = r.physical_estop_active
                      /\ r.state = "kEstop" => x.state = "kEstop"
           Taken(x) == x.sequence_seen /\ x.last_sequence = frame.sequence
<1>1. CASE frame.type = "invalid"
  BY <1>1 DEF Dispatch
<1>2. CASE frame.type # "invalid" /\ Stale(r, frame)
  BY <1>2 DEF Dispatch
<1>3. CASE frame.type # "invalid" /\ ~Stale(r, frame)
  <2>1. frame.sequence \in Sequences16
    BY <1>3 DEF Frames
  <2>2. Kept(taken) /\ Taken(taken) /\ taken.state = r.state
    BY <2>1 DEF Guarded, Robots
  <2>3. CASE frame.type = "heartbeat"
    <3>1. d = AfterHeartbeat(taken, t)
      BY <1>3, <2>3 DEF Dispatch
    <3> HIDE DEF taken, d
    <3>2. Kept(d) /\ Taken(d)
      BY <2>2, <3>1 DEF AfterHeartbeat, Guarded, Robots, States
    <3> QED
      BY <3>2 DEF d
  <2>4. CASE frame.type = "estop"
    <3>1. d = [taken EXCEPT !.state = "kEstop"]
      BY <1>3, <2>4 DEF Dispatch
    <3> HIDE DEF taken, d
    <3>2. Kept(d) /\ Taken(d)
      BY <2>2, <3>1 DEF Guarded, Robots, States
    <3> QED
      BY <3>2 DEF d
  <2>5. CASE frame.type = "motion"
    <3> DEFINE k == AfterTick(taken, t)
    <3>1. t \in Int
      BY RuntimeAssumption
    <3>2. Kept(k) /\ Taken(k)
      <4> HIDE DEF taken
      <4>1. /\ Guarded(k)
            /\ k.state = taken.state
                 \/ (taken.state # "kEstop" /\ k.state = "kSafe")
            /\ k.physical_estop_active = taken.physical_estop_active
            /\ k.last_sequence = taken.last_sequence
            /\ k.sequence_seen = taken.sequence_seen
        BY <2>2, <3>1, TickGuarded
      <4> HIDE DEF k
      <4> QED
        BY <2>2, <4>1
    <3>3. d = MotionDispatch(taken, frame, t).robot
      BY <1>3, <2>5 DEF Dispatch
    <3>4. d \in {taken, k, [k EXCEPT !.motion_command_seen = TRUE,
                                     !.last_motion_command_id = frame.command_id]}
      BY <3>3 DEF MotionDispatch
    <3>5. frame.command_id \in CommandIds
      BY <2>5 DEF Frames
    <3> DEFINE remembered == [k EXCEPT !.motion_command_seen = TRUE,
                                       !.last_motion_command_id = frame.command_id]
    <3>6. Kept(remembered) /\ Taken(remembered)
      <4> HIDE DEF taken, d, k
      <4> QED
        BY <3>2, <3>5 DEF Guarded, Robots
    <3> HIDE DEF taken, d, k, remembered, Kept, Taken
    <3>7. Kept(d) /\ Taken(d)
      BY <2>2, <3>2, <3>4, <3>6 DEF remembered
    <3> QED
      BY <3>7 DEF d, Kept, Taken
  <2>6. CASE frame.type = "other"
    <3>1. d = taken
      BY <1>3, <2>6 DEF Dispatch
    <3> HIDE DEF taken, d
    <3> QED
      BY <2>2, <3>1 DEF d
  <2> QED
    BY <1>3, <2>3, <2>4, <2>5, <2>6 DEF Frames
<1> QED
  BY <1>1, <1>2, <1>3

---------------------------------------------------------------------------
(* The state machine.                                                      *)

\* What every step does to the fields of the robot.
Steps(r, s) ==
  /\ Guarded(s)
  /\ r.state = "kEstop" /\ s.state # "kEstop"
       => /\ s.state = "kReady" /\ s.heartbeat_healthy
          /\ ~r.physical_estop_active
          /\ s.last_sequence = r.last_sequence

LEMMA NextSteps ==
  ASSUME Guarded(robot), now \in 0 .. ClockModulus - 1, [Next]_vars
  PROVE  Steps(robot, robot')
<1>0. now \in Int
  BY RuntimeAssumption
<1>1. ASSUME NEW frame \in Frames, HandleFrame(frame)
      PROVE  Steps(robot, robot')
  BY <1>1, DispatchGuarded DEF HandleFrame, Steps
<1>2. ASSUME NEW d \in 1 .. MaxLoopTime, EndLoop(d)
      PROVE  Steps(robot, robot')
  BY <1>0, <1>2, TickGuarded DEF EndLoop, Steps
<1>3. ASSUME NEW active \in BOOLEAN, ObservePhysicalEstop(active)
      PROVE  Steps(robot, robot')
  <2>1. robot' = AfterPhysicalEstop(robot, active)
    BY <1>3 DEF ObservePhysicalEstop
  <2>2. robot.state = "kEstop" => robot'.state = "kEstop"
    BY <2>1 DEF AfterPhysicalEstop, Guarded, Robots
  <2> QED
    BY <2>1, <2>2, PhysicalEstopGuarded DEF Steps
<1>4. CASE ManualReset
  <2>1. robot' = AfterManualReset(robot, now)
    BY <1>4 DEF ManualReset
  <2> QED
    BY <1>0, <2>1, ManualResetGuarded DEF Steps
<1>5. CASE UNCHANGED vars
  BY <1>5 DEF vars, Steps
<1> QED
  BY <1>1, <1>2, <1>3, <1>4, <1>5 DEF Next

\* The clocks and histories stay in their ranges.
Ranges ==
  /\ now \in 0 .. ClockModulus - 1
  /\ silence \in Nat
  /\ accepted \in Seq(CommandIds)
  /\ watched \in [sequence : Sequences16, moved : Nat, since_power_on : BOOLEAN]

LEMMA HalfWindowBounds ==
  HalfWindow \in Nat /\ HalfWindow < SeqModulus /\ 2 * HalfWindow <= SeqModulus
  BY RuntimeAssumption DEF HalfWindow

LEMMA AheadInRange ==
  ASSUME NEW a \in Sequences16, NEW b \in Sequences16
  PROVE  Ahead(a, b) \in Nat /\ Ahead(a, b) < SeqModulus
  BY RuntimeAssumption, DifferenceModulo DEF Ahead, Sequences16

LEMMA WatchRange ==
  ASSUME NEW r \in Robots, NEW s \in Sequences16, Ranges, Watch(r, s)
  PROVE  watched' \in [sequence : Sequences16, moved : Nat, since_power_on : BOOLEAN]
<1> DEFINE moved == watched.moved + Ahead(s, r.last_sequence)
<1>1. moved \in Nat
  BY AheadInRange DEF Ranges, Robots
<1>2. HalfWindow + 1 \in Nat
  BY HalfWindowBounds
<1>3. \/ watched' = [sequence |-> s, moved |-> 0, since_power_on |-> TRUE]
      \/ \E m \in Nat : watched' = [watched EXCEPT !.moved = m]
  <2>1. (IF moved > HalfWindow THEN HalfWindow + 1 ELSE moved) \in Nat
    BY <1>1, <1>2
  <2> QED
    BY <2>1 DEF Watch
<1>4. CASE watched' = [sequence |-> s, moved |-> 0, since_power_on |-> TRUE]
  BY <1>4
<1>5. ASSUME NEW m \in Nat, watched' = [watched EXCEPT !.moved = m]
      PROVE  watched' \in [sequence : Sequences16, moved : Nat,
                           since_power_on : BOOLEAN]
  BY <1>5 DEF Ranges
<1> HIDE DEF moved
<1> QED
  BY <1>3, <1>4, <1>5

LEMMA RangesNext ==
  ASSUME Ranges, robot \in Robots, [Next]_vars
  PROVE  Ranges'
<1>1. ASSUME NEW frame \in Frames, HandleFrame(frame)
      PROVE  Ranges'
  <2>1. now' = now /\ silence' \in Nat
    BY <1>1 DEF HandleFrame, Ranges
  <2>2. accepted' \in Seq(CommandIds)
    <3>1. CASE accepted' = accepted
      BY <3>1 DEF Ranges
    <3>2. CASE Dispatch(robot, frame, now).result = "kMotionDeferred"
      <4>1. frame.type = "motion"
        BY <3>2 DEF Dispatch, Frames
      <4>2. frame.command_id \in CommandIds
        BY <4>1 DEF Frames
      <4> QED
        BY <1>1, <3>2, <4>2 DEF HandleFrame, Ranges
    <3> QED
      BY <1>1, <3>1, <3>2 DEF HandleFrame
  <2>3. watched' \in [sequence : Sequences16, moved : Nat,
                      since_power_on : BOOLEAN]
    <3>1. CASE UNCHANGED watched
      BY <3>1 DEF Ranges
    <3>2. CASE frame.type # "invalid" /\ Watch(robot, frame.sequence)
      <4>1. frame.sequence \in Sequences16
        BY <3>2 DEF Frames
      <4> QED
        BY <3>2, <4>1, WatchRange
    <3> QED
      BY <1>1, <3>1, <3>2 DEF HandleFrame
  <2> QED
    BY <2>1, <2>2, <2>3 DEF Ranges
<1>2. ASSUME NEW d \in 1 .. MaxLoopTime, EndLoop(d)
      PROVE  Ranges'
  <2>1. now + d \in Int /\ silence + d \in Nat
    BY RuntimeAssumption DEF Ranges
  <2>2. now' \in 0 .. ClockModulus - 1
    BY <1>2, <2>1, RuntimeAssumption, ModuloInRange DEF EndLoop
  <2> QED
    BY <1>2, <2>1, <2>2 DEF EndLoop, Ranges
<1>3. CASE (\E active \in BOOLEAN : ObservePhysicalEstop(active)) \/ ManualReset
           \/ UNCHANGED vars
  BY <1>3 DEF ObservePhysicalEstop, ManualReset, vars, Ranges
<1> QED
  BY <1>1, <1>2, <1>3 DEF Next

Inv == Guarded(robot) /\ Ranges

LEMMA InvAlways == Spec => []Inv
<1>1. Init => Inv
  BY RuntimeAssumption
     DEF Init, Inv, Guarded, Ranges, Robots, States, PowerOn, NoFrame, Sequences16
<1>2. Inv /\ [Next]_vars => Inv'
  BY NextSteps, RangesNext DEF Inv, Guarded, Steps, Ranges
<1> QED
  BY <1>1, <1>2, PTL DEF Spec

\* Type correctness.
THEOREM TypeCorrect == Spec => []TypeOK
<1>1. Inv => TypeOK
  BY DEF Inv, Guarded, Ranges, TypeOK
<1> QED
  BY <1>1, InvAlways, PTL

\* Whatever frames arrive, a held button keeps the robot stopped and only a
\* healthy heartbeat makes it ready.
THEOREM InputsAreNeverOverruled == Spec => []NeverReadyAgainstInputs
<1>1. Inv => NeverReadyAgainstInputs
  BY DEF Inv, Guarded, NeverReadyAgainstInputs
<1> QED
  BY <1>1, InvAlways, PTL

\* No frame, tick or button release ends a latched stop.
THEOREM OnlyAResetEndsAStop == Spec => EstopLeftOnlyByReset
<1>1. Inv /\ [Next]_vars
        => [robot.state = "kEstop" /\ robot'.state # "kEstop"
              => /\ robot'.state = "kReady"
                 /\ ~robot.physical_estop_active
                 /\ robot'.heartbeat_healthy
                 /\ robot'.last_sequence = robot.last_sequence]_vars
  BY NextSteps DEF Inv, Steps, Ranges
<1> QED
  BY <1>1, InvAlways, PTL DEF Spec, EstopLeftOnlyByReset

---------------------------------------------------------------------------
(* The replay window.  Within it, the watched frame lies exactly as far    *)
(* behind the last one as the history says, so it cannot look fresh.       *)

Window ==
  watched.since_power_on =>
    /\ robot.sequence_seen
    /\ watched.moved <= HalfWindow
         => Ahead(robot.last_sequence, watched.sequence) = watched.moved

\* Distances add up as long as they stay within half the range.
LEMMA AheadAdds ==
  ASSUME NEW w \in Sequences16, NEW l \in Sequences16, NEW s \in Sequences16,
         Ahead(l, w) + Ahead(s, l) <= HalfWindow
  PROVE  Ahead(s, w) = Ahead(l, w) + Ahead(s, l)
  BY RuntimeAssumption, DifferenceModulo, HalfWindowBounds DEF Ahead, Sequences16

LEMMA AheadOfItself ==
  ASSUME NEW s \in Sequences16
  PROVE  Ahead(s, s) = 0
  BY RuntimeAssumption, DifferenceModulo DEF Ahead, Sequences16

LEMMA BehindIsNotFresh ==
  ASSUME NEW w \in Sequences16, NEW l \in Sequences16, Ahead(l, w) <= HalfWindow
  PROVE  ~SequenceIsFresh(w, l)
  BY RuntimeAssumption, DifferenceModulo, HalfWindowBounds
     DEF Ahead, Sequences16, SequenceIsFresh

LEMMA WindowTaken ==
  ASSUME Inv, Window, NEW s \in Sequences16, Watch(robot, s),
         robot'.sequence_seen, robot'.last_sequence = s
  PROVE  Window'
<1> DEFINE l == robot.last_sequence
           w == watched.sequence
           moved == watched.moved + Ahead(s, l)
<1>1. /\ l \in Sequences16 /\ w \in Sequences16 /\ watched.moved \in Nat
      /\ Ahead(s, l) \in Nat
  BY AheadInRange DEF Inv, Guarded, Robots, Ranges
<1>2. CASE watched' = [sequence |-> s, moved |-> 0, since_power_on |-> TRUE]
  BY <1>2, AheadOfItself DEF Window
<1>3. CASE watched' = [watched EXCEPT
                         !.moved = IF moved > HalfWindow THEN HalfWindow + 1
                                   ELSE moved]
  <2>1. /\ watched'.sequence = w
        /\ watched'.since_power_on = watched.since_power_on
        /\ watched'.moved = IF moved > HalfWindow THEN HalfWindow + 1 ELSE moved
    BY <1>3 DEF Inv, Ranges
  <2>2. ASSUME watched.since_power_on, watched'.moved <= HalfWindow
        PROVE  Ahead(s, w) = watched'.moved
    <3>1. moved <= HalfWindow /\ watched'.moved = moved
      BY <1>1, <2>1, <2>2, HalfWindowBounds
    <3>2. watched.moved <= HalfWindow
      BY <1>1, <3>1, HalfWindowBounds
    <3>3. Ahead(l, w) = watched.moved
      BY <2>2, <3>2 DEF Window
    <3> QED
      BY <1>1, <3>1, <3>3, AheadAdds
  <2> QED
    BY <2>1, <2>2 DEF Window
<1> QED
  BY <1>2, <1>3 DEF Watch

LEMMA WindowNext ==
  ASSUME Inv, Window, [Next]_vars
  PROVE  Window'
<1>0. now \in Int
  BY RuntimeAssumption DEF Inv, Ranges
<1>1. ASSUME NEW frame \in Frames, HandleFrame(frame)
      PROVE  Window'
  <2>1. CASE frame.type = "invalid" \/ Stale(robot, frame)
    <3>1. robot' = robot /\ watched' = watched
      BY <1>1, <2>1 DEF HandleFrame, Dispatch
    <3> QED
      BY <3>1 DEF Window, Ahead
  <2>2. CASE ~(frame.type = "invalid" \/ Stale(robot, frame))
    <3>1. frame.sequence \in Sequences16
      BY <2>2 DEF Frames
    <3>2. robot'.sequence_seen /\ robot'.last_sequence = frame.sequence
      BY <1>1, <2>2, DispatchGuarded DEF HandleFrame, Inv, Ranges
    <3>3. Watch(robot, frame.sequence)
      BY <1>1, <2>2 DEF HandleFrame
    <3> QED
      BY <3>1, <3>2, <3>3, WindowTaken
  <2> QED
    BY <2>1, <2>2
<1>2. ASSUME UNCHANGED watched, robot'.sequence_seen = robot.sequence_seen,
             robot'.last_sequence = robot.last_sequence
      PROVE  Window'
  BY <1>2 DEF Window, Ahead
<1>3. ASSUME NEW d \in 1 .. MaxLoopTime, EndLoop(d)
      PROVE  Window'
  BY <1>0, <1>2, <1>3, TickGuarded DEF EndLoop, Inv
<1>4. ASSUME NEW active \in BOOLEAN, ObservePhysicalEstop(active)
      PROVE  Window'
  BY <1>2, <1>4
     DEF ObservePhysicalEstop, AfterPhysicalEstop, Inv, Guarded, Robots
<1>5. CASE ManualReset
  BY <1>0, <1>2, <1>5, ManualResetGuarded DEF ManualReset, Inv
<1>6. CASE UNCHANGED vars
  BY <1>2, <1>6 DEF vars
<1> QED
  BY <1>1, <1>3, <1>4, <1>5, <1>6 DEF Next

\* A duplicate of an accepted frame is refused for as long as the sequences
\* have moved no more than half their range, for every width of the counter.
THEOREM ReplayIsRefusedInWindow == Spec => []ReplayWindow
<1>1. Init => Window
  BY DEF Init, NoFrame, Window
<1>2. Inv /\ Window /\ [Next]_vars => Window'
  BY WindowNext
<1>3. Inv /\ Window => ReplayWindow
  BY BehindIsNotFresh DEF Inv, Guarded, Robots, Ranges, Window, ReplayWindow
<1> QED
  BY <1>1, <1>2, <1>3, InvAlways, PTL DEF Spec

---------------------------------------------------------------------------
(* The refinement.  A step that stays guarded and ends a latched stop only *)
(* by a reset is, through the mapping, a step of EmergencyStop.            *)

LEMMA StepImplements ==
  ASSUME Guarded(robot), Steps(robot, robot')
  PROVE  [ES!Next]_<<Mode, robot.physical_estop_active>>
<1> DEFINE Pressed == robot.physical_estop_active
<1>1. /\ Mode \in {"latched", "blocked", "enabled"}
      /\ Mode = "latched" <=> robot.state = "kEstop"
      /\ Mode = "enabled" <=> robot.state = "kReady"
      /\ Pressed => Mode = "latched"
      /\ Pressed \in BOOLEAN
  BY DEF Mode, Guarded, Robots, States
<1>2. /\ Mode' \in {"latched", "blocked", "enabled"}
      /\ Mode' = "latched" <=> robot'.state = "kEstop"
      /\ Mode' = "enabled" <=> robot'.state = "kReady"
      /\ Pressed' => Mode' = "latched"
      /\ Pressed' \in BOOLEAN
  BY DEF Mode, Guarded, Robots, States, Steps
<1>3. CASE Mode = "latched" /\ Mode' # "latched"
  <2>1. Mode' = "enabled" /\ ~Pressed /\ ~Pressed'
    BY <1>1, <1>2, <1>3 DEF Steps
  <2> QED
    BY <2>1, <1>1, <1>2, <1>3 DEF ES!Next, ES!Reset
<1>4. CASE Mode' = "latched" /\ (Pressed => Pressed')
  BY <1>1, <1>2, <1>4 DEF ES!Next, ES!Trip
<1>5. CASE Mode = "latched" /\ Mode' = "latched" /\ Pressed /\ ~Pressed'
  BY <1>1, <1>2, <1>5 DEF ES!Next, ES!ReleaseButton
<1>6. CASE Mode # "latched" /\ Mode' # "latched"
  BY <1>1, <1>2, <1>6 DEF ES!Next, ES!Block, ES!Enable
<1> QED
  BY <1>1, <1>2, <1>3, <1>4, <1>5, <1>6

\* Every sequence of frames, ticks and inputs is a behaviour of the abstract
\* emergency stop the host's controller implements, too.
THEOREM RobotImplementsEmergencyStop == Spec => ImplementsEmergencyStop
<1>1. Init => ES!Init
  BY DEF Init, PowerOn, ES!Init, Mode
<1>2. Inv /\ [Next]_vars => [ES!Next]_<<Mode, robot.physical_estop_active>>
  <2>1. Inv /\ [Next]_vars => Guarded(robot) /\ Steps(robot, robot')
    BY NextSteps DEF Inv, Ranges
  <2> QED
    BY <2>1, StepImplements
<1> QED
  BY <1>1, <1>2, InvAlways, PTL DEF Spec, ImplementsEmergencyStop, ES!Spec

---------------------------------------------------------------------------
(* The watchdog.  While less than one period of the clock has passed since *)
(* the last heartbeat, the modular age is the true one; the deadline then  *)
(* follows from what the handlers do to a robot that is ready.             *)

\* What the deadline needs of the clock: either silences are shorter than its
\* period, or, for the firmware as robot.ino builds it, without the manual
\* inputs, the deadline itself is, however long the silence lasts.
ClockIsLongEnough ==
  \/ MaxSilence < ClockModulus
  \/ ~ManualInputs /\ HeartbeatTimeout + MaxLoopTime < ClockModulus

AgeIsTrue ==
  /\ silence <= MaxSilence
  /\ robot.heartbeat_seen /\ silence < ClockModulus
       => HeartbeatAge(robot, now) = silence

\* The age advances with the clock as long as it does not wrap.
LEMMA AgeAdvances ==
  ASSUME NEW M \in Nat \ {0}, NEW a \in 0 .. M - 1, NEW b \in 0 .. M - 1,
         NEW d \in Nat, ((a - b) % M) + d < M
  PROVE  (((a + d) % M) - b) % M = ((a - b) % M) + d
<1>1. (a - b) % M = IF a >= b THEN a - b ELSE a - b + M
  BY DifferenceModulo
<1>2. d < M
  BY <1>1
<1>3. (a + d) % M = IF a + d < M THEN a + d ELSE a + d - M
  BY <1>2
<1>4. (a + d) % M \in 0 .. M - 1
  BY <1>2, <1>3
<1>5. (((a + d) % M) - b) % M = IF (a + d) % M >= b THEN ((a + d) % M) - b
                              ELSE ((a + d) % M) - b + M
  BY <1>4, DifferenceModulo
<1> QED
  BY <1>1, <1>2, <1>3, <1>5

\* A tick keeps the heartbeat it watches and leaves a robot ready only if it
\* was ready and that heartbeat is no older than the timeout.
LEMMA TickTiming ==
  ASSUME NEW r \in Robots, NEW t \in Int
  PROVE  LET k == AfterTick(r, t)
         IN /\ k.last_heartbeat_ms = r.last_heartbeat_ms
            /\ k.heartbeat_seen = r.heartbeat_seen
            /\ k.state = "kReady" => r.state = "kReady"
            /\ k.heartbeat_healthy
                 => r.heartbeat_seen /\ HeartbeatAge(r, t) <= HeartbeatTimeout
            /\ k.state = "kReady"
                 => r.heartbeat_seen /\ HeartbeatAge(r, t) <= HeartbeatTimeout
<1> DEFINE k == AfterTick(r, t)
           fresh == HeartbeatAge(r, t) <= HeartbeatTimeout
           stale == HeartbeatAge(r, t) > HeartbeatTimeout
<1>1. CASE ~r.heartbeat_seen
  BY <1>1 DEF AfterTick, Robots
<1>2. CASE r.heartbeat_seen
  <2>1. k = [r EXCEPT !.heartbeat_healthy = fresh,
                      !.state = IF stale /\ @ # "kEstop" THEN "kSafe" ELSE @]
    BY <1>2 DEF AfterTick
  <2>2. fresh \/ stale
    BY AgeIsInteger, RuntimeAssumption
  <2> HIDE DEF k, fresh, stale
  <2>3. /\ k.last_heartbeat_ms = r.last_heartbeat_ms
        /\ k.heartbeat_seen = r.heartbeat_seen
        /\ k.heartbeat_healthy = fresh
        /\ k.state = IF stale /\ r.state # "kEstop" THEN "kSafe" ELSE r.state
    BY <2>1 DEF Robots
  <2>4. k.state = "kReady" => fresh /\ r.state = "kReady"
    BY <2>2, <2>3
  <2> QED
    BY <1>2, <2>3, <2>4 DEF k, fresh
<1> QED
  BY <1>1, <1>2

\* What a frame does to the heartbeat and to readiness: a heartbeat is
\* remembered with the clock's reading, any other frame leaves the heartbeat
\* alone and never readies the robot, and a motion is accepted only from a
\* ready robot with a fresh heartbeat and the button released.
LEMMA DispatchTiming ==
  ASSUME NEW r \in Robots, NEW frame \in Frames, NEW t \in 0 .. ClockModulus - 1
  PROVE  LET d == Dispatch(r, frame, t)
         IN /\ d.result = "kHeartbeatAccepted"
                 => d.robot.last_heartbeat_ms = t /\ d.robot.heartbeat_seen
            /\ d.result # "kHeartbeatAccepted"
                 => /\ d.robot.last_heartbeat_ms = r.last_heartbeat_ms
                    /\ d.robot.heartbeat_seen = r.heartbeat_seen
                    /\ d.robot.state = "kReady" => r.state = "kReady"
            /\ d.result = "kMotionDeferred"
                 => /\ r.state = "kReady" /\ ~r.physical_estop_active
                    /\ r.heartbeat_seen
                    /\ HeartbeatAge(r, t) <= HeartbeatTimeout
<1> DEFINE taken == [r EXCEPT !.sequence_seen = TRUE,
                              !.last_sequence = frame.sequence]
           d == Dispatch(r, frame, t)
<1>1. CASE frame.type = "invalid" \/ Stale(r, frame)
  BY <1>1 DEF Dispatch
<1>2. CASE ~(frame.type = "invalid" \/ Stale(r, frame))
  <2>1. frame.sequence \in Sequences16
    BY <1>2 DEF Frames
  <2>2. /\ taken \in Robots
        /\ taken.state = r.state
        /\ taken.physical_estop_active = r.physical_estop_active
        /\ taken.heartbeat_seen = r.heartbeat_seen
        /\ taken.last_heartbeat_ms = r.last_heartbeat_ms
        /\ HeartbeatAge(taken, t) = HeartbeatAge(r, t)
    BY <2>1 DEF Robots, HeartbeatAge
  <2>3. CASE frame.type = "heartbeat"
    BY <1>2, <2>3 DEF Dispatch, AfterHeartbeat, Robots
  <2>4. CASE frame.type = "estop"
    BY <1>2, <2>4 DEF Dispatch, Robots
  <2>5. CASE frame.type = "other"
    BY <1>2, <2>5 DEF Dispatch, Robots
  <2>6. CASE frame.type = "motion"
    <3> DEFINE k == AfterTick(taken, t)
               remembered == [k EXCEPT !.motion_command_seen = TRUE,
                                       !.last_motion_command_id = frame.command_id]
    <3>1. t \in Int
      BY RuntimeAssumption
    <3>2. d = MotionDispatch(taken, frame, t)
      BY <1>2, <2>6 DEF Dispatch
    <3>3. \/ /\ d.robot \in {taken, k}
             /\ d.result \notin {"kHeartbeatAccepted", "kMotionDeferred"}
          \/ /\ d.robot = remembered /\ d.result = "kMotionDeferred"
             /\ MotionPermitted(k)
      BY <3>2 DEF MotionDispatch
    <3>4. remembered.last_heartbeat_ms = k.last_heartbeat_ms
          /\ remembered.heartbeat_seen = k.heartbeat_seen
          /\ remembered.state = k.state
      BY DEF AfterTick, Robots
    <3>5. k.physical_estop_active = taken.physical_estop_active
      BY <2>2 DEF AfterTick, Robots
    <3> HIDE DEF taken
    <3>6. /\ k.last_heartbeat_ms = taken.last_heartbeat_ms
          /\ k.heartbeat_seen = taken.heartbeat_seen
          /\ k.state = "kReady" => taken.state = "kReady"
          /\ k.heartbeat_healthy
               => /\ taken.heartbeat_seen
                  /\ HeartbeatAge(taken, t) <= HeartbeatTimeout
      BY <2>2, <3>1, TickTiming
    <3> HIDE DEF k, remembered, d
    <3> QED
      BY <2>2, <3>3, <3>4, <3>5, <3>6 DEF MotionPermitted, d
  <2> QED
    BY <1>2, <2>3, <2>4, <2>5, <2>6 DEF Frames
<1> QED
  BY <1>1, <1>2

LEMMA AgeIsTrueNext ==
  ASSUME Inv, AgeIsTrue, [Next]_vars
  PROVE  AgeIsTrue'
<1> USE DEF AgeIsTrue
<1>0. /\ robot \in Robots /\ now \in 0 .. ClockModulus - 1 /\ silence \in Nat
      /\ now \in Int
  BY RuntimeAssumption DEF Inv, Guarded, Ranges
<1>1. ASSUME NEW frame \in Frames, HandleFrame(frame)
      PROVE  AgeIsTrue'
  <2>1. CASE Dispatch(robot, frame, now).result = "kHeartbeatAccepted"
    <3>1. robot'.last_heartbeat_ms = now /\ now' = now /\ silence' = 0
      BY <1>0, <1>1, <2>1, DispatchTiming DEF HandleFrame
    <3>2. (now - now) % ClockModulus = 0
      BY <1>0, RuntimeAssumption, DifferenceModulo
    <3> QED
      BY <3>1, <3>2, RuntimeAssumption DEF HeartbeatAge
  <2>2. CASE Dispatch(robot, frame, now).result # "kHeartbeatAccepted"
    <3>1. /\ robot'.last_heartbeat_ms = robot.last_heartbeat_ms
          /\ robot'.heartbeat_seen = robot.heartbeat_seen
          /\ now' = now /\ silence' = silence
      BY <1>0, <1>1, <2>2, DispatchTiming DEF HandleFrame
    <3> QED
      BY <3>1 DEF HeartbeatAge
  <2> QED
    BY <2>1, <2>2
<1>2. ASSUME NEW d \in 1 .. MaxLoopTime, EndLoop(d)
      PROVE  AgeIsTrue'
  <2>1. /\ robot'.last_heartbeat_ms = robot.last_heartbeat_ms
        /\ robot'.heartbeat_seen = robot.heartbeat_seen
        /\ now' = (now + d) % ClockModulus
        /\ silence' = silence + d /\ silence' <= MaxSilence
    BY <1>0, <1>2, TickTiming DEF EndLoop
  <2>2. robot.last_heartbeat_ms \in 0 .. ClockModulus - 1
    BY <1>0 DEF Robots
  <2>3. d \in Nat
    BY RuntimeAssumption
  <2>4. ASSUME robot.heartbeat_seen, silence + d < ClockModulus
        PROVE  HeartbeatAge(robot', now') = silence + d
    <3>1. (now - robot.last_heartbeat_ms) % ClockModulus = silence
      BY <1>0, <2>3, <2>4, RuntimeAssumption DEF HeartbeatAge
    <3>2. (((now + d) % ClockModulus) - robot.last_heartbeat_ms) % ClockModulus
            = silence + d
      BY <1>0, <2>2, <2>3, <2>4, <3>1, RuntimeAssumption, AgeAdvances
    <3> QED
      BY <2>1, <3>2 DEF HeartbeatAge
  <2> QED
    BY <2>1, <2>4
<1>3. ASSUME robot'.last_heartbeat_ms = robot.last_heartbeat_ms,
             robot'.heartbeat_seen = robot.heartbeat_seen,
             UNCHANGED <<now, silence>>
      PROVE  AgeIsTrue'
  BY <1>3 DEF HeartbeatAge
<1>4. ASSUME NEW active \in BOOLEAN, ObservePhysicalEstop(active)
      PROVE  AgeIsTrue'
  BY <1>0, <1>3, <1>4 DEF ObservePhysicalEstop, AfterPhysicalEstop, Robots
<1>5. CASE ManualReset
  <2>1. /\ robot'.last_heartbeat_ms = AfterTick(robot, now).last_heartbeat_ms
        /\ robot'.heartbeat_seen = AfterTick(robot, now).heartbeat_seen
    BY <1>5 DEF ManualReset, AfterManualReset, AfterTick
  <2> QED
    BY <1>0, <1>3, <1>5, <2>1, TickTiming DEF ManualReset
<1>6. CASE UNCHANGED vars
  BY <1>3, <1>6 DEF vars
<1> QED
  BY <1>1, <1>2, <1>4, <1>5, <1>6 DEF Next

\* While the robot is ready, its age is the true one and within the deadline.
LEMMA DeadlineNext ==
  ASSUME ClockIsLongEnough, Inv, AgeIsTrue, WatchdogDeadline, [Next]_vars
  PROVE  WatchdogDeadline'
<1>0. /\ robot \in Robots /\ now \in 0 .. ClockModulus - 1 /\ silence \in Nat
      /\ now \in Int /\ HeartbeatTimeout \in Nat /\ MaxLoopTime \in Nat
  BY RuntimeAssumption DEF Inv, Guarded, Ranges
<1>1. ASSUME NEW frame \in Frames, HandleFrame(frame)
      PROVE  WatchdogDeadline'
  <2>1. \/ silence' = 0
        \/ silence' = silence /\ (robot'.state = "kReady" => robot.state = "kReady")
    BY <1>0, <1>1, DispatchTiming DEF HandleFrame
  <2> QED
    BY <1>0, <2>1 DEF WatchdogDeadline
<1>2. ASSUME NEW d \in 1 .. MaxLoopTime, EndLoop(d), robot'.state = "kReady"
      PROVE  silence' <= HeartbeatTimeout + MaxLoopTime
  <2>1. /\ robot.state = "kReady" /\ robot.heartbeat_seen
        /\ HeartbeatAge(robot, now) <= HeartbeatTimeout
    BY <1>0, <1>2, TickTiming DEF EndLoop
  <2>2. silence < ClockModulus
    BY <1>0, <2>1, RuntimeAssumption
       DEF ClockIsLongEnough, WatchdogDeadline, AgeIsTrue
  <2>3. silence <= HeartbeatTimeout
    BY <2>1, <2>2 DEF AgeIsTrue
  <2> QED
    BY <1>0, <1>2, <2>3 DEF EndLoop
<1>3. ASSUME NEW active \in BOOLEAN, ObservePhysicalEstop(active)
      PROVE  WatchdogDeadline'
  BY <1>3 DEF ObservePhysicalEstop, AfterPhysicalEstop, Inv, Guarded, Robots,
              WatchdogDeadline
<1>4. ASSUME ManualReset, robot'.state = "kReady"
      PROVE  silence' <= HeartbeatTimeout + MaxLoopTime
  <2> DEFINE k == AfterTick(robot, now)
  <2>1. silence < ClockModulus /\ silence' = silence
    BY <1>0, <1>4, RuntimeAssumption DEF ClockIsLongEnough, AgeIsTrue, ManualReset
  <2>2. k.heartbeat_healthy \/ k.state = "kReady"
    BY <1>4 DEF ManualReset, AfterManualReset
  <2>3. robot.heartbeat_seen /\ HeartbeatAge(robot, now) <= HeartbeatTimeout
    BY <1>0, <2>2, TickTiming
  <2> QED
    BY <1>0, <2>1, <2>3 DEF AgeIsTrue
<1>5. CASE UNCHANGED vars
  BY <1>5 DEF vars, WatchdogDeadline
<1> QED
  BY <1>1, <1>2, <1>3, <1>4, <1>5 DEF Next, WatchdogDeadline

LEMMA AgeIsTrueAlways == Spec => []AgeIsTrue
<1>1. Init => AgeIsTrue
  BY RuntimeAssumption DEF Init, PowerOn, AgeIsTrue
<1>2. Inv /\ AgeIsTrue /\ [Next]_vars => AgeIsTrue'
  BY AgeIsTrueNext
<1> QED
  BY <1>1, <1>2, InvAlways, PTL DEF Spec

\* The deadline holds in true time, across the wrap, if the clock is long
\* enough; the firmware as it is built needs only its timeout and one turn of
\* loop() to fit into one period, however long the silence.
THEOREM WatchdogMeetsDeadline ==
  ASSUME ClockIsLongEnough
  PROVE  Spec => []WatchdogDeadline
<1>1. Init => WatchdogDeadline
  BY DEF Init, PowerOn, WatchdogDeadline
<1>2. Inv /\ AgeIsTrue /\ WatchdogDeadline /\ [Next]_vars => WatchdogDeadline'
  BY DeadlineNext
<1> QED
  BY <1>1, <1>2, InvAlways, AgeIsTrueAlways, PTL DEF Spec

\* No motion is accepted on the strength of a heartbeat that is really older
\* than the timeout, whatever happened between it and the last tick.
THEOREM MotionsNeedLiveHeartbeats ==
  ASSUME ClockIsLongEnough
  PROVE  Spec => MotionNeedsLiveHeartbeat
<1>1. ASSUME Inv, AgeIsTrue, WatchdogDeadline, [Next]_vars,
             accepted' # accepted
      PROVE  /\ silence <= HeartbeatTimeout
             /\ robot.state = "kReady" /\ ~robot.physical_estop_active
  <2>1. PICK frame \in Frames : HandleFrame(frame)
    BY <1>1 DEF Next, EndLoop, ObservePhysicalEstop, ManualReset, vars
  <2>2. Dispatch(robot, frame, now).result = "kMotionDeferred"
    BY <1>1, <2>1 DEF HandleFrame
  <2>3. /\ robot.state = "kReady" /\ ~robot.physical_estop_active
        /\ robot.heartbeat_seen
        /\ HeartbeatAge(robot, now) <= HeartbeatTimeout
    BY <1>1, <2>2, DispatchTiming DEF Inv, Guarded, Ranges
  <2>4. silence < ClockModulus
    BY <1>1, <2>3, RuntimeAssumption
       DEF ClockIsLongEnough, WatchdogDeadline, AgeIsTrue, Inv, Ranges
  <2> QED
    BY <1>1, <2>3, <2>4 DEF AgeIsTrue
<1> QED
  BY <1>1, InvAlways, AgeIsTrueAlways, WatchdogMeetsDeadline, PTL
     DEF Spec, MotionNeedsLiveHeartbeat

---------------------------------------------------------------------------
(* What the acknowledgement of a frame means.                              *)

\* A motion is acknowledged with OK exactly when it is accepted, an emergency
\* stop only when the robot is stopped.  An accepted motion is remembered, and
\* it is not the one that was remembered before.
LEMMA DispatchAnswers ==
  ASSUME NEW r \in Robots, NEW frame \in Frames, frame.type # "invalid", NEW t
  PROVE  LET d == Dispatch(r, frame, t)
             answer == AckStatusForDispatch(d.result)
         IN /\ answer \in {"OK", "REJECTED", "STALE", "INVALID"}
            /\ frame.type = "estop" /\ answer = "OK" => d.robot.state = "kEstop"
            /\ frame.type = "motion" /\ answer = "OK" => d.result = "kMotionDeferred"
            /\ d.result = "kMotionDeferred"
                 => /\ frame.type = "motion"
                    /\ d.robot.motion_command_seen
                    /\ d.robot.last_motion_command_id = frame.command_id
                    /\ ~(r.motion_command_seen
                           /\ r.last_motion_command_id = frame.command_id)
            /\ d.result # "kMotionDeferred"
                 => /\ d.robot.motion_command_seen = r.motion_command_seen
                    /\ d.robot.last_motion_command_id = r.last_motion_command_id
<1> DEFINE taken == [r EXCEPT !.sequence_seen = TRUE,
                              !.last_sequence = frame.sequence]
           d == Dispatch(r, frame, t)
           answer == AckStatusForDispatch(d.result)
<1>1. answer \in {"OK", "REJECTED", "STALE", "INVALID"}
  BY DEF AckStatusForDispatch
<1>2. CASE Stale(r, frame)
  <2>1. d = [robot |-> r, result |-> "kRejectedReplay"]
    BY <1>2 DEF Dispatch
  <2>2. answer = "STALE"
    BY <2>1 DEF AckStatusForDispatch
  <2> QED
    BY <1>1, <2>1, <2>2
<1>3. CASE ~Stale(r, frame)
  <2>1. /\ taken.motion_command_seen = r.motion_command_seen
        /\ taken.last_motion_command_id = r.last_motion_command_id
    BY DEF Robots
  <2>2. CASE frame.type = "heartbeat"
    BY <1>1, <1>3, <2>2 DEF Dispatch, AfterHeartbeat, Robots
  <2>3. CASE frame.type = "estop"
    BY <1>1, <1>3, <2>3 DEF Dispatch, Robots
  <2>4. CASE frame.type = "other"
    BY <1>1, <1>3, <2>4 DEF Dispatch, Robots
  <2>5. CASE frame.type = "motion"
    <3> DEFINE k == AfterTick(taken, t)
               remembered == [k EXCEPT !.motion_command_seen = TRUE,
                                       !.last_motion_command_id = frame.command_id]
    <3>1. /\ k.motion_command_seen = r.motion_command_seen
          /\ k.last_motion_command_id = r.last_motion_command_id
          /\ remembered.motion_command_seen
          /\ remembered.last_motion_command_id = frame.command_id
      BY DEF AfterTick, Robots
    <3>2. d = MotionDispatch(taken, frame, t)
      BY <1>3, <2>5 DEF Dispatch
    <3>3. \/ /\ d.robot \in {taken, k}
             /\ d.result \in {"kMotionRejectedInvalidPayload",
                              "kMotionRejectedUnsafe", "kRejectedReplay"}
          \/ /\ d = [robot |-> remembered, result |-> "kMotionDeferred"]
             /\ ~(k.motion_command_seen
                    /\ k.last_motion_command_id = frame.command_id)
      BY <3>2 DEF MotionDispatch
    <3>4. d.result \in {"kMotionRejectedInvalidPayload",
                        "kMotionRejectedUnsafe", "kRejectedReplay"}
            => answer # "OK"
      BY DEF AckStatusForDispatch
    <3> HIDE DEF taken, k, remembered, d, answer
    <3>5. d.result = "kMotionDeferred"
            => /\ d.robot = remembered
               /\ ~(r.motion_command_seen
                      /\ r.last_motion_command_id = frame.command_id)
      BY <3>1, <3>3
    <3>6. d.result # "kMotionDeferred" => d.robot \in {taken, k} /\ answer # "OK"
      BY <3>3, <3>4
    <3> QED
      BY <1>1, <2>1, <2>5, <3>1, <3>5, <3>6 DEF d, answer
  <2> QED
    BY <2>2, <2>3, <2>4, <2>5 DEF Frames
<1> QED
  BY <1>2, <1>3
===========================================================================
