# TLA+ models of the robotic character interface

This directory models the parts of the repository that decide whether a robot
moves, and the parts that record what it did. The models are checked with TLC on
small instances. The results that matter most are proved with TLAPS for every
value of the constants.

- [The system](#the-system): its components, their state and how they interact
- [The modules](#the-modules): how state and actions correspond to the code
- [The runs](#the-runs): what each shows, its bounds, the fairness
- [The proofs](#the-proofs): theorems, assumptions, inductive invariants
- [What the models found](#what-the-models-found)
- [What is not modelled](#what-is-not-modelled)
- [Plan](#plan)

Paths are relative to the repository. `rci` stands for `src/rci`.

## The system

A host process (Python, asyncio, one event loop) interprets speech and gestures,
plans a behaviour, has its safety supervisor authorise each motion and sends it
over a serial-like link to a robot (C++ firmware, one `loop()`). Each side has an
emergency stop of its own. The robot may lose the host, the host may lose the
robot, and both have clocks and sequence numbers that wrap.

| Component | State it keeps | Operations | What is hard | What makes it correct |
|---|---|---|---|---|
| Safety lifecycle (`rci/safety/lifecycle.py`) | a snapshot: latch, causes, armed, health, button, last reset, reason, sequence | arm, disarm, heartbeat age, button, software stop, unknown fault, manual reset | long sequences of calls; fields that only some methods write | the latch ends only in a permitted reset; flags, causes and reason agree |
| Eligibility checks (`eligibility.py`, `dynamics.py`) | none | `evaluate_motion`, `evaluate_dynamics` | missing, unmeasured, NaN, infinite and boundary values | they approve exactly the safe motions |
| Motion supervisor (`supervisor.py`) | the lifecycle, the policy | `evaluate`, and every lifecycle call | the order in which lifecycle and checks look at the same facts | an authorization is for a safe motion; a stop that was reported stays latched until it is reset |
| Robot gateway (`rci/hardware/`) | sequence, request lock, frames and issues received | heartbeat, authorization, emergency stop, connect, close | several tasks, cancellation, timeouts, late and damaged answers, bounded channels | a receipt is the robot's answer to that request; every call ends while the link is not jammed |
| Robot command gate (`firmware/robot/`) | state, last heartbeat, button, last sequence, last command id | frames, `Tick`, button, manual reset | `millis()` and sequences wrap; replays; a motion between a late heartbeat and the tick | the watchdog deadline; no motion without a live heartbeat; replays refused |
| Event bus (`rci/events/`) | priority queue, subscriptions, workers, counters, failures | publish, publish_nowait, subscribe, start, stop | back-pressure, failing handlers, stop with and without drain, cancellation | a drain delivers what was accepted; order within a priority |
| State manager (`rci/state/`) | the snapshot, a lock | transitions, component updates | waits for the bus with its lock held, rolls back on failure | every change is announced, callers end |
| Audit log (`rci/audit/`) | entries, hash chain, file, a lock | append, verify, load, queries; the bridge | writing in a thread that outlives a cancellation; failures of write and fsync | what is accepted is on disk, and the file loads again |
| Health monitor (`rci/health/`) | registry, last statuses, a task | run_once, periodic task, start, stop, register, unregister | waits for the bus between reading and storing a status; providers that raise or hang; overlapping runs | what is remembered was announced; what lasts is announced |
| Simulation runtime (`rci/simulation/`) | supervisor, link, gateway, twin, two locks | execute, estop, reset, close | two latches, awaits between them, a device task per request | a stop holds on both sides |
| Digital twin (`digital_twin.py`) | position, velocity and target of each joint, state, limits | accept, estop, reset_estop, step | discrete steps, square roots, a target that is passed | joints stay on their way, settle, and stand when it says so |
| Framing, stream decoders (`rci/protocols/`, `IngestByte`) | the buffer | encode, feed | resynchronisation, damaged lengths, overflow | sent frames come out; a fault costs a bounded number of them, and what is lost is counted |
| Payload codecs (`messages.py`, `protocol.h`, `runtime.h`, `robot_gateway.py`) | none | encode, decode, validate | four writings of the same layouts; widths, signs, counts | all readers take a payload for the same message, or refuse it |
| Configuration (`rci/config/`, `safety/factory.py`) | none | load, validate, build the envelope | missing, NaN, infinite and swapped numbers | what is accepted makes a usable envelope, and nothing is wider than measured |
| HIL gate (`rci/hil/`) | permit and result files | evaluate, record | writing that fails or stops half way, denied reruns | a permit file is whole and earned |
| Single-servo HIL guard (`firmware/robot/hil_single_servo.h`) | configuration, armed, latch | configure, arm, observe, reset, evaluate | configuring again; spans of signed angles in an unsigned type | a target is eligible only when armed since the last stop and in range |
| Voice service (`rci/voice/`) | state, transcript, active speech | recognize, speak, complete, interrupt | barge-in, failures in between | every speech ends once |
| Gesture classifier (`rci/gesture/`) | the last rolls | classify | windows, skipped samples, ends of ranges | a wave is a swing to and fro |
| Interaction (`multimodal/`, `cognition/`, `characters/`, `behavior/`) | none | correlate, respond, plan | two clocks that nothing synchronises, one of which wraps; an external engine's answer | only released answers become behaviours; gestures are combined only from the window as it is shifted by the clocks' offset |
| Kinematics, domain types, API shell, dashboard, firmware stubs | little or none | | | see [What is not modelled](#what-is-not-modelled) |

How they interact:

- **Calls.** The simulation runtime and other callers call the supervisor, which
  calls its lifecycle and the two pure checks. An approved motion becomes an
  `AuthorizedMotion`, which stays in its caller's hands until it calls
  `RobotGateway.send_authorization`.
- **Messages.** The gateway and the robot share nothing but frames on the wire.
  Each request has one acknowledgement, matched by sequence number.
- **Events.** The state manager publishes its transitions on the bus while it
  holds its lock. The bus's workers run the handlers, one of which is the audit
  bridge, which appends to the audit log in a thread.
- **Time.** The lifecycle is *told* heartbeat ages; the robot measures its own
  with `millis()`. No clock runs on the host between approval and sending.

PROJECT.json lists every component with its status, and under `hazards` every
place in this code that is hard to test with the properties that cover it.

## The modules

| Module | Models | Its state and actions |
|---|---|---|
| `EmergencyStop` | what both safety controllers promise | `mode` (enabled, blocked, latched) and `pressed`; a latched controller leaves only by a reset with the button released |
| `SafetyLifecycle` | `lifecycle.py` | `snapshot` is `SafetyLifecycleSnapshot`, field by field; one action per method that commits a snapshot; `After...` operators are the methods as functions of the snapshot, used again by the supervisor, the path and the simulation. Checked as a part of the supervisor |
| `MotionEligibility` | `eligibility.py`, `dynamics.py` | pure operators (`Approves`) beside an independent definition `SafeMotion`; one step assesses one `request` |
| `MotionSafetySupervisor` | `supervisor.py` | the lifecycle with its variable and actions (`CallController`), and an instance of the checks; `Evaluate` is the whole of `evaluate()`: reports to the lifecycle, its verdict, the static and the dynamic check, the authorization minted; `shown` is the history of the stops that were reported since the last granted reset |
| `RobotGateway` | `robot_gateway.py`, `protocol_transport.py`, `memory_transport.py` | per task a program counter (idle, queued for the lock, sending, receiving), the lock's queue, both channels, frames and issues decoded but not read. Each action runs a task from one `await` that must wait to the next |
| `RobotRuntime` | `runtime.h`, `loop()` of `robot.ino` | the fields of `RobotRuntime`; `Dispatch` is a frame from validation to acknowledgement; `EndLoop(d)` is `Tick` and `d` ms of time |
| `MotionPath` | supervisor, gateway session, wires and robot together | uses the operators of `SafetyLifecycle` and `RobotRuntime` by INSTANCE; adds retries, new sessions, manual resets and power cycles |
| `SimulationRuntime` | `simulation/runtime.py`, `device.py`, state and latch of `digital_twin.py` | two latches (`lifecycle`, `twin`), the execution lock's queue, each caller's place, the two directions of the link, the device tasks that wait; an action runs a task from one `await` that must wait to the next |
| `EventBus` | `bus.py` | the handlers subscribed, queue, unfinished count, waiting publishers, workers and the handlers they have yet to run, the call of stop() that joins |
| `StateManager` | `state/manager.py`, `transitions.py` | the snapshot (system state, revision), the lock's queue, each caller's place |
| `AuditLog` | `audit/logger.py`, `hash_chain.py` | entries in memory, lines in the file, appends in the lock's queue, the thread that writes, and threads cut loose from their caller |
| `RuntimeEvents` | bus, manager, log, `bridge.py` together | instances of the three; who is cancelled, what fails, who unsubscribes and comes back, when the bus is stopped |
| `HealthMonitor` | `health/registry.py`, `monitor.py` on the bus | an instance of `EventBus`; the registry, each run of `run_once` from one `await` to the next, the periodic task. A run keeps the event loop (`HoldsLoop`) from its last answer until it waits for room; each component in turn is compared with what is remembered at that moment, which another run may have changed during the wait |
| `FrameStream` | `stream.py`, `framing.py`, `IngestByte` of `robot.ino` | the frames sent, the position on the line, the decoder's buffer, what was heard; `Feed` takes a chunk as `feed()` does, `Ingest` a byte |
| `Payloads` | `messages.py`, `protocol.h`, `MotionCommandWasAccepted`, the gateway's motion message | a payload is encoded, perhaps altered in a byte, and judged; `Encode` and `Decode` by message type, `FirmwareEncode`, the robot's check |
| `Configuration` | `config/`, `safety/factory.py`, the gateway's joint ids | extends `MotionEligibility`: files are loaded or refused, an accepted configuration becomes an envelope, and the checks judge a motion by it |
| `SingleServoHil` | `hil/`, `hil_single_servo.h` | evidence and results, the files and how far each is written; the guard with its methods |
| `GestureClassifier` | `gesture/classifier.py` | the window of rolls, one action per sample; angles and rates in hundredths of a degree. `SWING` is 781 because `12.0 * 0.65` is just above 7.8 as a float |
| `VoiceService` | `voice/service.py` | `voice` is the service's fields; one action per method, with the failures of its backends |
| `Interaction` | `correlator.py`, `cognition/`, `characters/`, `behavior/`, the HTTP route | the host's clock and the `offset` of the glove's, which is anything and never changes; one interaction from request to goal |
| `DigitalTwin` | the joints of `digital_twin.py`, the loop in `execute_behavior` | `joint` and `mode` are the twin's fields, `settling` the loop's count; accept, estop, reset_estop, step |
| `MC...` | | values for TLC. `MCChecks` and `MCProtocol` hold several components side by side, of which a behaviour is about one |
| `...Proofs` | | theorems: a module for each of the larger components; `ConfigurationProofs` holds those of files and checks, `ProtocolProofs` those of the stream, of the payloads and of the simulation runtime that speaks the protocol, `HostProofs` those of the supervisor, the health monitor, the gesture classifier, the voice service, the HIL gate and guard, the interaction and the twin's joints |

Decisions a reader should know:

- *Actions.* An action models a whole handler with everything it calls. Where a
  coroutine may give up the thread, the action ends there. In `EventBus` taking
  an item and running the first handler, and the end of a handler and the
  worker's next turn, are separate steps although the code may run them in one:
  the model has more interleavings than the program, never fewer.
- *Operators named after a fault* (commented "Seeded fault") are never used by a
  specification. Each is a plausible mistake at that place; replacing the
  operator after it by the fault must break the property that is paired with it
  in PROJECT.json. They show that the properties can fail.
- *Properties with parts.* Several checked invariants are conjunctions of named
  parts, each with its own comment: `RequestsTakeTurns` of the gateway is its
  types, `OneRequestAtATime`, `FramesLeaveInOrder` and `DisturbancesLeaveOne`; `MotionsHappenAsTold`,
  `StateIsAnnounced`, `AuditIsComplete`, `AuditIsOnDisk`, `RequestsStayInStep`,
  `KnowsWhatItAnnounced`, `FramesGetThrough`, `NothingHidden`, `CodecsAgree`,
  `MotionIsUnaltered`, `FilesGovernMotion`, `GuardKeepsCalibration`,
  `GestureIsSound`, `BehaviorIsGrounded` and `TwinIsTruthful` are made likewise.
  The text below names the parts where it is about one of them.
- *Supervisor.* Violation texts, severities and their order are left out; whether
  there is a violation is kept. A stop, to `StopsAlwaysLatch`, is a pressed button or a
  heartbeat that is too old or no number while the watchdog is armed. A disarmed
  watchdog listens to no heartbeat (`lifecycle.py:158`): the motion is then rejected
  for the watchdog, and nothing is latched.
- *Gateway.* `sent` and the `id` of a request are histories, which tell apart two
  requests with the same sequence after a wrap. Waiting for an answer has a
  timeout; writing has none, as in the code. Receiving works on whole frames and
  damaged answers; how bytes become frames is the matter of `FrameStream`. The robot
  answers in the step in which it takes a frame, once there is room for the answer;
  one that takes the frame in hand before it waits holds one frame more.
- *Interaction.* A gesture is stamped with the host's time plus `offset`, modulo the
  period: `classifier.py:83` copies `device_time_ms_mod`, and
  `docs/architecture/protocol-v1.md:52` says that host and MCU clocks are not
  synchronised. A gesture posted over HTTP is stamped by the host itself.
- *Robot.* `silence` (true time since the last heartbeat) and `watched` (how far
  the sequences moved since one accepted frame) are histories.
- *Simulation.* Whether a behaviour has a plan, whether its motion fits the wire
  and the twin's model, and whether the twin settles in 5000 steps is a free
  choice; the joints themselves are in `DigitalTwin`, where the step is the unit
  of time and a square root is either integer beside it. The snapshot's number is
  left out. `requests`, `moved` and `stopped` are histories. The link's capacity
  (4096 bytes, a request at a time) is out of reach.
- *State manager.* Of a component only that it was replaced is kept: `update_*`
  raises the revision.
- *Audit log.* The hash of an entry stands for the entry: `previous` is the event
  of the entry before, which its uuid makes unique. Durable mode only.
- *Bus.* `stop()` cancels its workers and waits for them in one step, because
  nothing else runs in between but their own ends. `start()` is taken only when
  no `stop()` is in progress; the code leaves this to its owner (a racing start
  would leave workers nobody stops). The handlers are those of one event class;
  one that subscribes again goes to the end of their order, and an item is
  dispatched to those subscribed when its dispatch began.
- *Frames.* The line carries symbols: a byte is one, a field of two bytes (sequence,
  length) is one, and the checksum is one that is no byte and tells what it is taken
  of. The decoders are judged as if CRC-16 detected every fault. The host's loop is a
  function of the number of its turns, of which a buffer needs at most as many as it
  has symbols.
- *Payloads.* A byte is a digit to the base `ByteBase`; the fields keep their
  number of bytes and their signs, so that every overflow of the code is there. A
  layout is the list of fields of a message, of whatever number of joints; `Offsets`
  is a recursive function of it, and the UUID of a command is one byte.
- *Health.* What a provider says is a free choice that may change at any time.
  `asyncio` cannot switch tasks where the code does not wait, which `HoldsLoop`
  and `LoopFree` express.
- *HIL.* A digest stands for the document it is taken of. The repository does not
  say how a permit's calibration reaches the guard, so the guard is offered any.
- *Configuration.* NaN is `NonFinite`, as in the checks; an infinity is the
  largest integer there is. Fields that no check or envelope reads are left out.

## The runs

| Run | Question | Bounds | States |
|---|---|---|---|
| `supervisor` | Do the lifecycle's flags, causes and reason agree, does only a permitted reset forget causes, is it an `EmergencyStop`? Is every authorization for a safe motion, its freshness mark sound, and does every stop that was reported hold the latch until a reset? | 7 commits, 5 ages, 3 authorizations | 58 000 |
| `robot` | Watchdog deadline, replay window, live heartbeat, `EmergencyStop` | sequences mod 6, clock mod 7, timeout 2, 2 command ids | 75 000 |
| `gateway` | Receipts genuine, frames in order, lock exclusive, left-over frames bounded, calls end unless the link is jammed, recovery | 2 tasks, a channel of 2 out and of 1 in, sequences mod 5, any 3 of 7 disturbances | 727 000 |
| `path` | A known stop holds, a receipt is for its own motion, a retry is accepted once | 4 requests, 2 faults, 2 authorizations | a minute |
| `path_blocked` | Do an expired command and a host stop block a motion? (violated) | no fault needed | seconds |
| `path_new_session` | Is the first request of a new session heard? (violated) | 1 fault | seconds |
| `simulation` | Does an acknowledged stop hold on both sides, are reports genuine, do undisturbed requests succeed and all calls end? | 2 callers, 4 calls, 2 disturbances, resets at any time | 312 000 |
| `events` | Changes announced, drain complete, audit ordered and durable, callers end | 1 worker, queue of 2, 2 callers, 3 transitions, 3 incidents | 751 000 |
| `events_file` | Is the audit file numbered upwards after a stop? (violated) | 2 transitions, 2 incidents | seconds |
| `health` | Is what the monitor remembers and reports announced, are only transitions published, does a subscriber end up knowing the last status, and is a lasting status announced? | 2 components, the task and 1 caller, queue of 2, 1 worker, 3 incidents | 311 000 |
| `protocol` | Is every frame of an undamaged line heard, is nothing invented, is the loss by one fault bounded and counted? Do host, gateway and firmware read a payload alike? | 3 frames, 1 fault at every place, every chunking; messages at both ends of each field, every byte altered | 89 000 |
| `checks` | Do the checks approve exactly the safe motions, do files fail closed and are those accepted usable, are permits earned, do guard and host agree, is nothing eligible unarmed? Waves, speeches, correlation, behaviours; joints that stay on course, settle and stand | see below | 1 209 000 |

**Why the bounds are enough.** They are chosen so that the interesting case
happens with room to spare, which the seeded faults confirm.

- Clock and sequence moduli are small so that each *wraps* several times in a
  run. The robot compares sequences modulo 2^16 and times modulo 2^32; the
  comparison is the same operator on a smaller modulus.
- Ages and measurements take one value on each side of every limit, together
  with NaN/infinity, missing and negative values.
- Two tasks suffice for one to hold the gateway's lock while the other waits and
  is cancelled. The two channels hold three frames and three disturbances leave as
  many behind, so that the link can be jammed: each direction full, the task waiting
  for room to the robot and the robot for room to the task. TLC reaches it by two
  late answers and a stray one, no sooner than `DisturbancesLeaveOne` says.
- In `simulation`, one caller holds the lock and one waits; two disturbances are
  a cancellation that leaves a device task behind and a second cancellation, a
  timeout or a `close()` on top of it; four calls leave two to meet the effects.
- `MaxSequence` (supervisor) bounds the committed calls, `MaxTime`,
  `MaxRequests` and `MaxFaults` (path) the time, the requests and the giving up,
  reconnects and power cycles.
- In `events`, a queue of two is full with one item in work and two waiting, so
  that a transition waits for room with the manager locked, and others queue
  behind it. `MaxNumber` bounds the number at which a transition still begins,
  `MaxIncidents` the stops, failures of the observer and of writes, cancellations,
  notes, component updates, direct entries and handlers that leave or come back
  together.
- In `health`, a queue of two lets a run wait for room while a critical failure
  overtakes what is queued. `MaxIncidents` bounds changed conditions, registrations,
  stops, calls of `run_once`, cancellations and failing handlers together; three
  are a change, a run beside the task's, and a cancellation or a stop on top.
- In `protocol`, payloads of up to two bytes (`MaxPayload` 2) can hold a magic or
  a part of one, so that a fault may put a decoder into the middle of a frame.
  `Headroom` 8 and `MaxChunk` 10 keep the code's order of sizes: a read may exceed
  the headroom. `ByteBase` 16 and `MaxJoints` 2 make every field overflow, and
  every count exceed its limit, in small payloads.
- In `checks`, every number of a motion, an envelope, a file or a calibration
  takes a value on each side of each of its bounds, besides missing, NaN and the
  infinities; files are changed in up to two places. `AngleWidth` 4 makes the
  guard's spans wrap; `MaxRuns` 2 is a run and a rerun; `WaveWindow` 5 with
  `MaxSamples` 6 fills the window and shifts it, and holds a small roll that is
  skipped between the four swings of a wave; `Modulus` 5, `Window` 1, `MaxLag` 2 and
  `MaxTime` 5 with every offset of the glove's clock let it wrap, and let stale
  gestures be taken and fresh ones be missed;
  `MaxSpeeches` 3. The twin has two joints of unlike range, speed and acceleration;
  `MaxSteps` 9 is what the longest way at the lowest limits takes.

**What the bounds assume.** `ReceiptIsGenuine` needs fewer answers outstanding
than there are sequence numbers: after 2^16 unanswered requests an old answer
could pass for a new one; `SequenceIsLongEnough` says how many
suffice; the run has one fewer. `PathAssumption` says the same of the path
(`MaxRequests < SeqModulus`). `MotionNeedsLiveHeartbeat` holds for silences below
one period of the clock (`ClockIsLongEnough`): after 2^32 ms without a
heartbeat, a manual reset would take the age of the last one for fresh.

**Deadlock** is checked except where a run comes to an end with nothing left to
do: in `gateway`, where the jam is a state that
the code cannot leave by itself (see [What the models found](#what-the-models-found));
in `checks` and `protocol`, whose inputs are answered and whose frames, runs
and samples are bounded; in `events`, `events_file` and `health`, where the bounds
on callers and incidents leave a last state (queue empty, all callers idle).

**Fairness.** Safety needs none. `gateway` assumes that the event loop resumes a
task that can go on and a timer that ran out, and that the robot reads its link
while it is up and has room to answer; nothing is assumed of late answers, of cancellations, or of the
callers, save in `Recovers`, which states in its premise that callers go on
calling. `simulation` assumes that the event loop
resumes the tasks that can go on, and nothing of callers, cancellations, timeouts
or resets. `events` assumes that the event loop resumes
tasks and that threads and handlers end, as asyncio and the bridge do; it does
not assume that anybody publishes, or that a stopped bus is started again.
`health` assumes that tasks that can go on do, that the
monitor's timer runs out, that providers which answer do so, and that the
subscriber ends; providers may hang, and the property excuses those that do.
`TransitionsEnd` counts on finitely many other publications (with an endless
stream of them a waiting publisher may be overtaken for ever) and excuses a
stopped bus.

**What the liveness results do not say.** `RobotGateway.send_*` has no timeout on
the write: a robot that stops reading, without closing the link, blocks the
gateway, and an emergency stop waits behind the same lock. `RequestsEnd` has it as
its premise that the link is not jammed for good, which the code does not see to. `stop()` of the bus
wakes no publisher that waits for room: its transition remains, with the manager
locked, until the bus runs again. A provider that hangs blocks the run that asks it, and
with it every later check: `check_all` has no timeout, and
`LastingStatusIsAnnounced` excuses it in its premise.

## The proofs

TLAPS proves the following for every value of the constants that satisfies the
named assumptions (`LifecycleAssumption` and the like, in the module that
declares the constants; they are what the code's own checks of its settings and
the types and meaning of the values give, TLC evaluates them in the runs). Some
hypotheses go beyond them and are written into the theorems that need them:

- `SequenceIsLongEnough` (gateway): `MaxDisturbances + 2 < SeqModulus`, there are
  more sequence numbers than things that go wrong. The code's modulus is 65536, and
  nothing in it forgets an outstanding answer, so that without a bound on the
  disturbances an old answer could pass for a new one after a wrap. The run has five
  numbers for three disturbances, one fewer than the theorem asks for.
- `ClockIsLongEnough` (robot): silences are shorter than a period of `millis()`, or
  there are no manual inputs, as `robot.ino` is built, and the timeout and one
  `loop()` fit into a period. Both disjuncts are true of 2^32 ms, 500 ms and any
  plausible loop. The run's seven-valued clock satisfies the first.
- `ReferenceRobot` and `ContractLiterals` (interaction): the arm is the one of
  `configs/simulation/reference_arm.yaml`, and cues and styles are of the
  enumerations of `characters/contracts.py`. Goals are offsets from home, and it is
  this arm whose ranges they were chosen for. The values of the run satisfy both.
- `EnoughSteps` (twin): every limit permits motion (`models.py:35`, `messages.py:207`
  refuse others), and the longest way between two places a joint can be sent to is at
  most `MaxSteps - 1` times the smaller of its velocity and acceleration limits per
  step. The run's plant meets it with equality. The code's own behaviours on the
  reference arm meet it fourfold: their goals lie at most 45 degrees apart, and 4999
  steps of 0.02 s at a pace of 90 deg/s^2 times (0.02 s)^2 = 0.036 degrees make 180.
  For a slower command or a longer way the loop may really be cut short: it leaves a
  joint that moves between commands, and of a new target it may then turn round.

| Theorem | Says | Rests on |
|---|---|---|
| `SafetyLifecycleProofs!LatchIsAlwaysExplained` | flags, causes and reason agree | `Consistent(snapshot)` |
| `...!CausesOutliveEverythingButReset` | only a permitted reset forgets causes | `Consistent` |
| `...!LifecycleImplementsEmergencyStop` | the controller refines `EmergencyStop` | `Consistent` |
| `ConfigurationProofs!ApprovesExactlySafeMotionAlways` | the checks approve exactly `SafeMotion` | no invariant: a lemma for each check |
| `...!FilesGovernMotionAlways` | whatever the files say, a motion is approved only within their limits on a robot they declare measured; accepted files make a usable envelope, and its motions can be sent | `ConfigurationInv`, the theorem about the checks |
| `HostProofs!SupervisorTypeCorrect`, `SupervisorLatchIsExplained`, `SupervisorKeepsCauses`, `SupervisorImplementsEmergencyStop` | the same of the supervisor, whose `evaluate()` reports to the lifecycle up to twice in one step | `Inv`, the lifecycle's lemmas |
| `...!FreshnessMarkIsSound` | an authorization whose lifecycle sequence is current was followed by no stop | `Inv` |
| `...!OnlySafeMotionIsApproved` | every authorization minted is for a safe motion while motion is permitted | `Inv`, the eligibility theorem |
| `...!StopsShownStayLatched` | a stop that `evaluate()` was shown is answered by ESTOP, and holds the latch under its own cause until a reset is granted | `Inv`, `ControllerForgets`, `ReportsLatch` |
| `...!SpeechesAreAccountedAlways` | every speech that began is active or ended once, and the service's state says which | `VoiceInv` |
| `...!PermitIsEarnedAlways` | a permit or result that can be read is whole and was earned | `DocumentInv` |
| `...!GuardKeepsCalibrationAlways` | guard and host take the same calibrations; what is eligible is armed and within the last one accepted | `GuardInv` |
| `...!BehaviorIsGroundedAlways` | for every offset of the glove's clock, gestures are combined only from the window shifted by it; frames claim no more than their parts, behaviours rest on a released answer, goals are within reach | `InteractionInv`, `ReferenceRobot`, `ContractLiterals` |
| `...!TwinStandsWhenItSaysSo` | a twin that is idle or stopped stands at its targets | `StandsInv` |
| `...!TwinSettlesInTime` | the loop's budget of steps suffices | `TwinInv`, `BudgetInv`, `EnoughSteps` |
| `...!TwinIsTruthfulAlways` | besides, joints stay on their way and within their limits | the same |
| `...!KnowsWhatItAnnouncedAlways` | what the monitor remembers and reports was announced; without overlapping runs, each transition once | `MonitorInv` |
| `...!StaleOnlyIfOvertakenAlways` | behind an emptied queue with one worker, a subscriber knows every status but for a critical failure that overtook | `MonitorInv` |
| `...!GestureIsSoundAlways` | a wave is four alternating far swings in a full window; what is recognized has 50 to 100 percent | `GestureInv` |
| `RobotRuntimeProofs!TypeCorrect` | the type invariant | |
| `...!InputsAreNeverOverruled` | the button keeps `kEstop`; `kReady` rests on a healthy heartbeat | `Inv` |
| `...!OnlyAResetEndsAStop` | `kEstop` ends only in a manual reset with the button released | type invariant |
| `...!ReplayIsRefusedInWindow` | an accepted frame is refused until the sequences moved more than half their range | `Inv`, arithmetic lemmas on windows |
| `...!RobotImplementsEmergencyStop` | the robot refines `EmergencyStop` | `Inv` |
| `...!WatchdogMeetsDeadline` | no readiness beyond the timeout and one loop of true silence | `Inv`, `AgeIsTrue`, `ClockIsLongEnough` |
| `...!MotionsNeedLiveHeartbeats` | a motion is accepted only when ready and with a heartbeat that is truly live | the same |
| `MotionPathProofs!StopReceiptsAreTrue` | after a stop's receipt the robot stays stopped until it is reset or power-cycled | `Inv`, robot and lifecycle lemmas |
| `...!MotionReceiptsAreTrue` | a receipt for a motion is for that motion, a retry is accepted once | `Inv` |
| `ProtocolProofs!StreamInvAlways` | the inductive invariant of both stream decoders | |
| `...!FramesGetThroughAlways` | every frame is heard on a line without faults, and every one that begins a frame's size behind a fault, if no payload holds the magic; a buffer keeps less than a frame | `StreamInv` |
| `...!NothingHiddenAlways` | what is heard was sent, once and in order; the host counts every byte that is not part of it | `StreamInv` |
| `...!PayloadsMadeAlways` | a payload is bytes, and unless it was altered it is what its maker makes of what it was given | |
| `...!CodecsAgreeAlways` | what is encoded is decoded to itself; what is accepted is the encoding of what is returned; the host understands the firmware, but for an unknown state and repeated ids | `PayloadsMade`, the codecs' lemmas |
| `...!MotionIsUnalteredAlways` | host and robot accept the same motions, but for the id zero; what the gateway sends passes both with exactly the authorized numbers | the same |
| `...!StopsHold` | a reported stop holds in supervisor and twin | `Inv` (`RuntimeKeepsOrder`) |
| `...!ReportsAreGenuine` | a report is of the caller's own motion, which the twin executed | `Inv` |
| `...!RequestsKeepStep` | undisturbed requests succeed; an answer finds its device task done | `Inv` |
| `RuntimeEventsProofs!RecordIsKept`, `TypeIsKept` | the inductive invariant of manager, bus and log; their types | |
| `...!StateIsAnnouncedAlways` | every change is announced, from the state it left to the one it reached | `RecordIsKept` |
| `...!AuditIsCompleteAlways` | what a draining stop was to wait for is on record; one worker records each priority in order and once | `RecordIsKept` |
| `...!AuditIsOnDiskAlways` | what is accepted is on disk; the file loads unless an append was cut short | `LogInv`, lock and thread of the log |
| `RobotGatewayProofs!LockIsOneTasks` | types; the request lock is its queue's head's and nobody else's | `Base` |
| `...!TurnsAreTaken` | besides, frames leave in the order of their numbers, and a jam takes as many disturbances as both channels hold frames | `Inv`, `SequenceIsLongEnough` |
| `...!ReceiptsAreGenuine` | a receipt or a rejection is the robot's answer to that very request | the same |

The argument in each case: the property is seldom inductive.

- *Lifecycle.* It is not enough that a latch has a cause: that disarming keeps the
  explanation depends on what health was before, so `Consistent` relates armed,
  healthy, causes, button and reason in all combinations. Each method's operator is
  shown to take a consistent snapshot to a consistent one, and the theorems read
  their property off it.
- *Supervisor.* `Inv` adds that every authorization's mark is at most the current
  sequence and that an equal mark means that motion is still permitted; and that the
  stops shown since the last granted reset are among the causes, which only that
  reset forgets (`ControllerForgets`) and which an evaluation's two reports leave
  behind in either order of what they find (`ReportsLatch`).
- *Configuration.* The envelope is made of the files and the checks are the theorem's,
  so `ConfigurationInv` says that a request still is what was asked, with the envelope
  of the files loaded. That approval within such an envelope is approval within the
  files is then shown limit by limit, with the missing, NaN and infinite ones.
- *Voice.* The accounting is inductive together with the types of the service's fields;
  a new speech has a number that no set holds yet.
- *HIL.* `DocumentInv` speaks of the document that is being written as well as of the
  file, so that a crash between writing and replacing finds it earned already.
  `NothingOwed`: an armed guard has been armed, and if it was stopped reset, since the
  calibration it keeps was accepted.
- *Interaction.* A stamp is the glove's time, that is the host's plus the offset,
  modulo a period. A stamp near the request means that the gesture is no older than
  the window and the offset, however often the clock wrapped. That it is no younger
  than their difference holds while window, lag and offset are together less than a
  period (`NearStampIsNear`), and is a premise in the property itself.
- *Twin.* `Course` of a joint: it lies between where its command began and its target,
  its velocity points to the target, and neither limit nor start is overstepped. A step
  keeps it whatever integer the square root is rounded to, which the code's floating
  point may do either way. `RestsBetween` is what a new command starts from. That
  the loop's steps suffice rests on `RootIsPaced`: the root that a joint brakes by is
  at least the acceleration limit or the rest of the way, so that every step makes the
  `Pace` or arrives. `BudgetInv` counts: what is left and what the steps made at that
  pace are together no more than the way, which `EnoughSteps` bounds.
- *Robot.* `Inv` is its types, that a held button means `kEstop`, and that `kReady`
  means a healthy heartbeat. For the replay window `Window` is added: the watched
  frame lies `Ahead(last, watched) = moved` behind the last sequence, counted modulo
  2^16, which carries the half-range argument through a wrap. For the deadline
  `AgeIsTrue` is added: the age modulo the clock's period is the silence modulo
  that period, so that an age within the timeout is true as long as the silence has
  not come round.
- *Path.* What the host may believe rests on the answers still on the wire, so
  `Inv` speaks of them: every number on a wire was given out by this session
  (`GivenOut`), the frame with the outstanding number is the outstanding request
  (`OwnFrame`), an answer to it that says OK is already true of the robot
  (`AnswersAreTrue`), and the robot remembers the last motion it accepted
  (`Remembered`).
- *Stream.* `StreamInv` is about what is unread in the buffer (`Reading`): a checksum
  there is of a frame that has passed, and checksums are in the order of their frames
  (`Checks`); what was heard was sent before those (`Hearing`); what came behind the
  last fault is as it was sent (`Clean`); without a fault the reading stands at the end
  of the last frame heard (`Prompt`), and well behind one nothing is passed over
  (`Skipped`). Since a checksum tells its frame, a candidate that is accepted is that
  frame (`AcceptReading`), and what is discarded begins no frame that would have to be
  heard (`DropReading`). Both decoders' steps are shown to be made of these two, and
  of what arrives (`GrowReading`), is lost, or is sent. The host's loop is unrolled by
  least counterexample (`DecodeReading`).
- *Payloads.* The invariant only says who made a payload; the work is about the codecs.
  A field gives back what was packed, by the carries of each width (`FieldRound`), and
  packs what was read (`FieldBack`). Each field is at the sum of the widths before it
  (`PackIs`, `UnpackIs`); in a layout with n joints those sums are products of n
  (`WholeIs`), which the offsets the robot reads by are equal to (`MotionMeans`). The
  number of joints is read before the layout is known: `EncodedIs` and `DecodedIs` show
  that it is read where the layout of that number has it. For the gateway,
  `SortedExists` shows that names can be sorted by their ids, and `SortedHasAll` that
  the list leaves none out. `PayloadAssumption` asks of the byte base that it is even
  and at least 16; 256 and the runs' 16 are instances.
- *Simulation.* A caller with the lock asked last, so its frame is the last of its
  link, and once its answer is there nothing else is on the way to the twin
  (`OwnFrameIsTheLast`, `AnswerIsTheLast`). Therefore what the answer tells of the
  twin is still true when it is read, even if requests that were given up are
  carried out in between (`StopHolds`).
- *Events.* A part for each component and one for what lies between them. `LogInv`:
  every accepted entry is on the file, as far down as in memory or farther, and
  while no line was left that should not be there the file is the memory and the
  line just written. `BusInv`: the numbers in the queue
  and the caller that waits for room. `LockInv`: whoever is
  in a call of the manager holds its lock or is in the queue for it, and only the
  holder publishes. `AnnounceInv`: the announced changes lead to the state in the
  snapshot, or to the one before while its change waits for room. `AuditInv`: the
  way of an event from the queue through a worker's dispatch and an append into
  memory, with what a single worker has yet to record for its order.
- *Health.* `PreviousWasAnnounced` follows from what a run that waits is about to
  store, so `AnnounceInv` has a part for every place of a run: what it found so far
  and has not left to compare is announced (`FoundIsTold`), and so is what its
  report says (`ReportIsTold`). `OnlyTransitions` needs that without overlap the
  change that waits for room starts at what is remembered (`TransitionsInv`). For
  the subscriber, `BeliefInv` says that the newest event of a component is still
  queued, or a critical failure that came past the others, or what the worker
  handles or handled last of that component. They stand on types and numbers of the bus (`BusInv`).
- *Gestures.* `GestureInv`: the window is the last rolls of the samples so far.
  `WaveIsToAndFro` shows of any window that the code's count of three changes of side
  among its swings is the same as four swings that alternate.
- *Gateway.* `Base` is the lock: a task that sends or receives is the first of the
  queue, and one that receives has found no frame or issue left over. `Flow`
  (`Pipeline`) takes the host's issues and frames and both wires for one queue, in
  which a request pushes something and takes something from the front; the age of a
  number (how many were given out since) and what lies before it are together at
  most the disturbances so far and the request under way. With
  `SequenceIsLongEnough` no number is a whole period old, so one equal to the
  outstanding number is the outstanding request's (`OwnNumber`), whatever timed
  out, was cancelled or came late.

Two points of technique. The library's induction theorems take an operator, which
no installed prover instantiates; where a count or an order must be shown for every
length, the proofs take a least counterexample instead (`LeastNumber`,
`EveryNumber`, from the well-foundedness of < on the naturals). And waiting queues
lose an element by `RemoveFirst`, damaged answers and abandoned threads are taken
out by local recursive functions, because those can be reasoned about.

The types of supervisor and robot and `EstopLeftOnlyByReset` are proved and not
checked by a run of their own: `RobotRuntime!ImplementsEmergencyStop`, which is
checked, says as much of leaving a stop, and the rest is what the prover is for.

Only model-checked:

- liveness and `ENABLED`, which are beyond the prover: `RequestsEnd` and `Recovers`
  of the gateway, `TransitionsEnd` of the events, `CallsEnd` of the simulation,
  `LastingStatusIsAnnounced` of health.

## What the models found

Each is a run that TLC ends with a counterexample, and a finding in PROJECT.json
that quotes the line.

1. **A blocked motion is sent all the same** (`path_blocked`). `AuthorizedMotion`
   carries a lifecycle sequence and a TTL, and nothing compares either between
   approval and the robot's acceptance. The mark would be sound:
   `FreshnessMarkIsSound` proves that comparing it would suffice for stops.
2. **The audit file can become unreadable** (`events_file`). A stop without drain
   cancels `append` while its thread writes; the line stays in the file without
   its entry in memory, and the next append repeats its number.
3. **A new session is refused as stale** (`path_new_session`) when the robot was
   not power-cycled with it.

Worth knowing beside these:

- A power cycle of the robot forgets its latch, as the firmware keeps nothing in
  non-volatile memory; `StoppedMeansStopped` therefore ends there.
- The robot remembers only the last command id, so it is the sequence window and
  not the id that refuses older frames; `RetryIsAcceptedOnce` is about retries
  that come next.
- Answers that come too late are never cleared from the link. Once they, or stray
  frames, fill both directions, the next request waits for room to the robot, and the
  robot for room to the gateway, which reads only after it has written. Nothing times
  out, and an emergency stop waits behind the same lock, until somebody cancels,
  closes or hangs up. `docs/architecture/transports-and-simulation.md:19` says of the
  link that a full buffer holds the writer back, and of this consequence nothing. With
  4096 bytes in each direction it takes several hundred such answers.
- One answer that is later than its timeout shifts all later ones of the gateway:
  each request reads the answer of the one before and is refused, until an
  answer is lost. `docs/validation/V005_FAULT_CAMPAIGN.md:38` has the next
  request succeed. `Recovers` therefore has a premise about late answers.
- In the simulation, a cancelled or timed-out request leaves its answer on the
  link, and every later request, a stop included, takes the answer of the one
  before and fails until `close()`. `UndisturbedRequestsSucceed` excuses this in
  its premise. A stop that fails so may have stopped the twin and left the
  supervisor unlatched.
- `reset_estop` of the simulation waits for nobody. Between the twin's stop and the
  supervisor's it clears the first latch only, and from then on it answers
  "cleared" while the supervisor refuses every motion
  (`tests/unit/api/test_simulation_runtime_api.py:82` expects motion after it).
- The twin leaves ESTOP for any motion it can represent, although
  `docs/simulation/DIGITAL_TWIN.md:28` asks for an explicit reset; in the runtime
  it is the supervisor that keeps the promise (`StoppedMeansStill`).
- The host reads up to 128 bytes while its decoder has room for 64 beyond a frame:
  behind frames of the maximum size an undamaged line could overflow it. The
  frames in use have at most 75 bytes, where it cannot happen.
- A payload that holds the magic bytes may keep a decoder that lost its place
  from finding it for longer than `DamageIsBounded` says, which excludes them.
- The host's codec takes joint id 0, which the firmware refuses.
- A rerun of the HIL gate that is denied leaves the permit of an earlier run in
  place. Configuring the guard again clears its E-stop latch without the manual
  reset; it never arms it, which is what `EligibleMeansSafe` rests on.
- NaN limits and infinite rates pass the loader. The checks refuse every motion
  under the former; the second remain a limit that limits nothing.
- Runs of `run_once` at the same time publish a transition twice, or with a
  previous status that is no longer the last.
- The event of a critical failure overtakes an older one that is still queued, and
  leaves a subscriber with the older status (`StaleOnlyIfOvertaken` names this as
  the only exception). The monitor's task ends without a word when the bus is
  stopped. A component that is unregistered keeps its last status.
- A handler that unsubscribes while an event is dispatched is still called for it.
- A blank transcript beside a gesture gives a VOICE frame with the gesture's
  confidence.
- The correlator compares the stamps of two clocks that nothing synchronises. With a
  glove's clock ahead of the host's by more than the window, gestures as old as the
  offset are combined with what is said, and those just made are missed;
  `tests/unit/multimodal/test_correlator.py:34` (a stale gesture is not attached) is
  true of clocks in step. `RecentGesturesOnly` says how far it can be out.
- `Field(gt=0)` of the configuration models is taken to refuse NaN. The policy's own
  check refuses it once more, so that nothing rests on it.

## What is not modelled

- *Event serializer* (`rci/events/serialization.py`): conversion to JSON and back,
  without state.
- *Kinematics and trajectories* (`rci/robotics/`): trigonometry and real-valued
  profiles, which TLC does not evaluate. `SimulationRuntime` leaves their outcome
  open, `Configuration` and `Interaction` model the limits they keep.
- *Domain types, dashboard, gateway and glove firmware, tools*: no behaviour of
  their own.
- Of components modelled otherwise: CRC-16 itself; telemetry, currents and
  counters that only diagnostics or `stats()` read; the audit log without a file,
  and its queries; the energy detector and the simulated backend's durations of
  the voice service; the API's telemetry socket and static routes; two runs of the
  HIL command at once; wording, severities and order of violations.
- Crash recovery is modelled where something is persisted: the audit file, whose
  reload is the state predicate `FileReloads`, the HIL gate's files, and the
  robot's RAM.

PROJECT.json gives the reason for each component.

## Plan

What decides motion was modelled first, then what records it, then what surrounds
it; all of it is modelled now, and every safety invariant, action property and
refinement that a run checks is stated by a theorem. What is left is liveness, which
the prover does not reach.
