---------------------------- MODULE DigitalTwin ----------------------------
(***************************************************************************)
(* The plant of the digital twin (src/rci/simulation/digital_twin.py): the *)
(* joints, each driven to its target with bounded velocity and             *)
(* acceleration, and the loop in which the runtime steps the twin until it *)
(* is idle (src/rci/simulation/runtime.py).  The loop does not wait, so    *)
(* nothing else happens while it runs.                                     *)
(*                                                                         *)
(* Angles are integers in a small unit and time counts in steps.  A square *)
(* root is either of the integers next to it.                              *)
(***************************************************************************)
EXTENDS Integers, FiniteSetsExt

CONSTANTS
  Plant,      \* model.profile.joints: [lower, upper, home, velocity, acceleration]
  Commands,   \* what is accepted: [targets, velocity, acceleration]
  MaxSteps    \* max_steps: 5000 in the code

ASSUME TwinAssumption == MaxSteps \in Nat \ {0}

\* RobotProfile and the wire: whole numbers here, and limits that permit motion.
ASSUME PlantAssumption ==
  /\ DOMAIN Plant # {}
  /\ \A n \in DOMAIN Plant :
       /\ Plant[n].home \in Int /\ {Plant[n].velocity, Plant[n].acceleration} \subseteq Nat
  /\ \A c \in Commands :
       /\ \A n \in DOMAIN c.targets : c.targets[n] \in Int
       /\ {c.velocity, c.acceleration} \subseteq Nat

VARIABLES
  joint,      \* _positions, _velocities and _targets, by joint
  mode,       \* _state, and _command_velocity_limit, _command_acceleration_limit
  settling,   \* steps made by the loop, or NoLoop
  departed    \* where each joint stood when it got its target (history)

twin_plant == <<joint, mode, settling, departed>>

NoLoop == -1

Sign(x) == IF x < 0 THEN -1 ELSE 1
Distance(x, y) == IF x < y THEN y - x ELSE x - y

TwinInit ==
  /\ joint = [n \in DOMAIN Plant |->
                [position |-> Plant[n].home, velocity |-> 0, target |-> Plant[n].home]]
  /\ mode = [state |-> "IDLE",
             velocity |-> Min({Plant[n].velocity : n \in DOMAIN Plant}),
             acceleration |-> Min({Plant[n].acceleration : n \in DOMAIN Plant})]
  /\ settling = NoLoop
  /\ departed = [n \in DOMAIN Plant |-> Plant[n].home]

---------------------------------------------------------------------------
(* Commands.                                                               *)

\* The targets after the command, or those that were there before.
Targets(c) ==
  [n \in DOMAIN Plant |-> IF n \in DOMAIN c.targets THEN c.targets[n] ELSE joint[n].target]

Representable(c) ==
  /\ DOMAIN c.targets \subseteq DOMAIN Plant
  /\ \A n \in DOMAIN Plant : Targets(c)[n] \in Plant[n].lower .. Plant[n].upper

\* accept, in any state; a command that it refuses changes nothing.
Accept(c) ==
  /\ settling = NoLoop
  /\ IF Representable(c)
     THEN /\ joint' = [n \in DOMAIN Plant |-> [joint[n] EXCEPT !.target = Targets(c)[n]]]
          /\ mode' = [state |-> "EXECUTING", velocity |-> c.velocity,
                      acceleration |-> c.acceleration]
          /\ departed' = [n \in DOMAIN Plant |-> joint[n].position]
     ELSE UNCHANGED <<joint, mode, departed>>
  /\ UNCHANGED settling

Estop ==
  /\ settling = NoLoop
  /\ joint' = [n \in DOMAIN Plant |->
                 [joint[n] EXCEPT !.target = joint[n].position, !.velocity = 0]]
  /\ mode' = [mode EXCEPT !.state = "ESTOP"]
  /\ UNCHANGED <<settling, departed>>

ResetEstop ==
  /\ settling = NoLoop /\ mode.state = "ESTOP"
  /\ mode' = [mode EXCEPT !.state = "IDLE"]
  /\ UNCHANGED <<joint, settling, departed>>

---------------------------------------------------------------------------
(* A step.                                                                 *)

VelocityLimit(n) == Min({Plant[n].velocity, mode.velocity})
AccelerationLimit(n) == Min({Plant[n].acceleration, mode.acceleration})

\* The integers next to the square root of x
Roots(x) ==
  {r \in 0 .. x : (r = 0 \/ (r - 1) * (r - 1) < x) /\ (r + 1) * (r + 1) > x}

Toward(velocity, desired, most) ==
  IF Distance(velocity, desired) > most
  THEN velocity + Sign(desired - velocity) * most ELSE desired

\* Seeded fault: a joint arrives only when it meets its target.
ArrivesExactly(j, next) == next = j.target

\* The target is met or passed.
Arrives(j, next) == (j.target - j.position) * (j.target - next) <= 0

Stands(j) == j.position = j.target /\ j.velocity = 0

\* Braking is begun in time for the joint to stand at its target.
Moved(n) ==
  LET j == joint[n]
      error == j.target - j.position
      Speed(r) == Toward(j.velocity, Sign(error) * Min({VelocityLimit(n), r}),
                         AccelerationLimit(n))
      Next(v) == IF Arrives(j, j.position + v)
                 THEN [j EXCEPT !.position = j.target, !.velocity = 0]
                 ELSE [j EXCEPT !.position = @ + v, !.velocity = v]
  IN IF Stands(j) THEN {j}
     ELSE {Next(Speed(r)) : r \in Roots(2 * AccelerationLimit(n) * Distance(error, 0))}

\* A twin is idle one step after its last joint arrived.
StateAfter == IF \A n \in DOMAIN Plant : Stands(joint[n]) THEN "IDLE" ELSE "EXECUTING"

\* The loop begins when the twin is not idle, and step is called again and again.
Step ==
  /\ mode.state # "IDLE" /\ settling < MaxSteps
  /\ settling' = IF settling = NoLoop THEN 1 ELSE settling + 1
  /\ IF mode.state = "ESTOP" THEN UNCHANGED <<joint, mode>>
     ELSE /\ joint' \in {f \in [DOMAIN Plant -> UNION {Moved(n) : n \in DOMAIN Plant}] :
                          \A n \in DOMAIN Plant : f[n] \in Moved(n)}
          /\ mode' = [mode EXCEPT !.state = StateAfter]
  /\ UNCHANGED departed

LoopEnds ==
  /\ settling # NoLoop /\ (mode.state = "IDLE" \/ settling = MaxSteps)
  /\ settling' = NoLoop
  /\ UNCHANGED <<joint, mode, departed>>

TwinNext ==
  \/ \E c \in Commands : Accept(c)
  \/ Estop \/ ResetEstop \/ Step \/ LoopEnds

TwinSpec == TwinInit /\ [][TwinNext]_twin_plant

---------------------------------------------------------------------------

\* On its way from where it stood to its target a joint leaves the stretch between
\* them at no time, never turns round, and is never faster than the joint's limit
\* and the command's (digital_twin.py:101-136), whatever was stopped or refused
\* before.
StaysOnCourse ==
  \A n \in DOMAIN Plant :
    LET j == joint[n]
        ends == {departed[n], j.target}
    IN /\ Min(ends) <= j.position /\ j.position <= Max(ends)
       /\ j.velocity * (j.target - j.position) >= 0
       /\ Distance(j.velocity, 0) <= VelocityLimit(n)

\* Telemetry that says idle or stopped is true of every joint: it stands, and at
\* its target, as docs/simulation/DIGITAL_TWIN.md:28 has it for a stop.
StandsUnlessExecuting ==
  mode.state # "EXECUTING" => \A n \in DOMAIN Plant : Stands(joint[n])

\* The loop's budget of steps suffices: it ends with an idle twin, except for a twin
\* that was stopped between its answer and the loop.
SettlesInTime == settling = MaxSteps => mode.state \in {"IDLE", "ESTOP"}

\* The twin moves as it is told, in time, and stands when it says so.
TwinIsTruthful == StaysOnCourse /\ StandsUnlessExecuting /\ SettlesInTime

===========================================================================
