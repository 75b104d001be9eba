--------------------------- MODULE MotionPath ---------------------------
(***************************************************************************)
(* The path of a motion from the host's supervisor to the robot: the       *)
(* supervisor's lifecycle controller (SafetyLifecycle), a gateway session  *)
(* that has one request outstanding (src/rci/hardware/robot_gateway.py,    *)
(* RobotGateway in detail), the two wires, and the robot (RobotRuntime).   *)
(*                                                                         *)
(* The parts share nothing but the wires: an authorization stays in the    *)
(* caller's hands for as long as it likes, the gateway looks at no clock   *)
(* and at no lifecycle, and a session may end at any time while the robot  *)
(* goes on.                                                                *)
(***************************************************************************)
EXTENDS Integers, Sequences

CONSTANTS
  HostTimeout,        \* the lifecycle's heartbeat timeout, ms
  CommandTtl,         \* policy.command_ttl_ms
  Authorizations,     \* authorization_id of the motions that may be approved
  NoId,
  SeqModulus, ClockModulus, RobotTimeout, MaxLoopTime,   \* see RobotRuntime
  ManualResets,       \* whether the robot's reset switch is wired
  MaxTime, MaxSequence, MaxFaults, MaxRequests           \* bounds

VARIABLES
  lifecycle,      \* the supervisor's lifecycle snapshot
  ages,           \* time since each authorization was approved, or NoAge
  session,        \* the gateway: its next sequence and outstanding request
  to_robot,       \* frames
  to_host,        \* acknowledgements
  robot, now,     \* as in RobotRuntime
  accepted,       \* motions the robot accepted, and NoId for each power
                  \* cycle, in order (history)
  stop,           \* an E-stop that the host asked for, or knows the robot made,
                  \* since the robot was last reset (history)
  time, faults, requests   \* counters that the bounds limit

host == <<lifecycle, ages>>
wires == <<to_robot, to_host>>
board == <<robot, now, accepted>>
vars == <<host, session, wires, board, stop, time, faults, requests>>

LC == INSTANCE SafetyLifecycle
        WITH snapshot <- lifecycle, HeartbeatTimeout <- HostTimeout,
             Ages <- {}, NonFinite <- NoId
RR == INSTANCE RobotRuntime
        WITH HeartbeatTimeout <- RobotTimeout, CommandIds <- Authorizations,
             ManualInputs <- ManualResets, MaxSilence <- 0, MaxAccepted <- 0,
             silence <- 0, watched <- 0

\* Fewer requests than sequence numbers.
ASSUME PathAssumption ==
  /\ MaxRequests < SeqModulus
  /\ HostTimeout \in Nat \ {0} /\ CommandTtl \in Nat
  /\ SeqModulus \in Nat \ {0} /\ ClockModulus \in Nat \ {0}
  /\ RobotTimeout \in Nat /\ MaxLoopTime \in Nat \ {0}
  /\ NoId \notin Authorizations /\ NoId \notin Int /\ ManualResets \in BOOLEAN
  /\ {MaxTime, MaxSequence, MaxFaults, MaxRequests} \subseteq Nat

NoAge == -1
Kinds == {"heartbeat", "motion", "estop"}
Idle == [kind |-> "none", sequence |-> 0, command_id |-> NoId]

\* What the gateway sends, in the terms in which the robot parses it.
Frame(request) ==
  IF request.kind = "motion"
  THEN [type |-> "motion", sequence |-> request.sequence,
        command_id |-> request.command_id, payload_ok |-> TRUE]
  ELSE [type |-> request.kind, sequence |-> request.sequence]

NewSession == [next_sequence |-> 0, waiting |-> Idle, receipt |-> Idle]

Init ==
  /\ LC!LifecycleInit
  /\ ages = [id \in Authorizations |-> NoAge]
  /\ session = NewSession
  /\ to_robot = <<>> /\ to_host = <<>>
  /\ robot = RR!PowerOn /\ now = 0
  /\ accepted = <<>> /\ stop = "none"
  /\ time = 0 /\ faults = 0 /\ requests = 0

---------------------------------------------------------------------------
(* The host.                                                               *)

\* The calls of the supervisor that do not evaluate a candidate.
HostEvent ==
  /\ \/ LC!ArmWatchdog \/ LC!DisarmWatchdog
     \/ \E age \in {0, HostTimeout + 1} : LC!ObserveHeartbeatAge(age)
     \/ LC!TriggerSoftwareEstop \/ LC!RequestManualReset
  /\ UNCHANGED <<ages, session, wires, board, stop, time, faults, requests>>

\* evaluate() approves a motion: the heartbeat it is told of is fresh and the
\* button released, so all the lifecycle can do is become healthy.
Approve(id) ==
  /\ ages[id] = NoAge
  /\ LC!Becomes(LC!AfterHeartbeatAge(LC!AfterPhysicalEstop(lifecycle, FALSE), 0))
  /\ ~LC!MotionBlocked(lifecycle')
  /\ ages' = [ages EXCEPT ![id] = 0]
  /\ UNCHANGED <<session, wires, board, stop, time, faults, requests>>

\* _request, up to the wait for the answer.  A motion is sent for its
\* authorization alone.
Send(kind, id) ==
  LET request == [kind |-> kind, sequence |-> session.next_sequence,
                  command_id |-> id]
  IN /\ session.waiting = Idle
     /\ requests < MaxRequests /\ requests' = requests + 1
     /\ session' = [session EXCEPT !.next_sequence = (@ + 1) % SeqModulus,
                                   !.waiting = request, !.receipt = Idle]
     /\ to_robot' = Append(to_robot, Frame(request))
     /\ stop' = IF kind = "estop" /\ stop = "none" THEN "asked" ELSE stop
     /\ UNCHANGED <<host, to_host, board, time, faults>>

SendHeartbeat == Send("heartbeat", NoId)
SendEstop == Send("estop", NoId)
SendAuthorization(id) == ages[id] # NoAge /\ Send("motion", id)

Acknowledges(answer, request) ==
  answer.sequence = request.sequence /\ answer.status = "OK"

\* _request, from the answer on.
ReceiveAnswer ==
  LET answer == Head(to_host)
      request == session.waiting
      acknowledged == Acknowledges(answer, request)
  IN /\ request # Idle /\ to_host # <<>>
     /\ to_host' = Tail(to_host)
     /\ session' = [session EXCEPT !.waiting = Idle,
                                   !.receipt = IF acknowledged THEN request ELSE Idle]
     /\ stop' = IF acknowledged /\ request.kind = "estop" /\ stop = "asked"
                THEN "known" ELSE stop
     /\ UNCHANGED <<host, to_robot, board, time, faults, requests>>

Fault == faults < MaxFaults /\ faults' = faults + 1

\* The answer is late or lost, or the caller is cancelled.
GiveUp ==
  /\ session.waiting # Idle /\ Fault
  /\ session' = [session EXCEPT !.waiting = Idle]
  /\ UNCHANGED <<host, wires, board, stop, time, requests>>

\* A new link and a new gateway on it, with the constructor's default sequence.
Reconnect ==
  /\ Fault
  /\ session' = NewSession
  /\ to_robot' = <<>> /\ to_host' = <<>>
  /\ UNCHANGED <<host, board, stop, time, requests>>

---------------------------------------------------------------------------
(* The robot.                                                              *)

\* loop() takes a frame, handles it and sends the acknowledgement.
RobotTakesFrame ==
  LET frame == Head(to_robot)
      dispatch == RR!Dispatch(robot, frame, now)
  IN /\ to_robot # <<>>
     /\ to_robot' = Tail(to_robot)
     /\ robot' = dispatch.robot
     /\ to_host' = Append(to_host, [sequence |-> frame.sequence,
                                    status |-> RR!AckStatusForDispatch(dispatch.result)])
     /\ accepted' = IF dispatch.result = "kMotionDeferred"
                    THEN Append(accepted, frame.command_id) ELSE accepted
     /\ UNCHANGED <<host, session, now, stop, time, faults, requests>>

\* The turn of loop() ends with Tick and time passes for everybody.
EndLoop(d) ==
  /\ time + d <= MaxTime /\ time' = time + d
  /\ robot' = RR!AfterTick(robot, now)
  /\ now' = (now + d) % ClockModulus
  /\ ages' = [id \in Authorizations |-> IF ages[id] = NoAge THEN NoAge ELSE ages[id] + d]
  /\ UNCHANGED <<lifecycle, session, wires, accepted, stop, faults, requests>>

ManualReset ==
  /\ ManualResets
  /\ robot' = RR!AfterManualReset(robot, now)
  /\ stop' = IF robot'.state = "kEstop" THEN stop ELSE "none"
  /\ UNCHANGED <<host, session, wires, now, accepted, time, faults, requests>>

\* Power is lost and comes back.  All the robot knows is in its RAM.
PowerCycle ==
  /\ Fault
  /\ robot' = RR!PowerOn /\ now' = 0
  /\ accepted' = Append(accepted, NoId)
  /\ stop' = "none"
  /\ UNCHANGED <<host, session, wires, time, requests>>

Next ==
  \/ HostEvent
  \/ \E id \in Authorizations : Approve(id) \/ SendAuthorization(id)
  \/ SendHeartbeat \/ SendEstop \/ ReceiveAnswer \/ GiveUp \/ Reconnect
  \/ RobotTakesFrame \/ ManualReset \/ PowerCycle
  \/ \E d \in 1 .. MaxLoopTime : EndLoop(d)

Spec == Init /\ [][Next]_vars

---------------------------------------------------------------------------
(* Properties.                                                             *)

Outstanding == [kind : Kinds \cup {"none"}, sequence : 0 .. SeqModulus - 1,
                command_id : Authorizations \cup {NoId}]

TypeOK ==
  /\ lifecycle \in LC!Snapshots
  /\ ages \in [Authorizations -> {NoAge} \cup 0 .. MaxTime]
  /\ session \in [next_sequence : 0 .. SeqModulus - 1, waiting : Outstanding,
                  receipt : Outstanding]
  /\ to_robot \in Seq(RR!Frames)
  /\ to_host \in Seq([sequence : 0 .. SeqModulus - 1,
                      status : {"OK", "REJECTED", "STALE", "INVALID"}])
  /\ robot \in RR!Robots /\ now \in 0 .. ClockModulus - 1
  /\ accepted \in Seq(Authorizations \cup {NoId})

\* When the host has the robot's receipt for an emergency stop, the robot is
\* stopped and stays so, whatever is still on the wire, retried or sent over a
\* new link, until its own reset switch or a power cycle.
StoppedMeansStopped == stop = "known" => robot.state = "kEstop"

\* A receipt for a motion is never another request's: the robot did accept that
\* motion.
ReceiptMeansAccepted ==
  session.receipt.kind = "motion"
    => \E i \in 1 .. Len(accepted) : accepted[i] = session.receipt.command_id

\* A caller that is told nothing may send its authorization again: the robot
\* does not accept it a second time, unless it took another motion or lost
\* power in between.
RetryIsAcceptedOnce ==
  \A i \in 1 .. Len(accepted) - 1 :
    accepted[i] # NoId => accepted[i] # accepted[i + 1]

\* What a caller is told of its motion is what the robot did: a receipt means that
\* it was accepted, and trying again without one does not make it happen twice.
MotionsHappenAsTold == TypeOK /\ ReceiptMeansAccepted /\ RetryIsAcceptedOnce

NewlyAccepted == {id \in Authorizations : accepted' = Append(accepted, id)}

\* docs/safety/SAFETY_MODEL.md:14 says that "expired commands [...] and active
\* E-stop all block new motion".  The robot accepts no motion that is older than
\* its TTL, and none while the host is stopped.
BlockedMotionIsRefused ==
  [][\A id \in NewlyAccepted : /\ ages[id] <= CommandTtl
                               /\ ~lifecycle.estop_latched]_vars

\* docs/validation/V005_FAULT_CAMPAIGN.md:41 says that after a disconnect one may
\* "establish a new transport/gateway session".  The robot does not refuse the
\* first request of a session as stale.
NewSessionIsHeard ==
  session.next_sequence = 1 /\ to_host # <<>> => to_host[1].status # "STALE"
===========================================================================
