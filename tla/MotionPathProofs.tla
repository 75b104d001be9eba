------------------------ MODULE MotionPathProofs ------------------------
(***************************************************************************)
(* Theorems about MotionPath, for every set of authorizations and every    *)
(* bound, as long as there are fewer requests than sequence numbers        *)
(* (PathAssumption).                                                       *)
(*                                                                         *)
(* What the host may believe rests on the answers that are still on the    *)
(* wire, so the inductive invariant speaks of them: every sequence number  *)
(* on a wire was given out by this session, a frame that bears the number  *)
(* of the outstanding request is that request, and an answer to it that    *)
(* says OK is already true of the robot.                                   *)
(***************************************************************************)
EXTENDS MotionPath, TLAPS

RP == INSTANCE RobotRuntimeProofs
        WITH HeartbeatTimeout <- RobotTimeout, CommandIds <- Authorizations,
             ManualInputs <- ManualResets, MaxSilence <- 0, MaxAccepted <- 0,
             silence <- 0, watched <- 0
LP == INSTANCE SafetyLifecycleProofs
        WITH snapshot <- lifecycle, HeartbeatTimeout <- HostTimeout,
             Ages <- {}, NonFinite <- NoId

---------------------------------------------------------------------------
(* The invariant.                                                          *)

Statuses == {"OK", "REJECTED", "STALE", "INVALID"}
Acks == [sequence : 0 .. SeqModulus - 1, status : Statuses]
Sent == {frame \in RR!Frames : frame.type \in Kinds}

Typed ==
  /\ LP!Consistent(lifecycle)
  /\ session \in [next_sequence : 0 .. SeqModulus - 1, waiting : Outstanding,
                  receipt : Outstanding]
  /\ to_robot \in Seq(Sent) /\ to_host \in Seq(Acks)
  /\ RP!Guarded(robot) /\ now \in 0 .. ClockModulus - 1
  /\ accepted \in Seq(Authorizations \cup {NoId})

Bounds ==
  /\ requests \in 0 .. MaxRequests /\ session.next_sequence <= requests
  /\ time \in 0 .. MaxTime /\ ages \in [Authorizations -> {NoAge} \cup 0 .. time]

\* The numbers in use were given out by this session.
GivenOut ==
  /\ session.waiting # Idle => session.waiting.sequence < session.next_sequence
  /\ \A i \in 1 .. Len(to_robot) : to_robot[i].sequence < session.next_sequence
  /\ \A i \in 1 .. Len(to_host) : to_host[i].sequence < session.next_sequence

OwnFrame ==
  session.waiting # Idle
    => \A i \in 1 .. Len(to_robot) :
         to_robot[i].sequence = session.waiting.sequence
           => to_robot[i] = Frame(session.waiting)

\* An answer with OK to the outstanding request is on its way to the host.
Answered(kind) ==
  /\ session.waiting # Idle /\ session.waiting.kind = kind
  /\ \E i \in 1 .. Len(to_host) : Acknowledges(to_host[i], session.waiting)

IsAccepted(id) == \E i \in 1 .. Len(accepted) : accepted[i] = id

AnswersAreTrue ==
  /\ Answered("estop") /\ stop = "asked" => robot.state = "kEstop"
  /\ Answered("motion") => IsAccepted(session.waiting.command_id)

\* The robot remembers the last motion it accepted since its power came on.
Remembered ==
  LET last == accepted[Len(accepted)]
  IN accepted # <<>> /\ last # NoId
       => robot.motion_command_seen /\ robot.last_motion_command_id = last

Inv ==
  /\ Typed /\ Bounds /\ GivenOut /\ OwnFrame /\ AnswersAreTrue /\ Remembered
  /\ StoppedMeansStopped /\ ReceiptMeansAccepted /\ RetryIsAcceptedOnce

---------------------------------------------------------------------------
(* What is used of the robot and of the wires.                             *)

LEMMA RobotAssumption == RP!RuntimeAssumption
  BY PathAssumption DEF RP!RuntimeAssumption

LEMMA HostAssumption ==
  /\ LP!TimeoutAssumption /\ LP!AgesAssumption /\ LP!MaxSequenceAssumption
  BY PathAssumption
     DEF LP!TimeoutAssumption, LP!AgesAssumption, LP!MaxSequenceAssumption

\* The robot of the path is the robot of the theorems.
LEMMA SameRobot ==
  /\ \A r, f, t : RR!Dispatch(r, f, t) = RP!Dispatch(r, f, t)
  /\ \A r, t : RR!AfterTick(r, t) = RP!AfterTick(r, t)
  /\ \A r, t : RR!AfterManualReset(r, t) = RP!AfterManualReset(r, t)
  /\ \A x : RR!AckStatusForDispatch(x) = RP!AckStatusForDispatch(x)
  /\ RR!PowerOn = RP!PowerOn /\ RR!Frames = RP!Frames /\ RR!Robots = RP!Robots
  BY DEF RR!Dispatch, RP!Dispatch, RR!AfterTick, RP!AfterTick,
         RR!AfterManualReset, RP!AfterManualReset,
         RR!AckStatusForDispatch, RP!AckStatusForDispatch,
         RR!PowerOn, RP!PowerOn, RR!Frames, RP!Frames, RR!Robots, RP!Robots,
         RR!States, RP!States, RR!Sequences16, RP!Sequences16,
         RR!Stale, RP!Stale, RR!SequenceIsFresh, RP!SequenceIsFresh,
         RR!Ahead, RP!Ahead, RR!HalfWindow, RP!HalfWindow,
         RR!AfterHeartbeat, RP!AfterHeartbeat,
         RR!MotionDispatch, RP!MotionDispatch,
         RR!MotionPermitted, RP!MotionPermitted,
         RR!HeartbeatAge, RP!HeartbeatAge

LEMMA RobotFrames ==
  ASSUME NEW r, RP!Guarded(r), NEW frame \in Sent, NEW t \in 0 .. ClockModulus - 1
  PROVE  LET d == RR!Dispatch(r, frame, t)
             answer == RR!AckStatusForDispatch(d.result)
         IN /\ RP!Guarded(d.robot)
            /\ answer \in Statuses
            /\ r.state = "kEstop" => d.robot.state = "kEstop"
            /\ frame.type = "estop" /\ answer = "OK" => d.robot.state = "kEstop"
            /\ frame.type = "motion" /\ answer = "OK" => d.result = "kMotionDeferred"
            /\ d.result = "kMotionDeferred"
                 => /\ frame.type = "motion"
                    /\ d.robot.motion_command_seen
                    /\ d.robot.last_motion_command_id = frame.command_id
                    /\ ~(r.motion_command_seen
                           /\ r.last_motion_command_id = frame.command_id)
            /\ d.result # "kMotionDeferred"
                 => /\ d.robot.motion_command_seen = r.motion_command_seen
                    /\ d.robot.last_motion_command_id = r.last_motion_command_id
<1>1. frame \in RP!Frames /\ frame.type # "invalid" /\ r \in RP!Robots
  BY SameRobot DEF Sent, Kinds, RP!Guarded
<1>2. RR!Dispatch(r, frame, t) = RP!Dispatch(r, frame, t)
  BY SameRobot
<1>3. RR!AckStatusForDispatch(RP!Dispatch(r, frame, t).result)
        = RP!AckStatusForDispatch(RP!Dispatch(r, frame, t).result)
  BY SameRobot
<1>4. /\ RP!Guarded(RP!Dispatch(r, frame, t).robot)
      /\ r.state = "kEstop" => RP!Dispatch(r, frame, t).robot.state = "kEstop"
  BY <1>1, RobotAssumption, RP!DispatchGuarded
<1> QED
  BY <1>1, <1>2, <1>3, <1>4, RobotAssumption, RP!DispatchAnswers DEF Statuses

LEMMA RobotTicks ==
  ASSUME NEW r, RP!Guarded(r), NEW t \in 0 .. ClockModulus - 1
  PROVE  LET k == RR!AfterTick(r, t)
         IN /\ RP!Guarded(k)
            /\ r.state = "kEstop" => k.state = "kEstop"
            /\ k.motion_command_seen = r.motion_command_seen
            /\ k.last_motion_command_id = r.last_motion_command_id
<1>1. t \in Int
  BY PathAssumption
<1>2. /\ RP!Guarded(RP!AfterTick(r, t))
      /\ r.state = "kEstop" => RP!AfterTick(r, t).state = "kEstop"
  BY <1>1, RobotAssumption, RP!TickGuarded
<1>3. /\ RR!AfterTick(r, t).motion_command_seen = r.motion_command_seen
      /\ RR!AfterTick(r, t).last_motion_command_id = r.last_motion_command_id
  BY DEF RR!AfterTick, RP!Guarded, RP!Robots
<1> QED
  BY <1>2, <1>3, SameRobot

LEMMA RobotResets ==
  ASSUME NEW r, RP!Guarded(r), NEW t \in 0 .. ClockModulus - 1
  PROVE  LET k == RR!AfterManualReset(r, t)
         IN /\ RP!Guarded(k)
            /\ k.motion_command_seen = r.motion_command_seen
            /\ k.last_motion_command_id = r.last_motion_command_id
<1>1. t \in Int
  BY PathAssumption
<1>2. RP!Guarded(RP!AfterManualReset(r, t))
  BY <1>1, RobotAssumption, RP!ManualResetGuarded
<1>3. /\ RR!AfterManualReset(r, t).motion_command_seen = r.motion_command_seen
      /\ RR!AfterManualReset(r, t).last_motion_command_id = r.last_motion_command_id
  BY DEF RR!AfterManualReset, RR!AfterTick, RP!Guarded, RP!Robots
<1> QED
  BY <1>2, <1>3, SameRobot

LEMMA PowerOnGuarded == RP!Guarded(RR!PowerOn)
  BY PathAssumption
     DEF RP!Guarded, RP!Robots, RP!States, RP!Sequences16, RR!PowerOn

\* A wire is a queue.
LEMMA TailIsRest ==
  ASSUME NEW S, NEW s \in Seq(S), s # <<>>
  PROVE  /\ Head(s) \in S /\ Tail(s) \in Seq(S)
         /\ Len(s) \in Nat \ {0} /\ Head(s) = s[1]
         /\ Len(Tail(s)) = Len(s) - 1
         /\ \A i \in 1 .. Len(Tail(s)) : Tail(s)[i] = s[i + 1]
  OBVIOUS

LEMMA AppendIsLast ==
  ASSUME NEW S, NEW s \in Seq(S), NEW x \in S
  PROVE  /\ Append(s, x) \in Seq(S)
         /\ Len(s) \in Nat /\ Len(Append(s, x)) = Len(s) + 1
         /\ \A i \in 1 .. Len(s) : Append(s, x)[i] = s[i]
         /\ Append(s, x)[Len(s) + 1] = x
         /\ Append(s, x) # <<>>
  OBVIOUS

LEMMA IdleIsRequest == Idle \in Outstanding
  BY PathAssumption DEF Outstanding, Idle

LEMMA SentNumbers ==
  ASSUME NEW s \in Seq(Sent), NEW i \in 1 .. Len(s)
  PROVE  s[i] \in Sent /\ s[i].sequence \in 0 .. SeqModulus - 1
<1>1. s[i] \in Sent
  OBVIOUS
<1>2. s[i].type # "invalid" /\ s[i] \in RR!Frames
  BY <1>1 DEF Sent, Kinds
<1> QED
  BY <1>1, <1>2 DEF RR!Frames, RR!Sequences16

LEMMA AckNumbers ==
  ASSUME NEW s \in Seq(Acks), NEW i \in 1 .. Len(s)
  PROVE  s[i] \in Acks /\ s[i].sequence \in 0 .. SeqModulus - 1
<1>1. s[i] \in Acks
  OBVIOUS
<1> QED
  BY <1>1 DEF Acks

---------------------------------------------------------------------------
(* The steps, one by one.                                                  *)

LEMMA InvInit == Init => Inv
<1> SUFFICES ASSUME Init PROVE Inv
  OBVIOUS
<1>1. LP!Consistent(lifecycle)
  BY HostAssumption, LP!InitConsistent
     DEF Init, LC!LifecycleInit, LC!InitialSnapshot, LP!InitialSnapshot,
         LC!NoReason, LP!NoReason
<1>2. Typed
  BY <1>1, PathAssumption, PowerOnGuarded
     DEF Typed, Init, NewSession, Outstanding, Idle
<1>3. Bounds
  BY PathAssumption DEF Bounds, Init, NewSession
<1>4. GivenOut /\ OwnFrame /\ AnswersAreTrue /\ Remembered
  BY DEF GivenOut, OwnFrame, AnswersAreTrue, Answered, Remembered, Init,
         NewSession, Idle
<1>5. StoppedMeansStopped /\ ReceiptMeansAccepted /\ RetryIsAcceptedOnce
  BY DEF StoppedMeansStopped, ReceiptMeansAccepted, RetryIsAcceptedOnce, Init,
         NewSession, Idle
<1> QED
  BY <1>2, <1>3, <1>4, <1>5 DEF Inv

\* The lifecycle of the path is the controller of the theorems.
LEMMA SameLifecycle ==
  /\ \A s : LC!AfterArm(s) = LP!AfterArm(s)
  /\ \A s : LC!AfterDisarm(s) = LP!AfterDisarm(s)
  /\ \A s, age : LC!AfterHeartbeatAge(s, age) = LP!AfterHeartbeatAge(s, age)
  /\ \A s, b : LC!AfterPhysicalEstop(s, b) = LP!AfterPhysicalEstop(s, b)
  /\ \A s : LC!AfterSoftwareEstop(s) = LP!AfterSoftwareEstop(s)
  /\ \A s : LC!AfterManualReset(s) = LP!AfterManualReset(s)
  /\ LC!Snapshots = LP!Snapshots
  BY DEF LC!AfterArm, LP!AfterArm, LC!AfterDisarm, LP!AfterDisarm,
         LC!AfterHeartbeatAge, LP!AfterHeartbeatAge,
         LC!AfterPhysicalEstop, LP!AfterPhysicalEstop,
         LC!AfterSoftwareEstop, LP!AfterSoftwareEstop,
         LC!AfterManualReset, LP!AfterManualReset,
         LC!Commit, LP!Commit, LC!Latched, LP!Latched,
         LC!AgeFresh, LP!AgeFresh, LC!AgeInvalid, LP!AgeInvalid,
         LC!AgeStale, LP!AgeStale, LC!ResetDenials, LP!ResetDenials,
         LC!ManualResetDone, LP!ManualResetDone, LC!Snapshots, LP!Snapshots,
         LC!Causes, LP!Causes, LC!Reasons, LP!Reasons, LC!NoReason, LP!NoReason

\* The calls of the supervisor touch neither the session nor the robot.
LEMMA HostKeepsInv ==
  ASSUME Inv, UNCHANGED <<session, wires, board, stop, time, faults, requests>>,
         LP!Consistent(lifecycle'), ages' \in [Authorizations -> {NoAge} \cup 0 .. time]
  PROVE  Inv'
<1>1. Typed' /\ Bounds'
  BY DEF Inv, Typed, Bounds, wires, board
<1>2. GivenOut' /\ OwnFrame' /\ AnswersAreTrue' /\ Remembered'
  BY DEF Inv, GivenOut, OwnFrame, AnswersAreTrue, Answered, IsAccepted,
         Remembered, wires, board
<1>3. StoppedMeansStopped' /\ ReceiptMeansAccepted' /\ RetryIsAcceptedOnce'
  BY DEF Inv, StoppedMeansStopped, ReceiptMeansAccepted, RetryIsAcceptedOnce,
         wires, board
<1> QED
  BY <1>1, <1>2, <1>3 DEF Inv

LEMMA HostEventInv ==
  ASSUME Inv, HostEvent
  PROVE  Inv'
<1>1. LP!Consistent(lifecycle)
  BY DEF Inv, Typed
<1>2. LP!Consistent(LP!AfterArm(lifecycle))
  BY <1>1, HostAssumption, LP!ArmConsistent
<1>3. LP!Consistent(LP!AfterDisarm(lifecycle))
  BY <1>1, HostAssumption, LP!DisarmConsistent
<1>4. \A age : LP!Consistent(LP!AfterHeartbeatAge(lifecycle, age))
  BY <1>1, HostAssumption, LP!HeartbeatAgeConsistent
<1>5. LP!Consistent(LP!AfterSoftwareEstop(lifecycle))
  BY <1>1, HostAssumption, LP!LatchedConsistent
     DEF LP!AfterSoftwareEstop, LP!Causes
<1>6. LP!Consistent(LP!AfterManualReset(lifecycle))
  BY <1>1, HostAssumption, LP!ManualResetConsistent
<1>7. LP!Consistent(lifecycle')
  BY <1>2, <1>3, <1>4, <1>5, <1>6, SameLifecycle
     DEF HostEvent, LC!ArmWatchdog, LC!DisarmWatchdog, LC!ObserveHeartbeatAge,
         LC!TriggerSoftwareEstop, LC!RequestManualReset, LC!Becomes
<1> QED
  BY <1>7, HostKeepsInv DEF HostEvent, Inv, Bounds

LEMMA ApproveInv ==
  ASSUME Inv, NEW id \in Authorizations, Approve(id)
  PROVE  Inv'
<1>1. LP!Consistent(lifecycle)
  BY DEF Inv, Typed
<1>2. LP!Consistent(LP!AfterPhysicalEstop(lifecycle, FALSE))
  BY <1>1, HostAssumption, LP!PhysicalEstopConsistent
<1>3. LP!Consistent(LP!AfterHeartbeatAge(LP!AfterPhysicalEstop(lifecycle, FALSE), 0))
  BY <1>2, HostAssumption, LP!HeartbeatAgeConsistent
<1>4. LP!Consistent(lifecycle')
  BY <1>3, SameLifecycle DEF Approve, LC!Becomes
<1>5. ages' \in [Authorizations -> {NoAge} \cup 0 .. time]
  BY DEF Approve, Inv, Bounds
<1> QED
  BY <1>4, <1>5, HostKeepsInv DEF Approve

\* A new request takes a number that nothing on the wires bears.
LEMMA SendInv ==
  ASSUME Inv, NEW kind \in Kinds, NEW id, Send(kind, id),
         IF kind = "motion" THEN id \in Authorizations ELSE id = NoId
  PROVE  Inv'
<1> DEFINE n == session.next_sequence
           request == [kind |-> kind, sequence |-> n, command_id |-> id]
<1>1. /\ n \in Nat /\ n < SeqModulus - 1 /\ (n + 1) % SeqModulus = n + 1
      /\ n + 1 <= requests' /\ requests' \in 0 .. MaxRequests
  <2>1. /\ n \in 0 .. SeqModulus - 1 /\ requests \in 0 .. MaxRequests
        /\ n <= requests /\ requests < MaxRequests /\ requests' = requests + 1
        /\ MaxRequests \in Nat /\ SeqModulus \in Nat /\ MaxRequests < SeqModulus
    BY PathAssumption DEF Inv, Typed, Bounds, Send
  <2> HIDE DEF n
  <2> QED
    BY <2>1
<1>2. /\ session' = [next_sequence |-> n + 1, waiting |-> request, receipt |-> Idle]
      /\ to_robot' = Append(to_robot, Frame(request))
      /\ stop' = IF kind = "estop" /\ stop = "none" THEN "asked" ELSE stop
      /\ UNCHANGED <<lifecycle, ages, to_host, robot, now, accepted, time>>
  BY <1>1 DEF Send, host, board, Inv, Typed
<1>3. request \in Outstanding /\ request # Idle /\ Idle \in Outstanding
  BY <1>1, PathAssumption DEF Outstanding, Idle, Kinds
<1>4. Frame(request) \in Sent /\ Frame(request).sequence = n
  BY <1>1, PathAssumption DEF Frame, Sent, Kinds, RR!Frames, RR!Sequences16
<1>5. /\ to_robot' \in Seq(Sent) /\ Len(to_robot') = Len(to_robot) + 1
      /\ \A i \in 1 .. Len(to_robot) : to_robot'[i] = to_robot[i]
      /\ to_robot'[Len(to_robot) + 1] = Frame(request)
      /\ Len(to_robot) \in Nat
  BY <1>2, <1>4, AppendIsLast DEF Inv, Typed
<1>6. /\ \A i \in 1 .. Len(to_robot) : to_robot[i].sequence < n
      /\ \A i \in 1 .. Len(to_host) : to_host[i].sequence < n
  BY DEF Inv, GivenOut
<1>7. /\ \A i \in 1 .. Len(to_robot) : to_robot[i].sequence \in Nat
      /\ \A i \in 1 .. Len(to_host) : to_host[i].sequence \in Nat
  <2>1. 0 .. SeqModulus - 1 \subseteq Nat
    BY PathAssumption
  <2> QED
    BY <2>1, SentNumbers, AckNumbers DEF Inv, Typed
<1> HIDE DEF request, n
<1>8. session'.next_sequence = n + 1 /\ session'.waiting = request
      /\ session'.receipt = Idle /\ request.sequence = n /\ request.kind = kind
  BY <1>2 DEF request
<1>9. Typed' /\ Bounds'
  BY <1>1, <1>2, <1>3, <1>5, PathAssumption DEF Inv, Typed, Bounds
<1>10. GivenOut'
  <2>1. \A i \in 1 .. Len(to_robot') : to_robot'[i].sequence < n + 1
    BY <1>1, <1>4, <1>5, <1>6, <1>7
  <2> QED
    BY <2>1, <1>1, <1>2, <1>6, <1>7, <1>8 DEF GivenOut
<1>11. OwnFrame'
  <2>1. \A i \in 1 .. Len(to_robot') :
           to_robot'[i].sequence = n => to_robot'[i] = Frame(request)
    BY <1>1, <1>5, <1>6, <1>7
  <2> QED
    BY <2>1, <1>8 DEF OwnFrame
<1>12. AnswersAreTrue'
  BY <1>1, <1>2, <1>6, <1>7, <1>8 DEF AnswersAreTrue, Answered, Acknowledges
<1>13. Remembered' /\ StoppedMeansStopped' /\ ReceiptMeansAccepted'
       /\ RetryIsAcceptedOnce'
  BY <1>2, <1>8
     DEF Inv, Remembered, StoppedMeansStopped, ReceiptMeansAccepted,
         RetryIsAcceptedOnce, Idle
<1> QED
  BY <1>9, <1>10, <1>11, <1>12, <1>13 DEF Inv

\* An answer that the host believes is true: of the robot for an emergency stop,
\* of the past for a motion.
LEMMA ReceiveAnswerInv ==
  ASSUME Inv, ReceiveAnswer
  PROVE  Inv'
<1> DEFINE answer == Head(to_host)
           request == session.waiting
           acknowledged == Acknowledges(answer, request)
<1>1. /\ request # Idle /\ to_host # <<>>
      /\ to_host' = Tail(to_host)
      /\ session' = [session EXCEPT !.waiting = Idle,
                                    !.receipt = IF acknowledged THEN request ELSE Idle]
      /\ stop' = IF acknowledged /\ request.kind = "estop" /\ stop = "asked"
                 THEN "known" ELSE stop
      /\ UNCHANGED <<lifecycle, ages, to_robot, robot, now, accepted, time, requests>>
  BY DEF ReceiveAnswer, host, board
<1>2. /\ to_host' \in Seq(Acks) /\ answer = to_host[1] /\ Len(to_host) \in Nat \ {0}
      /\ Len(to_host') = Len(to_host) - 1
      /\ \A i \in 1 .. Len(to_host') : to_host'[i] = to_host[i + 1]
  BY <1>1, TailIsRest DEF Inv, Typed
<1>3. acknowledged => \E i \in 1 .. Len(to_host) : Acknowledges(to_host[i], request)
  BY <1>2
<1>4. request \in Outstanding /\ Idle \in Outstanding
  BY PathAssumption DEF Inv, Typed, Outstanding, Idle
<1>5. session'.next_sequence = session.next_sequence /\ session'.waiting = Idle
      /\ session'.receipt = IF acknowledged THEN request ELSE Idle
  BY <1>1 DEF Inv, Typed
<1> HIDE DEF acknowledged, request, answer
<1>6. Typed' /\ Bounds'
  BY <1>1, <1>2, <1>4, <1>5 DEF Inv, Typed, Bounds
<1>7. GivenOut' /\ OwnFrame' /\ AnswersAreTrue'
  BY <1>1, <1>2, <1>5
     DEF Inv, GivenOut, OwnFrame, AnswersAreTrue, Answered
<1>8. StoppedMeansStopped'
  BY <1>1, <1>3
     DEF Inv, StoppedMeansStopped, AnswersAreTrue, Answered, request
<1>9. ReceiptMeansAccepted'
  BY <1>1, <1>3, <1>5
     DEF Inv, ReceiptMeansAccepted, AnswersAreTrue, Answered, IsAccepted, Idle,
         request
<1>10. Remembered' /\ RetryIsAcceptedOnce'
  BY <1>1 DEF Inv, Remembered, RetryIsAcceptedOnce
<1> QED
  BY <1>6, <1>7, <1>8, <1>9, <1>10 DEF Inv

\* Giving up forgets the request, reconnecting the wires as well.
LEMMA GiveUpInv ==
  ASSUME Inv, GiveUp
  PROVE  Inv'
<1>1. /\ session' = [session EXCEPT !.waiting = Idle]
      /\ UNCHANGED <<lifecycle, ages, to_robot, to_host, robot, now, accepted, stop,
                     time, requests>>
  BY DEF GiveUp, host, wires, board
<1>2. session'.next_sequence = session.next_sequence /\ session'.waiting = Idle
      /\ session'.receipt = session.receipt /\ Idle \in Outstanding
  BY <1>1, IdleIsRequest DEF Inv, Typed
<1>3. Typed' /\ Bounds'
  BY <1>1, <1>2 DEF Inv, Typed, Bounds
<1>4. GivenOut' /\ OwnFrame' /\ AnswersAreTrue'
  BY <1>1, <1>2 DEF Inv, GivenOut, OwnFrame, AnswersAreTrue, Answered
<1>5. StoppedMeansStopped' /\ ReceiptMeansAccepted' /\ RetryIsAcceptedOnce'
      /\ Remembered'
  BY <1>1, <1>2
     DEF Inv, StoppedMeansStopped, ReceiptMeansAccepted, RetryIsAcceptedOnce,
         Remembered
<1> QED
  BY <1>3, <1>4, <1>5 DEF Inv

LEMMA ReconnectInv ==
  ASSUME Inv, Reconnect
  PROVE  Inv'
<1>1. /\ session' = [next_sequence |-> 0, waiting |-> Idle, receipt |-> Idle]
      /\ to_robot' = <<>> /\ to_host' = <<>>
      /\ UNCHANGED <<lifecycle, ages, robot, now, accepted, stop, time, requests>>
  BY DEF Reconnect, NewSession, host, board
<1>2. Typed' /\ Bounds'
  BY <1>1, PathAssumption DEF Inv, Typed, Bounds, Outstanding, Idle
<1>3. GivenOut' /\ OwnFrame' /\ AnswersAreTrue'
  BY <1>1 DEF GivenOut, OwnFrame, AnswersAreTrue, Answered
<1>4. StoppedMeansStopped' /\ ReceiptMeansAccepted' /\ RetryIsAcceptedOnce'
      /\ Remembered'
  BY <1>1
     DEF Inv, StoppedMeansStopped, ReceiptMeansAccepted, RetryIsAcceptedOnce,
         Remembered, Idle
<1> QED
  BY <1>2, <1>3, <1>4 DEF Inv

\* The robot answers a frame.  Whatever it does, a latched stop stays; and what an
\* OK says of the outstanding request is true from then on.
LEMMA RobotTakesFrameInv ==
  ASSUME Inv, RobotTakesFrame
  PROVE  Inv'
<1> DEFINE frame == Head(to_robot)
           dispatch == RR!Dispatch(robot, frame, now)
           status == RR!AckStatusForDispatch(dispatch.result)
           answer == [sequence |-> frame.sequence, status |-> status]
           taken == dispatch.result = "kMotionDeferred"
           request == session.waiting
<1>1. /\ to_robot # <<>> /\ to_robot' = Tail(to_robot)
      /\ robot' = dispatch.robot
      /\ to_host' = Append(to_host, answer)
      /\ accepted' = IF taken THEN Append(accepted, frame.command_id) ELSE accepted
      /\ UNCHANGED <<lifecycle, ages, session, now, stop, time, requests>>
  BY DEF RobotTakesFrame, host
<1>2. /\ frame \in Sent /\ to_robot' \in Seq(Sent) /\ frame = to_robot[1]
      /\ Len(to_robot) \in Nat \ {0} /\ Len(to_robot') = Len(to_robot) - 1
      /\ \A i \in 1 .. Len(to_robot') : to_robot'[i] = to_robot[i + 1]
  BY <1>1, TailIsRest DEF Inv, Typed
<1>3. /\ RP!Guarded(robot') /\ status \in Statuses
      /\ robot.state = "kEstop" => robot'.state = "kEstop"
      /\ frame.type = "estop" /\ status = "OK" => robot'.state = "kEstop"
      /\ frame.type = "motion" /\ status = "OK" => taken
      /\ taken
           => /\ frame.type = "motion"
              /\ robot'.motion_command_seen
              /\ robot'.last_motion_command_id = frame.command_id
              /\ ~(robot.motion_command_seen
                     /\ robot.last_motion_command_id = frame.command_id)
      /\ ~taken
           => /\ robot'.motion_command_seen = robot.motion_command_seen
              /\ robot'.last_motion_command_id = robot.last_motion_command_id
  BY <1>1, <1>2, RobotFrames DEF Inv, Typed
<1>4. frame.sequence < session.next_sequence
      /\ frame.sequence \in 0 .. SeqModulus - 1
  <2>1. frame.sequence < session.next_sequence
    BY <1>2 DEF Inv, GivenOut
  <2> QED
    BY <2>1, <1>1, <1>2, SentNumbers DEF Inv, Typed
<1>5. request # Idle /\ frame.sequence = request.sequence => frame = Frame(request)
  BY <1>2 DEF Inv, OwnFrame
<1>6. frame.type = "motion" => frame.command_id \in Authorizations
  BY <1>2 DEF Sent, RR!Frames
<1> HIDE DEF frame, dispatch, status, taken
<1>7. answer \in Acks /\ answer.sequence = frame.sequence /\ answer.status = status
  BY <1>3, <1>4 DEF Acks
<1> HIDE DEF answer
<1>8. /\ to_host' \in Seq(Acks) /\ Len(to_host) \in Nat
      /\ Len(to_host') = Len(to_host) + 1
      /\ \A i \in 1 .. Len(to_host) : to_host'[i] = to_host[i]
      /\ to_host'[Len(to_host) + 1] = answer
  BY <1>1, <1>7, AppendIsLast DEF Inv, Typed
<1>9. /\ accepted' \in Seq(Authorizations \cup {NoId})
      /\ Len(accepted) \in Nat /\ Len(accepted') \in Nat
      /\ \A i \in 1 .. Len(accepted) :
           i \in 1 .. Len(accepted') /\ accepted'[i] = accepted[i]
      /\ ~taken => accepted' = accepted
      /\ taken => /\ Len(accepted') = Len(accepted) + 1
                  /\ accepted'[Len(accepted) + 1] = frame.command_id
                  /\ accepted' # <<>>
  <2>1. CASE taken
    <3>1. frame.command_id \in Authorizations \cup {NoId}
      BY <1>3, <1>6, <2>1
    <3>2. accepted' = Append(accepted, frame.command_id)
      BY <1>1, <2>1
    <3> QED
      BY <2>1, <3>1, <3>2, AppendIsLast DEF Inv, Typed
  <2>2. CASE ~taken
    BY <1>1, <2>2 DEF Inv, Typed
  <2> QED
    BY <2>1, <2>2
<1>10. Typed' /\ Bounds'
  BY <1>1, <1>2, <1>3, <1>8, <1>9 DEF Inv, Typed, Bounds
<1>11. GivenOut'
  <2>1. \A i \in 1 .. Len(to_host') :
          to_host'[i].sequence < session.next_sequence
    BY <1>4, <1>7, <1>8 DEF Inv, GivenOut
  <2>2. \A i \in 1 .. Len(to_robot') :
          to_robot'[i].sequence < session.next_sequence
    BY <1>2 DEF Inv, GivenOut
  <2> QED
    BY <1>1, <2>1, <2>2 DEF Inv, GivenOut
<1>12. OwnFrame'
  BY <1>1, <1>2 DEF Inv, OwnFrame
<1>13. AnswersAreTrue'
  <2>1. \A k \in Kinds : Answered(k)' =>
          \/ Answered(k)
          \/ /\ request # Idle /\ request.kind = k
             /\ frame.sequence = request.sequence /\ status = "OK"
    BY <1>1, <1>7, <1>8 DEF Answered, Acknowledges, request
  <2>2. \A id : IsAccepted(id) => IsAccepted(id)'
    BY <1>9 DEF IsAccepted
  <2>3. ASSUME request # Idle, request.kind = "estop",
               frame.sequence = request.sequence, status = "OK"
        PROVE  robot'.state = "kEstop"
    BY <1>3, <1>5, <2>3 DEF Frame
  <2>4. ASSUME request # Idle, request.kind = "motion",
               frame.sequence = request.sequence, status = "OK"
        PROVE  IsAccepted(request.command_id)'
    <3>1. frame.type = "motion" /\ frame.command_id = request.command_id
      BY <1>5, <2>4 DEF Frame
    <3>2. taken
      BY <1>3, <2>4, <3>1
    <3> QED
      BY <1>1, <1>9, <3>1, <3>2 DEF IsAccepted
  <2>5. Answered("estop")' /\ stop' = "asked" => robot'.state = "kEstop"
    BY <1>1, <1>3, <2>1, <2>3 DEF Inv, AnswersAreTrue, Kinds
  <2>6. Answered("motion")' => IsAccepted(request.command_id)'
    BY <1>1, <2>1, <2>2, <2>4 DEF Inv, AnswersAreTrue, Kinds
  <2> QED
    BY <1>1, <2>5, <2>6 DEF AnswersAreTrue
<1>14. Remembered'
  BY <1>3, <1>9 DEF Inv, Remembered
<1>15. StoppedMeansStopped'
  BY <1>1, <1>3 DEF Inv, StoppedMeansStopped
<1>16. ReceiptMeansAccepted'
  BY <1>1, <1>9 DEF Inv, ReceiptMeansAccepted
<1>17. RetryIsAcceptedOnce'
  <2>1. CASE taken
    <3>1. ASSUME NEW i \in 1 .. Len(accepted), accepted'[i] # NoId
          PROVE  accepted'[i] # accepted'[i + 1]
      <4>1. CASE i < Len(accepted)
        BY <1>9, <3>1, <4>1 DEF Inv, RetryIsAcceptedOnce
      <4>2. CASE i = Len(accepted)
        <5>1. accepted # <<>> /\ accepted[Len(accepted)] # NoId
          BY <1>9, <3>1, <4>2 DEF Inv, Typed
        <5>2. accepted[Len(accepted)] # frame.command_id
          BY <1>3, <2>1, <5>1 DEF Inv, Remembered
        <5> QED
          BY <1>9, <2>1, <4>2, <5>2
      <4> QED
        BY <1>9, <4>1, <4>2
    <3> QED
      BY <1>9, <2>1, <3>1 DEF RetryIsAcceptedOnce
  <2>2. CASE ~taken
    BY <1>9, <2>2 DEF Inv, RetryIsAcceptedOnce
  <2> QED
    BY <2>1, <2>2
<1> QED
  BY <1>10, <1>11, <1>12, <1>13, <1>14, <1>15, <1>16, <1>17 DEF Inv

\* Tick ends no latched stop and forgets no motion.
LEMMA EndLoopInv ==
  ASSUME Inv, NEW d \in 1 .. MaxLoopTime, EndLoop(d)
  PROVE  Inv'
<1>1. /\ time + d <= MaxTime /\ time' = time + d
      /\ robot' = RR!AfterTick(robot, now)
      /\ now' = (now + d) % ClockModulus
      /\ ages' = [id \in Authorizations |-> IF ages[id] = NoAge THEN NoAge
                                            ELSE ages[id] + d]
      /\ UNCHANGED <<lifecycle, session, to_robot, to_host, accepted, stop, requests>>
  BY DEF EndLoop, wires
<1>2. /\ RP!Guarded(robot')
      /\ robot.state = "kEstop" => robot'.state = "kEstop"
      /\ robot'.motion_command_seen = robot.motion_command_seen
      /\ robot'.last_motion_command_id = robot.last_motion_command_id
  BY <1>1, RobotTicks DEF Inv, Typed
<1>3. now' \in 0 .. ClockModulus - 1
  <2>1. now + d \in Int
    BY PathAssumption DEF Inv, Typed
  <2> QED
    BY <1>1, <2>1, PathAssumption, RP!ModuloInRange, RobotAssumption
<1>4. time' \in 0 .. MaxTime /\ ages' \in [Authorizations -> {NoAge} \cup 0 .. time']
  BY <1>1, PathAssumption DEF Inv, Bounds, NoAge
<1>5. Typed' /\ Bounds'
  BY <1>1, <1>2, <1>3, <1>4 DEF Inv, Typed, Bounds
<1>6. GivenOut' /\ OwnFrame' /\ AnswersAreTrue'
  BY <1>1, <1>2
     DEF Inv, GivenOut, OwnFrame, AnswersAreTrue, Answered, IsAccepted
<1>7. StoppedMeansStopped' /\ ReceiptMeansAccepted' /\ RetryIsAcceptedOnce'
      /\ Remembered'
  BY <1>1, <1>2
     DEF Inv, StoppedMeansStopped, ReceiptMeansAccepted, RetryIsAcceptedOnce,
         Remembered
<1> QED
  BY <1>5, <1>6, <1>7 DEF Inv

\* A reset that readies the robot ends what the host may believe of its stop.
LEMMA ManualResetInv ==
  ASSUME Inv, ManualReset
  PROVE  Inv'
<1>1. /\ robot' = RR!AfterManualReset(robot, now)
      /\ stop' = IF robot'.state = "kEstop" THEN stop ELSE "none"
      /\ UNCHANGED <<lifecycle, ages, session, to_robot, to_host, now, accepted,
                     time, requests>>
  BY DEF ManualReset, host, wires
<1>2. /\ RP!Guarded(robot')
      /\ robot'.motion_command_seen = robot.motion_command_seen
      /\ robot'.last_motion_command_id = robot.last_motion_command_id
  BY <1>1, RobotResets DEF Inv, Typed
<1>3. Typed' /\ Bounds'
  BY <1>1, <1>2 DEF Inv, Typed, Bounds
<1>4. GivenOut' /\ OwnFrame' /\ AnswersAreTrue'
  BY <1>1 DEF Inv, GivenOut, OwnFrame, AnswersAreTrue, Answered, IsAccepted
<1>5. StoppedMeansStopped' /\ ReceiptMeansAccepted' /\ RetryIsAcceptedOnce'
      /\ Remembered'
  BY <1>1, <1>2
     DEF Inv, StoppedMeansStopped, ReceiptMeansAccepted, RetryIsAcceptedOnce,
         Remembered
<1> QED
  BY <1>3, <1>4, <1>5 DEF Inv

\* Without power the robot forgets all; what it accepted before stays accepted.
LEMMA PowerCycleInv ==
  ASSUME Inv, PowerCycle
  PROVE  Inv'
<1>1. /\ robot' = RR!PowerOn /\ now' = 0
      /\ accepted' = Append(accepted, NoId)
      /\ stop' = "none"
      /\ UNCHANGED <<lifecycle, ages, session, to_robot, to_host, time, requests>>
  BY DEF PowerCycle, host, wires
<1>2. /\ accepted' \in Seq(Authorizations \cup {NoId})
      /\ Len(accepted) \in Nat /\ Len(accepted') = Len(accepted) + 1
      /\ \A i \in 1 .. Len(accepted) : accepted'[i] = accepted[i]
      /\ accepted'[Len(accepted) + 1] = NoId
  BY <1>1, AppendIsLast DEF Inv, Typed
<1>3. Typed' /\ Bounds'
  BY <1>1, <1>2, PowerOnGuarded, PathAssumption DEF Inv, Typed, Bounds
<1>4. GivenOut' /\ OwnFrame'
  BY <1>1 DEF Inv, GivenOut, OwnFrame
<1>5. AnswersAreTrue' /\ Remembered' /\ StoppedMeansStopped' /\ ReceiptMeansAccepted'
  BY <1>1, <1>2
     DEF Inv, AnswersAreTrue, Answered, IsAccepted, Remembered,
         StoppedMeansStopped, ReceiptMeansAccepted
<1>6. RetryIsAcceptedOnce'
  <2>1. ASSUME NEW i \in 1 .. Len(accepted), accepted'[i] # NoId
        PROVE  accepted'[i] # accepted'[i + 1]
    <3>1. CASE i < Len(accepted)
      BY <1>2, <2>1, <3>1 DEF Inv, RetryIsAcceptedOnce
    <3>2. CASE i = Len(accepted)
      BY <1>2, <2>1, <3>2
    <3> QED
      BY <1>2, <3>1, <3>2
  <2> QED
    BY <1>2, <2>1 DEF RetryIsAcceptedOnce
<1> QED
  BY <1>3, <1>4, <1>5, <1>6 DEF Inv

LEMMA InvNext ==
  ASSUME Inv, [Next]_vars
  PROVE  Inv'
<1>1. ASSUME NEW id \in Authorizations, SendAuthorization(id) PROVE Inv'
  BY <1>1, SendInv DEF SendAuthorization, Kinds
<1>2. CASE SendHeartbeat
  BY <1>2, SendInv DEF SendHeartbeat, Kinds
<1>3. CASE SendEstop
  BY <1>3, SendInv DEF SendEstop, Kinds
<1>4. CASE UNCHANGED vars
  BY <1>4, HostKeepsInv DEF vars, host, Inv, Typed, Bounds
<1> QED
  BY <1>1, <1>2, <1>3, <1>4, HostEventInv, ApproveInv, ReceiveAnswerInv,
     GiveUpInv, ReconnectInv, RobotTakesFrameInv, EndLoopInv, ManualResetInv,
     PowerCycleInv
     DEF Next

LEMMA InvAlways == Spec => []Inv
  BY InvInit, InvNext, PTL DEF Spec

---------------------------------------------------------------------------
(* The theorems.                                                           *)

\* A host that holds the robot's receipt for an emergency stop is right about
\* the robot (robot_gateway.py _request, runtime.h HandleFrame), whatever was
\* lost, repeated or sent over another session since.
THEOREM StopReceiptsAreTrue == Spec => []StoppedMeansStopped
  BY InvAlways, PTL DEF Inv

\* A receipt for a motion is the robot's acceptance of that very motion, and an
\* authorization that is sent again is not accepted twice in a row.
THEOREM MotionReceiptsAreTrue == Spec => []MotionsHappenAsTold
<1>1. Inv => MotionsHappenAsTold
  <2> SUFFICES ASSUME Inv PROVE TypeOK
    BY DEF Inv, MotionsHappenAsTold
  <2>1. lifecycle \in LC!Snapshots
    BY SameLifecycle DEF Inv, Typed, LP!Consistent
  <2>2. ages \in [Authorizations -> {NoAge} \cup 0 .. MaxTime]
    BY PathAssumption DEF Inv, Bounds, NoAge
  <2>3. robot \in RR!Robots
    BY SameRobot DEF Inv, Typed, RP!Guarded
  <2>4. to_robot \in Seq(RR!Frames)
    BY DEF Inv, Typed, Sent
  <2> QED
    BY <2>1, <2>2, <2>3, <2>4 DEF Inv, Typed, TypeOK, Acks, Statuses
<1> QED
  BY <1>1, InvAlways, PTL
===========================================================================
