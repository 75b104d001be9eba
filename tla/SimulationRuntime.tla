------------------------ MODULE SimulationRuntime ------------------------
(***************************************************************************)
(* The software-only runtime behind the HTTP API                           *)
(* (src/rci/simulation/runtime.py): its supervisor, one gateway on an      *)
(* in-memory link, and the digital twin at the other end, which is served  *)
(* by a short-lived device task that each request starts for itself.       *)
(*                                                                         *)
(* There are two latches, the twin's and the supervisor's.  A stop sets    *)
(* one after the other with a wait in between, and a reset clears both     *)
(* without asking for the lock.  An action runs a task from one point      *)
(* where it must wait to the next.                                         *)
(***************************************************************************)
EXTENDS Integers, Sequences, SequencesExt

CONSTANTS
  Callers,          \* HTTP requests that call the runtime
  NoAge,            \* see SafetyLifecycle, NonFinite
  MaxCalls,         \* bound on the calls of execute_behavior and estop
  MaxDisturbances   \* bound on cancellations, timeouts and close()

ASSUME RuntimeAssumption ==
  MaxCalls \in Nat /\ MaxDisturbances \in Nat /\ NoAge \notin Int

VARIABLES
  lifecycle,      \* the supervisor's snapshot
  twin,           \* DigitalTwinRobot._state
  lock_queue,     \* _execution_lock: the head holds it
  call,           \* where each caller is, and how its last call ended
  link,           \* "up" or "down": _link
  next_sequence,  \* the gateway's
  to_device, to_host,   \* the two directions of the link
  devices,        \* device tasks that wait for a frame, by the request they serve
  requests,       \* requests so far, to identify them (history)
  moved,          \* the requests whose motion the twin accepted (history)
  stopped,        \* a stop was acknowledged and not reset since (history)
  calls, disturbances

safety == <<lifecycle, stopped>>
wires == <<link, next_sequence, to_device, to_host, devices, requests>>
plant == <<twin, moved>>
counters == <<calls, disturbances>>
vars == <<safety, plant, lock_queue, call, wires, counters>>

HeartbeatTimeout == 500     \* build_simulation_supervisor
LC == INSTANCE SafetyLifecycle
        WITH snapshot <- lifecycle, Ages <- {}, NonFinite <- NoAge, MaxSequence <- 0

\* Nobody looks at the snapshot's number here.
Unnumbered(s) == [s EXCEPT !.sequence = 0]

\* At rest a caller remembers how its last call ended, and a report its motion.
AtRest(outcome, id) ==
  [pc |-> "idle", asks |-> "none", id |-> IF outcome = "report" THEN id ELSE 0,
   sequence |-> 0, outcome |-> outcome]

Init ==
  /\ lifecycle = Unnumbered(LC!AfterArm(LC!InitialSnapshot))
  /\ twin = "IDLE" /\ link = "down"
  /\ lock_queue = <<>> /\ call = [c \in Callers |-> AtRest("none", 0)]
  /\ next_sequence = 0 /\ to_device = <<>> /\ to_host = <<>> /\ devices = {}
  /\ requests = 0 /\ moved = {} /\ stopped = FALSE
  /\ calls = 0 /\ disturbances = 0

---------------------------------------------------------------------------
(* Requests.  queue is the lock queue while its head runs.                 *)

\* Seeded fault: the lock is kept.
ReleasedNever(queue) == queue

Released(queue) == Tail(queue)

End(c, outcome, queue) ==
  /\ call' = [call EXCEPT ![c] = AtRest(outcome, call[c].id)]
  /\ lock_queue' = Released(queue)

\* _ensure_started: a new link has a new gateway, which counts from 0.
FirstSequence == IF link = "up" THEN next_sequence ELSE 0
Buffered == IF link = "up" THEN to_host ELSE <<>>

Frame(kind, sequence) == [kind |-> kind, sequence |-> sequence, id |-> requests]

\* _request_with_device, to its first wait.  An answer that is still buffered
\* from an earlier request is taken without waiting: it does not match, and the
\* new device task is cancelled before it has begun.
Ask(c, kind, queue, answers) ==
  /\ link' = "up" /\ requests' = requests + 1
  /\ next_sequence' = FirstSequence + 1
  /\ to_device' = Append(to_device, Frame(kind, FirstSequence))
  /\ \/ /\ answers = <<>>
        /\ devices' = devices \cup {requests} /\ to_host' = <<>>
        /\ call' = [call EXCEPT ![c] = [pc |-> "asking", asks |-> kind, id |-> requests,
                                        sequence |-> FirstSequence, outcome |-> "none"]]
        /\ lock_queue' = queue
     \/ /\ answers # <<>>
        /\ to_host' = Tail(answers)
        /\ End(c, "failed", queue)
        /\ UNCHANGED devices

\* Seeded fault: the supervisor's decision is not looked at.
MotionPermittedAlways(s) == TRUE

MotionPermitted(s) == ~LC!MotionBlocked(s)

AfterEvaluation ==
  Unnumbered(LC!AfterHeartbeatAge(LC!AfterPhysicalEstop(lifecycle, FALSE), 10))

\* No plan, or one that the supervisor does not approve.
Reject(c, queue) ==
  /\ link' = "up" /\ next_sequence' = FirstSequence /\ to_host' = Buffered
  /\ lifecycle' \in {lifecycle, AfterEvaluation}
  /\ End(c, "rejected", queue)
  /\ UNCHANGED <<to_device, devices, requests>>

Execute(c, queue) ==
  \/ Reject(c, queue)
  \/ /\ lifecycle' = AfterEvaluation /\ MotionPermitted(lifecycle')
     /\ Ask(c, "heartbeat", queue, Buffered)

Perform(c, operation, queue) ==
  /\ \/ operation = "execute" /\ Execute(c, queue)
     \/ operation = "estop" /\ Ask(c, "estop", queue, Buffered) /\ UNCHANGED lifecycle
  /\ UNCHANGED <<stopped, plant>>

\* Seeded fault: nobody waits for the lock.
LockFreeAlways == TRUE

LockFree == lock_queue = <<>>

Call(c, operation) ==
  /\ call[c].pc = "idle"
  /\ calls < MaxCalls /\ calls' = calls + 1
  /\ \/ LockFree /\ Perform(c, operation, <<c>> \o lock_queue)
     \/ /\ ~LockFree
        /\ lock_queue' = Append(lock_queue, c)
        /\ call' = [call EXCEPT ![c] = [AtRest("none", 0) EXCEPT !.pc = "queued",
                                                                   !.asks = operation]]
        /\ UNCHANGED <<safety, plant, wires>>
  /\ UNCHANGED disturbances

ObtainLock(c) ==
  /\ call[c].pc = "queued" /\ Head(lock_queue) = c
  /\ Perform(c, call[c].asks, lock_queue)
  /\ UNCHANGED counters

---------------------------------------------------------------------------
(* The device task and the twin.                                           *)

\* The twin takes a motion in any state.  It may also find it outside its model.
Dispatch(frame, status) ==
  /\ status = "OK" \/ frame.kind = "motion"
  /\ twin' = CASE frame.kind = "estop" -> "ESTOP"
               [] frame.kind = "motion" /\ status = "OK" -> "EXECUTING"
               [] OTHER -> twin
  /\ moved' = IF frame.kind = "motion" /\ status = "OK"
              THEN moved \cup {frame.id} ELSE moved

Others(d) == devices \ {d}

\* serve_once: a frame is taken, handled and answered without a wait.
Serve(d) ==
  /\ d \in devices /\ to_device # <<>>
  /\ \E status \in {"OK", "INVALID"} :
       /\ Dispatch(Head(to_device), status)
       /\ to_host' = Append(to_host, [sequence |-> Head(to_device).sequence,
                                      status |-> status])
  /\ to_device' = Tail(to_device) /\ devices' = Others(d)
  /\ UNCHANGED <<safety, lock_queue, call, link, next_sequence, requests, counters>>

---------------------------------------------------------------------------
(* Answers.                                                                *)

\* Seeded fault: any answer will do.
MatchesAnything(answer, c) == TRUE

Matches(answer, c) == answer.sequence = call[c].sequence

Fail(c, outcome) ==
  /\ End(c, outcome, lock_queue)
  /\ devices' = Others(call[c].id)
  /\ UNCHANGED <<safety, plant, link, next_sequence, to_device, requests>>

\* The motion's command may not be representable on the wire.
AskMotion(c) ==
  /\ call[c].asks = "heartbeat" /\ link = "up"
  /\ \/ Ask(c, "motion", lock_queue, Tail(to_host))
     \/ /\ End(c, "rejected", lock_queue) /\ to_host' = Tail(to_host)
        /\ UNCHANGED <<link, next_sequence, to_device, devices, requests>>
  /\ UNCHANGED <<safety, plant>>

\* The twin is stepped until it is idle, or for 5000 steps.
Settle(c) ==
  /\ call[c].asks = "motion" /\ to_host' = Tail(to_host)
  /\ \/ twin # "ESTOP" /\ twin' = "IDLE" /\ End(c, "report", lock_queue)
     \/ twin # "IDLE" /\ UNCHANGED twin /\ End(c, "unsettled", lock_queue)
  /\ UNCHANGED <<safety, moved, link, next_sequence, to_device, devices, requests>>

LatchSupervisor(c) ==
  /\ call[c].asks = "estop" /\ to_host' = Tail(to_host)
  /\ lifecycle' = Unnumbered(LC!AfterSoftwareEstop(lifecycle))
  /\ stopped' = TRUE
  /\ End(c, "receipt", lock_queue)
  /\ UNCHANGED <<plant, link, next_sequence, to_device, devices, requests>>

\* The device task is done when the answer matches, so nothing waits for it.
ReadAnswer(c) ==
  /\ call[c].pc = "asking" /\ to_host # <<>>
  /\ LET answer == Head(to_host)
         matched == Matches(answer, c)
     IN \/ /\ \/ ~matched
              \/ answer.status = "OK" /\ call[c].asks = "heartbeat" /\ link = "down"
           /\ to_host' = Tail(to_host) /\ Fail(c, "failed")
        \/ /\ matched /\ answer.status = "INVALID"
           /\ to_host' = Tail(to_host) /\ Fail(c, "refused")
        \/ /\ matched /\ answer.status = "OK"
           /\ (AskMotion(c) \/ Settle(c) \/ LatchSupervisor(c))
  /\ UNCHANGED counters

LinkLost(c) ==
  /\ call[c].pc = "asking" /\ link = "down" /\ to_host = <<>>
  /\ Fail(c, "failed")
  /\ UNCHANGED <<to_host, counters>>

---------------------------------------------------------------------------
(* Disturbances, and the reset.                                            *)

Disturb ==
  /\ disturbances < MaxDisturbances /\ disturbances' = disturbances + 1
  /\ UNCHANGED calls

\* No answer within the gateway's second: the device task is cancelled with it.
AnswerTimesOut(c) ==
  /\ call[c].pc = "asking" /\ link = "up" /\ to_host = <<>> /\ Disturb
  /\ Fail(c, "failed")
  /\ UNCHANGED to_host

\* The device task of a cancelled request goes on.
Cancel(c) ==
  /\ call[c].pc # "idle" /\ Disturb
  /\ call' = [call EXCEPT ![c] = AtRest("cancelled", 0)]
  /\ lock_queue' = RemoveFirst(lock_queue, c)
  /\ UNCHANGED <<safety, plant, wires>>

\* close(): what was answered can still be read, and a frame that is there may
\* still be taken, though not answered.
Close ==
  /\ link = "up" /\ Disturb
  /\ link' = "down" /\ to_device' = <<>> /\ devices' = {}
  /\ \/ UNCHANGED plant
     \/ devices # {} /\ to_device # <<>> /\ Dispatch(Head(to_device), "OK")
  /\ UNCHANGED <<safety, lock_queue, call, next_sequence, to_host, requests>>

\* reset_estop() takes no lock.
Reset ==
  /\ \/ twin # "ESTOP" /\ UNCHANGED <<lifecycle, twin, stopped>>
     \/ LET fresh == LC!AfterHeartbeatAge(lifecycle, 0)
        IN /\ twin = "ESTOP" /\ twin' = "IDLE"
           /\ lifecycle' = Unnumbered(LC!AfterManualReset(fresh))
           /\ stopped' = FALSE
  /\ UNCHANGED <<moved, lock_queue, call, wires, counters>>

Next ==
  \/ \E c \in Callers : \/ \E operation \in {"execute", "estop"} : Call(c, operation)
                        \/ ObtainLock(c) \/ ReadAnswer(c) \/ LinkLost(c)
                        \/ AnswerTimesOut(c) \/ Cancel(c)
  \/ \E d \in devices : Serve(d)
  \/ Close \/ Reset

Spec == Init /\ [][Next]_vars

\* The event loop resumes every task that can go on.
Fairness ==
  /\ \A c \in Callers : WF_vars(ObtainLock(c) \/ ReadAnswer(c) \/ LinkLost(c))
  /\ WF_vars(\E d \in devices : Serve(d))

FairSpec == Spec /\ Fairness

---------------------------------------------------------------------------
(* Properties.                                                             *)

Frames == [kind : {"heartbeat", "motion", "estop"}, sequence : Nat, id : Nat]
Outcomes == {"none", "rejected", "failed", "refused", "report", "unsettled", "receipt",
             "cancelled"}

TypeOK ==
  /\ lifecycle \in LC!Snapshots /\ twin \in {"IDLE", "EXECUTING", "ESTOP"}
  /\ lock_queue \in Seq(Callers) /\ link \in {"up", "down"}
  /\ call \in [Callers -> [pc : {"idle", "queued", "asking"},
                           asks : {"none", "execute", "heartbeat", "motion", "estop"},
                           id : Nat, sequence : Nat, outcome : Outcomes]]
  /\ next_sequence \in Nat /\ requests \in Nat
  /\ to_device \in Seq(Frames)
  /\ to_host \in Seq([sequence : Nat, status : {"OK", "INVALID"}])
  /\ devices \subseteq Nat /\ moved \subseteq Nat
  /\ stopped \in BOOLEAN

\* From the receipt for a stop until a reset both latches hold: the supervisor
\* authorizes nothing and the twin executes nothing, whatever was cancelled, timed
\* out, closed or left on the wires before, and though a reset may have run between
\* the twin's stop and the supervisor's.
StoppedMeansStill == stopped => lifecycle.estop_latched /\ twin # "EXECUTING"

\* A caller gets a report only for the motion that the twin did execute.
ReportIsGenuine == \A c \in Callers : call[c].outcome = "report" => call[c].id \in moved

\* Requests, answers and device tasks stay in step by themselves: without a
\* cancellation, a timeout or a close, no request is lost between them.
UndisturbedRequestsSucceed ==
  disturbances = 0 => \A c \in Callers : call[c].outcome # "failed"

\* After the answer the runtime awaits its device task.  That wait never lasts: the
\* task is done when the answer that matches is there, although the frame could
\* have been taken by the device task of an earlier, cancelled request.
ReceiptFindsDeviceDone ==
  \A c \in Callers :
    call[c].pc = "asking" /\ to_host # <<>> /\ Head(to_host).sequence = call[c].sequence
      => call[c].id \notin devices

\* Requests, answers and device tasks stay in step: of themselves for as long as
\* nothing disturbs them, and enough of it afterwards that no wait is for nothing.
RequestsStayInStep == TypeOK /\ UndisturbedRequestsSucceed /\ ReceiptFindsDeviceDone

\* Every call ends, whoever was cancelled while he held or awaited the lock.
CallsEnd == \A c \in Callers : call[c].pc # "idle" ~> call[c].pc = "idle"
===========================================================================
