-------------------------- MODULE RobotGateway --------------------------
(***************************************************************************)
(* The host's request/acknowledgement gateway to the robot                 *)
(* (src/rci/hardware/robot_gateway.py) over a frame transport              *)
(* (protocol_transport.py) on a bounded in-memory link                     *)
(* (memory_transport.py), and the robot as far as the gateway sees it.     *)
(*                                                                         *)
(* Many asyncio tasks may call the gateway.  A task gives up the thread    *)
(* only where it must wait: for the request lock, for room in a full       *)
(* channel, or for an answer.  Each action runs a task from one such point *)
(* to the next, and only there can it be cancelled or time out.            *)
(***************************************************************************)
EXTENDS Integers, Sequences, SequencesExt, FiniteSets

CONSTANTS
  Tasks,            \* asyncio tasks that call the gateway
  SeqModulus,       \* 2^16 in the code
  OutCapacity,      \* frames the channel to the robot holds
  InCapacity,       \* frames the channel from the robot holds
  Disturbances,     \* the kinds of disturbance that may happen
  MaxDisturbances   \* bound on their number

DisturbanceKinds ==
  {"late", "lost", "garbled", "stray", "cancelled", "hung_up", "closed"}

ASSUME GatewayAssumption ==
  /\ SeqModulus \in Nat \ {0} /\ OutCapacity \in Nat \ {0}
  /\ InCapacity \in Nat \ {0} /\ MaxDisturbances \in Nat
  /\ Disturbances \subseteq DisturbanceKinds

VARIABLES
  next_sequence,  \* RobotGateway._sequence
  lock_queue,     \* _request_lock: the head holds it, the others wait in turn
  task,           \* where each calling task is, and how its last call ended
  link,           \* "up", "hung_up" by the robot, or "closed" by the host
  out_wire,       \* frames on their way to the robot
  in_wire,        \* frames on their way to the host
  frames, issues, \* ProtocolTransport._frames, and the length of _issues
  disturbed,      \* how many disturbances there have been, and whether they
                  \* only lost or damaged answers (history)
  sent            \* requests begun so far, to identify them (history)

gateway == <<next_sequence, lock_queue, task>>
received == <<in_wire, frames, issues>>
vars == <<gateway, link, out_wire, received, disturbed, sent>>

Sequences16 == 0 .. SeqModulus - 1

\* History numbers requests beyond the wrap of the sequence.
Ids == 0 .. 2 * SeqModulus - 1
NoId == -1

Answers == [kind : {"ack", "nack", "other", "garbage"},
            sequence : Sequences16, id : Ids \cup {NoId}]
Requests == [sequence : Sequences16, id : Ids]

Outcomes == {"none", "not_open", "send_failed", "ack_failed", "protocol_error",
             "rejected", "receipt", "cancelled"}

\* At rest a task remembers how its last request ended, and whose answer it took.
AtRest(outcome, id, answered) ==
  [pc |-> "idle", sequence |-> 0, id |-> id,
   outcome |-> outcome, answered |-> answered]

Init ==
  /\ next_sequence = 0 /\ lock_queue = <<>>
  /\ task = [c \in Tasks |-> AtRest("none", NoId, NoId)]
  /\ link = "up"
  /\ out_wire = <<>> /\ in_wire = <<>> /\ frames = <<>> /\ issues = 0
  /\ disturbed = [number |-> 0, only_answers |-> TRUE] /\ sent = 0

Disturb(kind) ==
  /\ kind \in Disturbances /\ disturbed.number < MaxDisturbances
  /\ disturbed' = [number |-> disturbed.number + 1,
                   only_answers |-> disturbed.only_answers
                                    /\ kind \in {"lost", "garbled"}]

---------------------------------------------------------------------------
(* The parts of a request.  queue is the lock queue while the task that holds *)
(* the lock runs.                                                          *)

\* The lock passes on however the request ends.
Released(queue, c) == RemoveFirst(queue, c)

Finish(c, queue, outcome, id, answered) ==
  /\ task' = [task EXCEPT ![c] = AtRest(outcome, id, answered)]
  /\ lock_queue' = Released(queue, c)

Wait(c, queue, pc, request) ==
  /\ task' = [task EXCEPT ![c] = [pc |-> pc, sequence |-> request.sequence,
                                  id |-> request.id, outcome |-> "none",
                                  answered |-> NoId]]
  /\ lock_queue' = queue

\* _next_sequence
SequenceAfter(sequence) == (sequence + 1) % SeqModulus

\* Seeded fault: the sequence of the answer is not compared.
JudgementOfAnyAnswer(answer, sequence) ==
  CASE answer.kind = "other" -> "protocol_error"
    [] answer.kind = "nack" -> "rejected"
    [] OTHER -> "receipt"

\* What _request makes of the frame it is given: the answer to its own request
\* is known by the sequence number alone.
Judgement(answer, sequence) ==
  IF answer.kind = "other" \/ answer.sequence # sequence THEN "protocol_error"
  ELSE IF answer.kind = "nack" THEN "rejected" ELSE "receipt"

\* receive_frame looks at what was decoded before, and reads a chunk only when
\* nothing is left; 0 stands for not reading.
ChunkSizes ==
  IF issues > 0 \/ frames # <<>> THEN {0} ELSE 1 .. Len(in_wire)

\* Seeded fault: a damaged frame is reported and also passed on.
DecodedKeepingGarbage(n) ==
  LET chunk == SubSeq(in_wire, 1, n)
      Damaged == {i \in 1 .. n : chunk[i].kind = "garbage"}
  IN [issues |-> issues + Cardinality(Damaged), frames |-> frames \o chunk,
      rest |-> SubSeq(in_wire, n + 1, Len(in_wire))]

\* Garbage becomes issues, the rest frames.
Decoded(n) ==
  LET read[k \in 0 .. n] ==
        IF k = 0 THEN [issues |-> issues, frames |-> frames]
        ELSE IF in_wire[k].kind = "garbage"
             THEN [issues |-> read[k - 1].issues + 1, frames |-> read[k - 1].frames]
             ELSE [issues |-> read[k - 1].issues,
                   frames |-> Append(read[k - 1].frames, in_wire[k])]
  IN [issues |-> read[n].issues, frames |-> read[n].frames,
      rest |-> SubSeq(in_wire, n + 1, Len(in_wire))]

\* Issues are raised before any frame is returned, whichever came first.
Take(c, queue, request, n) ==
  LET batch == Decoded(n)
      answer == Head(batch.frames)
  IN /\ in_wire' = batch.rest
     /\ \/ /\ batch.issues > 0
           /\ issues' = batch.issues - 1 /\ frames' = batch.frames
           /\ Finish(c, queue, "ack_failed", request.id, NoId)
        \/ /\ batch.issues = 0
           /\ issues' = 0 /\ frames' = Tail(batch.frames)
           /\ Finish(c, queue, Judgement(answer, request.sequence), request.id,
                     answer.id)

\* Seeded fault: a write that would just fill the channel waits, too.
HasRoomToSpare == Len(out_wire) + 1 < OutCapacity

\* A write waits only as long as the frame does not fit.
HasRoom == Len(out_wire) < OutCapacity

\* send_frame into a channel with room, then receive_frame as far as it goes.
WriteThenReceive(c, queue, request) ==
  /\ out_wire' = Append(out_wire, request)
  /\ \/ /\ ChunkSizes = {}
        /\ Wait(c, queue, "receiving", request)
        /\ UNCHANGED received
     \/ \E n \in ChunkSizes : Take(c, queue, request, n)

\* The body under the lock, up to its first wait.
RunLocked(c, queue) ==
  LET request == [sequence |-> next_sequence, id |-> sent]
  IN /\ next_sequence' = SequenceAfter(next_sequence)
     /\ sent' = (sent + 1) % Cardinality(Ids)
     /\ \/ /\ link # "up"
           /\ Finish(c, queue, "send_failed", request.id, NoId)
           /\ UNCHANGED <<out_wire, received>>
        \/ /\ link = "up" /\ ~HasRoom
           /\ Wait(c, queue, "sending", request)
           /\ UNCHANGED <<out_wire, received>>
        \/ /\ link = "up" /\ HasRoom
           /\ WriteThenReceive(c, queue, request)
     /\ UNCHANGED <<link, disturbed>>

---------------------------------------------------------------------------
(* The steps of a task.                                                    *)

\* send_authorization, send_heartbeat and send_estop all come down to _request,
\* which looks at the transport before it asks for the lock.
CallClosed(c) ==
  /\ task[c].pc = "idle" /\ link = "closed"
  /\ task' = [task EXCEPT ![c] = AtRest("not_open", NoId, NoId)]
  /\ UNCHANGED <<next_sequence, lock_queue, link, out_wire, received, disturbed, sent>>

CallFree(c) ==
  /\ task[c].pc = "idle" /\ link # "closed"
  /\ lock_queue = <<>>
  /\ RunLocked(c, <<c>>)

CallContended(c) ==
  /\ task[c].pc = "idle" /\ link # "closed"
  /\ lock_queue # <<>>
  /\ lock_queue' = Append(lock_queue, c)
  /\ task' = [task EXCEPT ![c] = [AtRest("none", NoId, NoId) EXCEPT !.pc = "queued"]]
  /\ UNCHANGED <<next_sequence, link, out_wire, received, disturbed, sent>>

Call(c) == CallClosed(c) \/ CallFree(c) \/ CallContended(c)

\* Seeded fault: every waiter is let in.
EveryoneHoldsLock(c) == TRUE

HoldsLock(c) == Head(lock_queue) = c

ObtainLock(c) ==
  /\ task[c].pc = "queued" /\ HoldsLock(c)
  /\ RunLocked(c, lock_queue)

Request(c) == [sequence |-> task[c].sequence, id |-> task[c].id]

\* A write that waited for room goes on, or finds the link gone.
ResumeWrite(c) ==
  /\ task[c].pc = "sending"
  /\ \/ /\ link = "up" /\ HasRoom
        /\ WriteThenReceive(c, lock_queue, Request(c))
     \/ /\ link # "up"
        /\ Finish(c, lock_queue, "send_failed", task[c].id, NoId)
        /\ UNCHANGED <<out_wire, received>>
  /\ UNCHANGED <<next_sequence, link, disturbed, sent>>

\* A read that waited goes on; when the link is gone it still takes what is left.
ResumeRead(c) ==
  /\ task[c].pc = "receiving"
  /\ \/ \E n \in ChunkSizes : Take(c, lock_queue, Request(c), n)
     \/ /\ link # "up" /\ ChunkSizes = {}
        /\ Finish(c, lock_queue, "ack_failed", task[c].id, NoId)
        /\ UNCHANGED received
  /\ UNCHANGED <<next_sequence, link, out_wire, disturbed, sent>>

TimeOut(c) ==
  /\ task[c].pc = "receiving"
  /\ Finish(c, lock_queue, "ack_failed", task[c].id, NoId)
  /\ UNCHANGED <<next_sequence, link, out_wire, received, sent>>

\* With nothing on the wires no answer can come: the timer runs out.
AnswerTimesOut(c) ==
  /\ out_wire = <<>> /\ in_wire = <<>>
  /\ TimeOut(c)
  /\ UNCHANGED disturbed

\* The timer runs out on an answer that is merely late.
AnswerIsLate(c) ==
  /\ out_wire # <<>> \/ in_wire # <<>>
  /\ TimeOut(c)
  /\ Disturb("late")

Cancel(c) ==
  /\ task[c].pc \in {"queued", "sending", "receiving"}
  /\ Disturb("cancelled")
  /\ Finish(c, lock_queue, "cancelled", task[c].id, NoId)
  /\ UNCHANGED <<next_sequence, link, out_wire, received, sent>>

Close ==
  /\ link # "closed" /\ Disturb("closed")
  /\ link' = "closed"
  /\ UNCHANGED <<gateway, out_wire, received, sent>>

---------------------------------------------------------------------------
(* The robot and the wire (external): it answers frames in order, one answer *)
(* each, and waits for room to write.                                      *)

Respond(kind) ==
  /\ link = "up" /\ out_wire # <<>> /\ Len(in_wire) < InCapacity
  /\ out_wire' = Tail(out_wire)
  /\ in_wire' = Append(in_wire, [kind |-> kind, sequence |-> Head(out_wire).sequence,
                                 id |-> Head(out_wire).id])
  /\ UNCHANGED <<gateway, link, frames, issues, sent>>

RobotAnswers ==
  /\ Respond("ack") \/ Respond("nack")
  /\ UNCHANGED disturbed

AnswerGarbled == Respond("garbage") /\ Disturb("garbled")

\* The request or its answer is lost on the way.
AnswerLost ==
  /\ link = "up" /\ out_wire # <<>> /\ Disturb("lost")
  /\ out_wire' = Tail(out_wire)
  /\ UNCHANGED <<gateway, link, received, sent>>

\* A frame that answers nothing.
StrayFrame ==
  /\ link = "up" /\ Len(in_wire) < InCapacity /\ Disturb("stray")
  /\ in_wire' = Append(in_wire, [kind |-> "other", sequence |-> 0, id |-> NoId])
  /\ UNCHANGED <<gateway, link, out_wire, frames, issues, sent>>

HangUp ==
  /\ link = "up" /\ Disturb("hung_up")
  /\ link' = "hung_up"
  /\ UNCHANGED <<gateway, out_wire, received, sent>>

Next ==
  \/ \E c \in Tasks : \/ Call(c) \/ ObtainLock(c) \/ ResumeWrite(c) \/ ResumeRead(c)
                      \/ AnswerTimesOut(c) \/ AnswerIsLate(c) \/ Cancel(c)
  \/ RobotAnswers \/ AnswerGarbled \/ AnswerLost \/ StrayFrame
  \/ Close \/ HangUp

Spec == Init /\ [][Next]_vars

\* The event loop resumes every task that can go on and every timer that ran
\* out; the robot goes on reading its link.
Fairness ==
  /\ \A c \in Tasks : WF_vars(\/ ObtainLock(c) \/ ResumeWrite(c) \/ ResumeRead(c)
                              \/ AnswerTimesOut(c))
  /\ WF_vars(RobotAnswers)

FairSpec == Spec /\ Fairness

---------------------------------------------------------------------------
(* Properties.                                                             *)

TypeOK ==
  /\ next_sequence \in Sequences16 /\ sent \in Ids
  /\ lock_queue \in Seq(Tasks)
  /\ task \in [Tasks -> [pc : {"idle", "queued", "sending", "receiving"},
                         sequence : Sequences16, id : Ids \cup {NoId},
                         outcome : Outcomes, answered : Ids \cup {NoId}]]
  /\ link \in {"up", "hung_up", "closed"}
  /\ out_wire \in Seq(Requests)
  /\ in_wire \in Seq(Answers) /\ frames \in Seq(Answers) /\ issues \in Nat

\* A caller is told of a receipt or a rejection only on the robot's answer to
\* that very request, whatever was late, cancelled, lost or garbled before it
\* and though the sequence wraps.
ReceiptIsGenuine ==
  \A c \in Tasks : task[c].outcome \in {"receipt", "rejected"}
                     => task[c].answered = task[c].id

\* The robot refuses frames whose sequence falls behind, so the tasks' frames
\* must reach the wire in the order their numbers were taken, though a writer
\* may wait for room or be cancelled after it took its number.
FramesLeaveInOrder ==
  \A i, j \in 1 .. Len(out_wire) :
    i < j => (out_wire[j].sequence - out_wire[i].sequence) % SeqModulus
               \in 1 .. SeqModulus - 2

\* The lock is held by the task at the head of the queue and by nobody else: no
\* two requests share the answers, and no ended call keeps others waiting.
OneRequestAtATime ==
  \A c \in Tasks :
    /\ task[c].pc \in {"sending", "receiving"} => Head(lock_queue) = c
    /\ task[c].pc = "idle" <=> \A i \in 1 .. Len(lock_queue) : lock_queue[i] # c

\* The link is jammed: a task waits for room to the robot, and the robot for room to
\* the gateway, which reads only once it has written, and has no timer on writing.
Jammed ==
  /\ link = "up" /\ Len(out_wire) = OutCapacity /\ Len(in_wire) = InCapacity
  /\ \E c \in Tasks : task[c].pc = "sending"

\* Each request takes a frame for the one it sends, so that a disturbance leaves one
\* frame behind at most; and to jam the link it takes as many of them as the two
\* channels together hold frames.
DisturbancesLeaveOne ==
  /\ link = "up" =>
       issues + Len(frames) + Len(in_wire) + Len(out_wire)
         <= disturbed.number + IF \E c \in Tasks : task[c].pc = "receiving" THEN 1 ELSE 0
  /\ Jammed => OutCapacity + InCapacity <= disturbed.number

\* Requests take turns from their number to their answer: the state is sound, the
\* lock is one task's, the frames of the tasks leave in order, and what is left over
\* of earlier requests stays bounded by what went wrong.
RequestsTakeTurns ==
  TypeOK /\ OneRequestAtATime /\ FramesLeaveInOrder /\ DisturbancesLeaveOne

\* Every call ends, and no lock is kept, unless the link is jammed for good: then the
\* gateway and the robot wait for each other, which only a cancellation, a close or
\* the robot's hanging up can end.
RequestsEnd ==
  []<>~Jammed => \A c \in Tasks : task[c].pc # "idle" ~> task[c].pc = "idle"

\* Callers that go on calling.
CallersPersist == \A c \in Tasks : WF_vars(Call(c))

Understood == \E c \in Tasks : task[c].outcome \in {"receipt", "rejected"}

\* docs/validation/V005_FAULT_CAMPAIGN.md:40: after a corrupted frame a "later
\* valid frame can recover cleanly".  Whatever answers were lost or damaged, a
\* gateway whose callers go on gets the answers to its own requests again and
\* again.
Recovers == CallersPersist /\ []disturbed.only_answers => []<>Understood
===========================================================================
