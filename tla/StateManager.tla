-------------------------- MODULE StateManager --------------------------
(***************************************************************************)
(* The owner of the runtime's state snapshot (src/rci/state/manager.py)    *)
(* and the table of its legal transitions (transitions.py).  A transition  *)
(* keeps the manager's lock while it publishes its event, which may take   *)
(* long: the bus is bounded.  How the publishing goes is decided by the    *)
(* module that uses this one, which picks among the ways in which a        *)
(* transition can go on.                                                   *)
(***************************************************************************)
EXTENDS Integers, Sequences, SequencesExt

CONSTANT Tasks   \* asyncio tasks that call the manager

VARIABLES
  snapshot,     \* of _snapshot: the system state, its sequence, the revision
  lock_queue,   \* _lock: the head holds it, the others wait in turn
  call          \* the call each task is in

manager == <<snapshot, lock_queue, call>>

States == {"BOOT", "SELF_TEST", "CALIBRATING", "IDLE", "ARMED", "EXECUTING",
           "DEGRADED", "FAULT", "ESTOP", "SHUTDOWN"}

Exits == {"FAULT", "ESTOP", "SHUTDOWN"}

LEGAL_TRANSITIONS ==
  [BOOT |-> {"SELF_TEST"} \cup Exits,
   SELF_TEST |-> {"CALIBRATING", "DEGRADED"} \cup Exits,
   CALIBRATING |-> {"IDLE", "DEGRADED"} \cup Exits,
   IDLE |-> {"ARMED", "CALIBRATING", "DEGRADED"} \cup Exits,
   ARMED |-> {"EXECUTING", "IDLE", "DEGRADED"} \cup Exits,
   EXECUTING |-> {"ARMED", "DEGRADED"} \cup Exits,
   DEGRADED |-> {"SELF_TEST", "IDLE"} \cup Exits,
   FAULT |-> {"SELF_TEST", "ESTOP", "SHUTDOWN"},
   ESTOP |-> {"SELF_TEST", "SHUTDOWN"},
   SHUTDOWN |-> {}]

CanTransition(target) == target \in LEGAL_TRANSITIONS[snapshot.state]

\* A call asks for a target state, or replaces a component of the snapshot.
Update == "update"
Requests == States \cup {Update}

NoCall == [pc |-> "idle"]
Change(target) == [from |-> snapshot.state, to |-> target]
Changes == [from : States, to : States]

Init ==
  /\ snapshot = [state |-> "BOOT", sequence |-> 0, revision |-> 0]
  /\ lock_queue = <<>>
  /\ call = [t \in Tasks |-> NoCall]

WithState(target) ==
  [state |-> target, sequence |-> snapshot.sequence + 1,
   revision |-> snapshot.revision + 1]

---------------------------------------------------------------------------
(* The lock.                                                               *)

\* A call finds the lock taken and queues for it.
Queue(t, request) ==
  /\ lock_queue # <<>>
  /\ lock_queue' = Append(lock_queue, t)
  /\ call' = [call EXCEPT ![t] = [pc |-> "queued", request |-> request]]
  /\ UNCHANGED snapshot

\* Seeded fault: a call that had to wait for its turn keeps it.
LeaveKeepingLock(t) ==
  /\ UNCHANGED lock_queue
  /\ call' = [call EXCEPT ![t] = NoCall]

\* The call of t ends and lets go of the lock, or of its place in the queue.
Leave(t) ==
  /\ lock_queue' = RemoveFirst(lock_queue, t)
  /\ call' = [call EXCEPT ![t] = NoCall]

---------------------------------------------------------------------------
(* The body of a call under the lock.                                      *)

\* validate_transition raises.
Refuse(t, request) ==
  /\ request # Update /\ ~CanTransition(request)
  /\ Leave(t) /\ UNCHANGED snapshot

\* _replace_component
ReplaceComponent(t, request) ==
  /\ request = Update
  /\ snapshot' = [snapshot EXCEPT !.revision = @ + 1]
  /\ Leave(t)

\* Seeded fault: the snapshot is left as it is.
AfterFailedPublishKept(target) == WithState(target)

AfterFailedPublish(target) == snapshot

\* publish() raises at once and the snapshot is put back.
RollBack(t, request) ==
  /\ request # Update /\ CanTransition(request)
  /\ snapshot' = AfterFailedPublish(request)
  /\ Leave(t)

\* publish() returns at once.
Commit(t, request) ==
  /\ request # Update /\ CanTransition(request)
  /\ snapshot' = WithState(request)
  /\ Leave(t)

\* publish() waits: the new snapshot is there for all to see, and the lock kept.
Hold(t, request) ==
  /\ request # Update /\ CanTransition(request)
  /\ snapshot' = WithState(request)
  /\ call' = [call EXCEPT ![t] = [pc |-> "publishing", change |-> Change(request)]]
  /\ lock_queue' = IF lock_queue = <<>> THEN <<t>> ELSE lock_queue

\* publish() returns, or is cancelled, which is no Exception: in either case the
\* snapshot stays as it is.
EndPublishing(t) ==
  /\ call[t].pc = "publishing"
  /\ Leave(t) /\ UNCHANGED snapshot

---------------------------------------------------------------------------

ManagerTypeOK ==
  /\ snapshot \in [state : States, sequence : Nat, revision : Nat]
  /\ snapshot.sequence <= snapshot.revision
  /\ lock_queue \in Seq(Tasks)
  /\ call \in [Tasks -> {NoCall} \cup [pc : {"queued"}, request : Requests]
                        \cup [pc : {"publishing"}, change : Changes]]
===========================================================================
