-------------------------- MODULE RuntimeEvents --------------------------
(***************************************************************************)
(* The runtime's record of what happened: the state manager announces its  *)
(* transitions on the event bus, whose workers hand every event to an      *)
(* observer and to the audit bridge (src/rci/audit/bridge.py), which       *)
(* appends it to the audit log.  Other code publishes notes on the bus and *)
(* appends entries of its own to the log.  Observer and bridge subscribe   *)
(* and unsubscribe while all this goes on.                                 *)
(*                                                                         *)
(* Bus, manager and log share the event loop; tasks are cancelled, writes  *)
(* fail, and the bus is stopped, with or without draining, and started     *)
(* again.                                                                  *)
(***************************************************************************)
EXTENDS Integers, Sequences, SequencesExt, FiniteSets

CONSTANTS
  Workers, QueueSize,     \* see EventBus
  Tasks, Targets,         \* see StateManager; the states asked for
  Genesis, Torn,          \* see AuditLog
  Clerk,                  \* whoever appends to the log directly
  MaxNumber,              \* bound on the number at which a transition begins
  MaxIncidents            \* bound on stops, faults, notes, component updates,
                          \* subscriptions and the clerk's entries together

VARIABLES
  running, subscribed, queue, unfinished, waiting, next_number, worker, failures,
  stop_call,                                 \* see EventBus
  snapshot, lock_queue, call,                \* see StateManager
  memory, file, appends, thread, orphans,    \* see AuditLog
  announced,      \* the change events that were accepted, in order (history)
  cut_short,      \* a transition was cancelled while it published (history)
  damaged,        \* what left a line in the file that was not accepted: an append
                  \* "cut short" or one that "failed" (history)
  due,            \* numbers of the events that a call of stop() that joins was
                  \* for, and that are dispatched to the bridge (history)
  incidents       \* how many there have been

Audit == "audit"
Observer == "observer"
\* Any other event, written like a change of nothing.
Note == [from |-> "none", to |-> "none"]

SM == INSTANCE StateManager
Bus == INSTANCE EventBus
         WITH Publishers <- Tasks, Events <- SM!Changes \cup {Note},
              Handlers <- <<Observer, Audit>>

\* What the clerk appends, and what an earlier process left, has no number of
\* the bus.
Direct(n) == [priority |-> Bus!NORMAL, number |-> -n, event |-> Note]
Earlier == [sequence |-> 0, event |-> Direct(1), previous |-> Genesis]

Log == INSTANCE AuditLog
         WITH Appenders <- Workers \cup {Clerk},
              Audited <- Bus!Items \cup {Direct(n) : n \in 1 .. MaxIncidents + 1}

bus == <<running, subscribed, queue, unfinished, waiting, next_number, worker,
         failures, stop_call>>
manager == <<snapshot, lock_queue, call>>
audit == <<memory, file, appends, thread, orphans>>
history == <<announced, cut_short, damaged, due>>
vars == <<bus, manager, audit, history, incidents>>

ASSUME EventsAssumption ==
  /\ QueueSize \in Nat \ {0} /\ IsFiniteSet(Workers) /\ Workers # {}
  /\ Clerk \notin Workers /\ Targets \subseteq SM!States
  /\ Torn \notin Log!Entries /\ Genesis \notin Log!Entries
  /\ {MaxNumber, MaxIncidents} \subseteq Nat

Init ==
  /\ Bus!Init /\ SM!Init /\ Log!Init(<<Earlier>>)
  /\ announced = <<>> /\ cut_short = FALSE /\ damaged = {} /\ due = {}
  /\ incidents = 0

Incident == incidents < MaxIncidents /\ incidents' = incidents + 1

---------------------------------------------------------------------------
(* Transitions.                                                            *)

Priority(target) == IF target \in {"FAULT", "ESTOP"} THEN Bus!CRITICAL ELSE Bus!HIGH

\* The body of a call under the lock, to its end or to its first wait.
Perform(t, request) ==
  /\ \/ /\ SM!Refuse(t, request) \/ SM!ReplaceComponent(t, request)
        /\ UNCHANGED <<bus, announced>>
     \/ /\ SM!RollBack(t, request) /\ ~running
        /\ UNCHANGED <<bus, announced>>
     \/ /\ SM!Commit(t, request)
        /\ Bus!Publish(Priority(request), SM!Change(request))
        /\ announced' = Append(announced, SM!Change(request))
     \/ /\ SM!Hold(t, request)
        /\ Bus!PublishWaits(t, Priority(request), SM!Change(request))
        /\ UNCHANGED announced
  /\ UNCHANGED <<audit, cut_short, damaged, due>>

\* The bounds are on the calls that begin; those in the queue still go on.
Allowed(request) ==
  IF request = SM!Update THEN Incident
  ELSE next_number < MaxNumber /\ UNCHANGED incidents

\* transition_system and update_*.
Call(t, request) ==
  /\ call[t] = SM!NoCall /\ Allowed(request)
  /\ \/ lock_queue = <<>> /\ Perform(t, request)
     \/ /\ SM!Queue(t, request)
        /\ UNCHANGED <<bus, audit, history>>

ObtainLock(t) ==
  /\ call[t].pc = "queued" /\ Head(lock_queue) = t
  /\ Perform(t, call[t].request)
  /\ UNCHANGED incidents

ResumePublish(t) ==
  /\ SM!EndPublishing(t)
  /\ \E p \in waiting : p.by = t /\ Bus!PublishResumes(p)
  /\ announced' = Append(announced, call[t].change)
  /\ UNCHANGED <<audit, cut_short, damaged, due, incidents>>

\* A caller is cancelled while it waits for room or for the lock.
CancelPublish(t) ==
  /\ SM!EndPublishing(t) /\ Incident
  /\ \E p \in waiting : p.by = t /\ Bus!PublishCancelled(p)
  /\ cut_short' = TRUE
  /\ UNCHANGED <<audit, announced, damaged, due>>

CancelQueued(t) ==
  /\ call[t].pc = "queued" /\ Incident
  /\ SM!Leave(t)
  /\ UNCHANGED <<snapshot, bus, audit, history>>

\* Other code publishes without waiting.
PublishNote ==
  /\ Incident
  /\ Bus!Publish(Bus!NORMAL, Note) \/ Bus!PublishNowaitFull
  /\ UNCHANGED <<manager, audit, history>>

---------------------------------------------------------------------------
(* Workers and the audit bridge.                                           *)

\* When the bridge is the next of the handlers w has to run, it appends.
BridgeBegins(w, todo, item) ==
  IF todo # <<>> /\ Head(todo) = Audit THEN Log!BeginAppend(w, item) ELSE UNCHANGED audit

WorkerGets(w) ==
  /\ Bus!Get(w)
  /\ BridgeBegins(w, subscribed, Bus!FirstItem)
  /\ due' = IF Contains(subscribed, Audit) THEN due ELSE due \ {Bus!FirstItem.number}
  /\ UNCHANGED <<manager, announced, cut_short, damaged, incidents>>

Running(w, handler) == w \in Bus!Busy /\ Head(worker[w].todo) = handler

\* The observer returns or raises (external), and the audit bridge may be next.
ObserverEnds(w) ==
  /\ Running(w, Observer)
  /\ \E failed \in BOOLEAN :
       /\ Bus!HandlerEnds(w, failed)
       /\ IF failed THEN Incident ELSE UNCHANGED incidents
       /\ BridgeBegins(w, Bus!Remaining(worker[w].todo, failed), worker[w].item)
  /\ UNCHANGED <<manager, history>>

BridgeAppended(w) ==
  /\ Running(w, Audit)
  /\ Log!Accept(w) /\ Bus!HandlerEnds(w, FALSE)
  /\ UNCHANGED <<manager, history, incidents>>

BridgeFailed(w) ==
  /\ Running(w, Audit)
  /\ Log!Raise(w) /\ Bus!HandlerEnds(w, TRUE)
  /\ UNCHANGED <<manager, history, incidents>>

---------------------------------------------------------------------------
(* The log.                                                                *)

ClerkAppends ==
  /\ \A i \in 1 .. Len(appends) : appends[i].by # Clerk
  /\ Incident
  /\ Log!BeginAppend(Clerk, Direct(incidents + 2))
  /\ UNCHANGED <<bus, manager, history>>

ClerkResumes ==
  /\ Log!Accept(Clerk) \/ Log!Raise(Clerk)
  /\ UNCHANGED <<bus, manager, history, incidents>>

LogStep ==
  /\ Log!ObtainLock \/ Log!WriteLine
  /\ UNCHANGED <<bus, manager, history, incidents>>

WriteFails ==
  /\ Log!WriteFails /\ Incident
  /\ damaged' = IF file' = file THEN damaged ELSE damaged \cup {"failed"}
  /\ UNCHANGED <<bus, manager, announced, cut_short, due>>

OrphanEnds ==
  /\ \E line \in orphans : Log!OrphanEnds(line)
  /\ UNCHANGED <<bus, manager, history, incidents>>

---------------------------------------------------------------------------
(* Starting and stopping the bus.                                          *)

Start ==
  /\ Bus!Start
  /\ UNCHANGED <<manager, audit, history, incidents>>

CutLoose == {w \in Workers : Running(w, Audit)}

\* The workers are cancelled with the append they are in.
CancelWorkers ==
  /\ Log!Abort(CutLoose)
  /\ damaged' = IF appends # <<>> /\ Head(appends).by \in CutLoose
                THEN damaged \cup {"cut short"} ELSE damaged
  /\ due' = {}
  /\ UNCHANGED <<manager, announced, cut_short>>

\* EventAuditBridge.start and stop, and the observer's subscription.
Resubscribes(h) ==
  /\ Incident
  /\ Bus!Subscribe(h) \/ Bus!Unsubscribe(h)
  /\ UNCHANGED <<manager, audit, history>>

\* What the bridge has before it
Accepted ==
  {i.number : i \in queue}
    \cup {worker[w].item.number : w \in {v \in Bus!Busy : Contains(worker[v].todo, Audit)}}

Stop(drain) ==
  /\ Incident
  /\ \/ Bus!StopAtOnce(drain) /\ CancelWorkers
     \/ /\ drain /\ Bus!StopJoins /\ due' = Accepted
        /\ UNCHANGED <<manager, audit, announced, cut_short, damaged>>

StopGoesOn == Bus!StopGoesOn /\ CancelWorkers /\ UNCHANGED incidents

Next ==
  \/ \E t \in Tasks : \/ \E request \in Targets \cup {SM!Update} : Call(t, request)
                      \/ ObtainLock(t) \/ ResumePublish(t)
                      \/ CancelPublish(t) \/ CancelQueued(t)
  \/ \E w \in Workers : \/ WorkerGets(w) \/ ObserverEnds(w)
                        \/ BridgeAppended(w) \/ BridgeFailed(w)
  \/ PublishNote \/ ClerkAppends \/ ClerkResumes \/ LogStep \/ WriteFails \/ OrphanEnds
  \/ \E h \in {Observer, Audit} : Resubscribes(h)
  \/ Start \/ StopGoesOn \/ \E drain \in BOOLEAN : Stop(drain)

Spec == Init /\ [][Next]_vars

\* The event loop resumes every task that can go on, threads and handlers end.
Fairness ==
  /\ \A t \in Tasks : WF_vars(ObtainLock(t) \/ ResumePublish(t))
  /\ \A w \in Workers : WF_vars(\/ WorkerGets(w) \/ ObserverEnds(w)
                                \/ BridgeAppended(w) \/ BridgeFailed(w))
  /\ WF_vars(ClerkResumes \/ LogStep)

FairSpec == Spec /\ Fairness

---------------------------------------------------------------------------
(* Properties.                                                             *)

TypeOK ==
  /\ Bus!BusTypeOK /\ SM!ManagerTypeOK /\ Log!AuditTypeOK
  /\ announced \in Seq(SM!Changes) /\ cut_short \in BOOLEAN
  /\ damaged \subseteq {"cut short", "failed"} /\ due \subseteq 0 .. next_number - 1

LastAnnounced ==
  IF announced = <<>> THEN "BOOT" ELSE announced[Len(announced)].to

\* docs/architecture/state-machine.md:22: a transition updates the snapshot and
\* publishes its event together.  The accepted events lead without a gap from
\* BOOT to the state in the snapshot, or to the one before it while its event
\* waits for room.  (A caller cancelled while it waits leaves a gap.)
EveryChangeIsAnnounced ==
  ~cut_short =>
    /\ \A i \in 1 .. Len(announced) :
         announced[i].from = IF i = 1 THEN "BOOT" ELSE announced[i - 1].to
    /\ \/ snapshot.state = LastAnnounced
       \/ \E t \in Tasks : /\ call[t].pc = "publishing"
                           /\ call[t].change = [from |-> LastAnnounced,
                                                to |-> snapshot.state]

\* The state of every component is sound, and the manager's is the announced one.
StateIsAnnounced == TypeOK /\ EveryChangeIsAnnounced

Recorded(number) ==
  \/ \E i \in 1 .. Len(memory) : memory[i].event.number = number
  \/ <<number, Audit>> \in failures

\* stop() delivers "all events accepted before stop" (its docstring): when a
\* draining stop is woken, each of them is in the audit log, or on record as one
\* that could not be written, though the observer may have failed on it or left,
\* and though the bridge may have left, as long as it was there when the event
\* was dispatched.
DrainRecordsEverything ==
  stop_call = "joined" => \A n \in due : Recorded(n)

\* docs/architecture/event-system.md:9: one worker, deterministic order.  No
\* event is audited twice, and events of one priority in the order in which
\* they were published.
AuditedInOrder ==
  Cardinality(Workers) = 1 =>
    \A i, j \in 1 .. Len(memory) :
      i < j => LET a == memory[i].event
                   b == memory[j].event
               IN a # b /\ (a.priority = b.priority /\ a.number >= 0 /\ b.number >= 0
                              => a.number < b.number)

\* The audit log has everything that a draining stop was to wait for, once and in
\* order.
AuditIsComplete == DrainRecordsEverything /\ AuditedInOrder

\* docs/architecture/health-and-audit.md:13: a record is on disk before it is
\* accepted, and "if persistence fails" nothing pretends that it was audited.
AcceptedIsDurable ==
  /\ Log!Verifies(memory)
  /\ \A i \in 1 .. Len(memory) : \E j \in i .. Len(file) : file[j] = memory[i]

\* Unless an append was cut short or failed halfway, a new process can load the
\* file at any time, and finds all that was accepted and at most the entry that
\* was being written.
FileReloads ==
  damaged = {} => /\ Log!Verifies(file)
                  /\ Len(file) <= Len(memory) + 1
                  /\ SubSeq(file, 1, Len(memory)) = memory

\* Memory and file agree: what is accepted is on disk, and what is on disk loads.
AuditIsOnDisk == AcceptedIsDurable /\ FileReloads

\* docs/architecture/health-and-audit.md:11: "Every entry includes a monotonically
\* increasing sequence".  If only no write fails, the file is numbered upwards.
FileIsNumberedUpwards ==
  "failed" \notin damaged =>
    \A i \in 1 .. Len(file) - 1 : file[i].sequence < file[i + 1].sequence

\* A caller of the manager is not blocked for ever while the bus runs.
TransitionsEnd ==
  \A t \in Tasks : call[t].pc # "idle" ~> (call[t].pc = "idle" \/ ~running)
===========================================================================
