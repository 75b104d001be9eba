-------------------------- MODULE HealthMonitor --------------------------
(***************************************************************************)
(* Health monitoring (src/rci/health/registry.py, monitor.py): a task asks *)
(* every registered provider for its status, at intervals, and publishes   *)
(* what changed on the event bus; anyone may call run_once() besides it.   *)
(*                                                                         *)
(* Everything runs in one event loop.  A run keeps the loop from the last  *)
(* answer on until it waits for room in the queue or ends.  Providers      *)
(* answer, raise, or do not come back; the bus is stopped and started.     *)
(***************************************************************************)
EXTENDS Integers, Sequences, FiniteSets, SequencesExt, FiniteSetsExt

CONSTANTS
  Workers, QueueSize,     \* see EventBus
  Components, Critical,   \* the providers' names; those registered as critical
  Conditions,             \* those a provider may be in
  Task, Callers,          \* _task, and other tasks that call run_once()
  MaxIncidents            \* bound on changed conditions, registrations, stops,
                          \* calls, cancellations and failing handlers together

VARIABLES
  running, subscribed, queue, unfinished, waiting, next_number, worker, failures,
  stop_call,              \* see EventBus
  registered,             \* _providers, in the order of registration
  condition,              \* what the providers would say
  task,                   \* _task: "none", "alive", or "dead" after an exception
  run,                    \* the calls of run_once in progress
  previous, latest,       \* _previous (UNKNOWN: no entry) and _latest
  accepted,               \* the items of each component the queue accepted (history)
  believed,               \* the status a subscriber has of every component
  overlapped,             \* two runs were in progress at once (history)
  missed,                 \* the subscriber failed or was cut short (history)
  incidents

Statuses == {"HEALTHY", "DEGRADED", "FAILED", "UNKNOWN"}
Changes == [component : Components, from : Statuses, to : Statuses]
Runners == {Task} \cup Callers

Bus == INSTANCE EventBus
         WITH Publishers <- Runners, Events <- Changes, Handlers <- <<"subscriber">>

bus == <<running, subscribed, queue, unfinished, waiting, next_number, worker,
         failures, stop_call>>
monitor == <<registered, condition, task, run, previous, latest>>
history == <<accepted, believed, overlapped, missed>>
monitoring == <<bus, monitor, history, incidents>>

ASSUME HealthAssumption ==
  /\ QueueSize \in Nat \ {0} /\ IsFiniteSet(Workers) /\ Workers # {}
  /\ IsFiniteSet(Components) /\ Critical \subseteq Components /\ Task \notin Callers
  /\ "HEALTHY" \in Conditions /\ Conditions \subseteq Statuses \cup {"raises", "hangs"}
  /\ MaxIncidents \in Nat

NoRun == [pc |-> "none"]
Run(pc, left, found) == [pc |-> pc, left |-> left, found |-> found]
NoReport == [overall |-> "none"]

MonitorInit ==
  /\ Bus!Init
  /\ registered \in SetToSeqs(Components)
  /\ condition = [c \in Components |-> "HEALTHY"]
  /\ task = "none" /\ run = [r \in Runners |-> NoRun]
  /\ previous = [c \in Components |-> "UNKNOWN"] /\ latest = NoReport
  /\ accepted = [c \in Components |-> <<>>] /\ believed = previous
  /\ overlapped = FALSE /\ missed = FALSE
  /\ incidents = 0

Incident == incidents < MaxIncidents /\ incidents' = incidents + 1

---------------------------------------------------------------------------
(* The registry.                                                           *)

\* register() and unregister(); neither touches what the monitor remembers.
Register(c) ==
  /\ c \notin Range(registered) /\ Incident
  /\ registered' = Append(registered, c)
  /\ UNCHANGED <<bus, condition, task, run, previous, latest, history>>

Unregister(c) ==
  /\ c \in Range(registered) /\ Incident
  /\ registered' = RemoveFirst(registered, c)
  /\ UNCHANGED <<bus, condition, task, run, previous, latest, history>>

\* What _check_one makes of a provider's answer or exception.
Status(c) == IF condition[c] = "raises" THEN "FAILED" ELSE condition[c]

aggregate_health(found) ==
  IF DOMAIN found = {} THEN "UNKNOWN"
  ELSE IF \E c \in DOMAIN found \cap Critical : found[c] = "FAILED" THEN "FAILED"
  ELSE IF \E c \in DOMAIN found : found[c] # "HEALTHY" THEN "DEGRADED"
  ELSE "HEALTHY"

---------------------------------------------------------------------------
(* run_once.                                                               *)

\* check_all() asks those that are registered now.
BeginRun(r) ==
  /\ run[r] = NoRun
  /\ run' = [run EXCEPT ![r] = Run("checking", registered, <<>>)]
  /\ overlapped' = (overlapped \/ \E other \in Runners : run[other] # NoRun)
  /\ UNCHANGED <<bus, registered, condition, task, previous, latest,
                 accepted, believed, missed>>

Unanswered(r) == Range(run[r].left) \ DOMAIN run[r].found

With(found, c, status) ==
  [x \in DOMAIN found \cup {c} |-> IF x = c THEN status ELSE found[x]]

Answer(r, c) ==
  /\ run[r].pc = "checking" /\ c \in Unanswered(r)
  /\ condition[c] # "hangs"
  /\ run' = [run EXCEPT ![r] = Run("checking", @.left, With(@.found, c, Status(c)))]
  /\ UNCHANGED <<bus, registered, condition, task, previous, latest, history, incidents>>

Waits(r) == \E p \in waiting : p.by = r

\* r goes on after the last answer, or after it got room.
Goes(r) ==
  \/ run[r].pc = "checking" /\ Unanswered(r) = {}
  \/ run[r].pc = "announcing" /\ ~Waits(r)

\* Seeded fault: only a failure counts as a change.
IsChangedFailed(r, i) ==
  /\ run[r].found[run[r].left[i]] # previous[run[r].left[i]]
  /\ run[r].found[run[r].left[i]] = "FAILED"

IsChanged(r, i) == run[r].found[run[r].left[i]] # previous[run[r].left[i]]

\* The components it has yet to compare, from the first that changed on.
Left(r) ==
  LET changed == {i \in DOMAIN run[r].left : IsChanged(r, i)}
  IN IF changed = {} THEN <<>> ELSE SubSeq(run[r].left, Min(changed), Len(run[r].left))

Change(r) ==
  LET c == Head(Left(r))
  IN [component |-> c, from |-> previous[c], to |-> run[r].found[c]]

Priority(change) ==
  IF change.component \in Critical /\ change.to = "FAILED"
  THEN Bus!CRITICAL ELSE Bus!NORMAL

\* Seeded fault: the status is remembered before there is room for its event.
RememberedEarly(change) == [previous EXCEPT ![change.component] = change.to]

Remembered(change) == [previous EXCEPT ![change.component] = change.to]

\* What is remembered while the event waits for room: nothing yet.
RememberedMeanwhile(change) == previous

Accepting(item) == [accepted EXCEPT ![item.event.component] = Append(@, item)]

Publish(r) ==
  /\ Goes(r) /\ Left(r) # <<>>
  /\ Bus!Publish(Priority(Change(r)), Change(r))
  /\ accepted' = Accepting(Bus!Item(Priority(Change(r)), Change(r)))
  /\ previous' = Remembered(Change(r))
  /\ run' = [run EXCEPT ![r] = Run("announcing", Tail(Left(r)), @.found)]
  /\ UNCHANGED <<registered, condition, task, latest, believed, overlapped, missed,
                 incidents>>

PublishWaits(r) ==
  /\ Goes(r) /\ Left(r) # <<>>
  /\ Bus!PublishWaits(r, Priority(Change(r)), Change(r))
  /\ previous' = RememberedMeanwhile(Change(r))
  /\ run' = [run EXCEPT ![r] = Run("announcing", Tail(Left(r)), @.found)]
  /\ UNCHANGED <<registered, condition, task, latest, history, incidents>>

ResumePublish(r) ==
  \E p \in waiting :
    /\ p.by = r /\ Bus!PublishResumes(p)
    /\ accepted' = Accepting(p.item)
    /\ previous' = Remembered(p.item.event)
    /\ UNCHANGED <<registered, condition, task, run, latest, believed, overlapped,
                   missed, incidents>>

\* publish() on a stopped bus raises; nothing catches it in the monitor's task.
PublishRaises(r) ==
  /\ Goes(r) /\ Left(r) # <<>> /\ ~running
  /\ run' = [run EXCEPT ![r] = NoRun]
  /\ task' = IF r = Task THEN "dead" ELSE task
  /\ UNCHANGED <<bus, registered, condition, previous, latest, history, incidents>>

EndRun(r) ==
  /\ Goes(r) /\ Left(r) = <<>>
  /\ latest' = [overall |-> aggregate_health(run[r].found), components |-> run[r].found]
  /\ run' = [run EXCEPT ![r] = NoRun]
  /\ UNCHANGED <<bus, registered, condition, task, previous, history, incidents>>

---------------------------------------------------------------------------
(* start, stop, and the tasks that call run_once.                          *)

start ==
  /\ task # "alive" /\ task' = "alive"
  /\ UNCHANGED <<bus, registered, condition, run, previous, latest, history, incidents>>

\* A run is cancelled where it waits, its item with it.
Cancel(r) ==
  /\ run' = [run EXCEPT ![r] = NoRun]
  /\ IF Waits(r) THEN \E p \in waiting : p.by = r /\ Bus!PublishCancelled(p)
                 ELSE UNCHANGED bus
  /\ UNCHANGED <<registered, condition, previous, latest, history>>

stop == task # "none" /\ Incident /\ Cancel(Task) /\ task' = "none"

CallerIsCancelled(r) == run[r] # NoRun /\ Incident /\ Cancel(r) /\ UNCHANGED task

\* _run_loop, at once and after every interval.
TaskRuns == task = "alive" /\ BeginRun(Task) /\ UNCHANGED incidents

CallerRuns(r) == Incident /\ BeginRun(r)

---------------------------------------------------------------------------
(* The rest of the system.                                                 *)

ConditionChanges(c) ==
  /\ Incident
  /\ \E x \in Conditions \ {condition[c]} : condition' = [condition EXCEPT ![c] = x]
  /\ UNCHANGED <<bus, registered, task, run, previous, latest, history>>

WorkerGets(w) == Bus!Get(w) /\ UNCHANGED <<monitor, history, incidents>>

SubscriberEnds(w) ==
  /\ w \in Bus!Busy
  /\ \E failed \in BOOLEAN :
       /\ Bus!HandlerEnds(w, failed)
       /\ missed' = (missed \/ failed)
       /\ IF failed THEN Incident /\ UNCHANGED believed
          ELSE LET change == worker[w].item.event
               IN /\ believed' = [believed EXCEPT ![change.component] = change.to]
                  /\ UNCHANGED incidents
  /\ UNCHANGED <<monitor, accepted, overlapped>>

StartBus == Bus!Start /\ UNCHANGED <<monitor, history, incidents>>

StopBus(drain) ==
  /\ Incident
  /\ \/ Bus!StopAtOnce(drain) /\ missed' = (missed \/ Bus!Busy # {})
     \/ drain /\ Bus!StopJoins /\ UNCHANGED missed
  /\ UNCHANGED <<monitor, accepted, believed, overlapped>>

StopBusGoesOn ==
  /\ Bus!StopGoesOn /\ missed' = (missed \/ Bus!Busy # {})
  /\ UNCHANGED <<monitor, accepted, believed, overlapped, incidents>>

Continues(r) == Publish(r) \/ PublishWaits(r) \/ PublishRaises(r) \/ EndRun(r)

\* In the middle of its announcements a run does not let go of the event loop.
HoldsLoop(r) == run[r].pc = "announcing" /\ ~Waits(r)
LoopFree == \A r \in Runners : ~HoldsLoop(r)

MonitorNext ==
  \/ \E r \in Runners : (HoldsLoop(r) \/ LoopFree) /\ Continues(r)
  \/ LoopFree /\ \/ \E r \in Runners : ResumePublish(r) \/ \E c \in Components : Answer(r, c)
                 \/ start \/ stop \/ TaskRuns
                 \/ \E r \in Callers : CallerRuns(r) \/ CallerIsCancelled(r)
                 \/ \E c \in Components : \/ Register(c) \/ Unregister(c)
                                          \/ ConditionChanges(c)
                 \/ \E w \in Workers : WorkerGets(w) \/ SubscriberEnds(w)
                 \/ StartBus \/ StopBusGoesOn \/ \E drain \in BOOLEAN : StopBus(drain)

MonitorSpec == MonitorInit /\ [][MonitorNext]_monitoring

\* The event loop resumes every task that can go on; subscribers come back, and
\* so do providers unless their condition is that they hang.
Fairness ==
  /\ WF_monitoring(LoopFree /\ TaskRuns)
  /\ \A r \in Runners :
       /\ WF_monitoring((HoldsLoop(r) \/ LoopFree) /\ Continues(r))
       /\ WF_monitoring(LoopFree /\ ResumePublish(r))
       /\ \A c \in Components : WF_monitoring(LoopFree /\ Answer(r, c))
  /\ \A w \in Workers : WF_monitoring(LoopFree /\ (WorkerGets(w) \/ SubscriberEnds(w)))

FairMonitorSpec == MonitorSpec /\ Fairness

---------------------------------------------------------------------------
(* Properties.                                                             *)

MonitorTypeOK ==
  /\ Bus!BusTypeOK
  /\ IsInjective(registered) /\ Range(registered) \subseteq Components
  /\ condition \in [Components -> Conditions]
  /\ task \in {"none", "alive", "dead"} /\ (run[Task] # NoRun => task = "alive")
  /\ \A r \in Runners :
       /\ Cardinality({p \in waiting : p.by = r}) <= 1
       /\ Waits(r) => run[r].pc = "announcing"
       /\ run[r].pc = "announcing" => Range(run[r].left) \subseteq DOMAIN run[r].found
  /\ {previous, believed} \subseteq [Components -> Statuses]

LastAccepted(c) ==
  IF accepted[c] = <<>> THEN "UNKNOWN" ELSE accepted[c][Len(accepted[c])].event.to

\* What the monitor compares the next answer with is what it last announced,
\* whoever runs it, and however runs overlap, are cancelled or find the bus
\* stopped (monitor.py:44-62: a status is stored only after publish() returned).
PreviousWasAnnounced == \A c \in Components : previous[c] = LastAccepted(c)

\* monitor.py:16: the monitor publishes "only component status transitions".  As
\* long as runs do not overlap, the events of a component lead from UNKNOWN to
\* its last status without a gap or a repetition.
OnlyTransitions ==
  ~overlapped =>
    \A c \in Components : \A i \in 1 .. Len(accepted[c]) :
      LET change == accepted[c][i].event
      IN /\ change.from # change.to
         /\ change.from = IF i = 1 THEN "UNKNOWN" ELSE accepted[c][i - 1].event.to

Announced(c, s) == \E i \in 1 .. Len(accepted[c]) : accepted[c][i].event.to = s

\* registry.py:79-83.  Whoever reads `latest` sees nothing that was not announced:
\* a failed system has an event of CRITICAL priority for a critical component,
\* and a healthy one had every component of the report announced as healthy.
LatestWasAnnounced ==
  latest # NoReport =>
    /\ latest.overall = "HEALTHY" =>
         /\ DOMAIN latest.components # {}
         /\ \A c \in DOMAIN latest.components : Announced(c, "HEALTHY")
    /\ latest.overall = "FAILED" <=>
         \E c \in DOMAIN latest.components \cap Critical :
           /\ latest.components[c] = "FAILED" /\ Announced(c, "FAILED")
           /\ \E i \in 1 .. Len(accepted[c]) : accepted[c][i].priority = Bus!CRITICAL

\* Everything the monitor remembers and reports was announced on the bus before,
\* however runs overlap and whatever becomes of them; each transition once, unless
\* they do overlap.
KnowsWhatItAnnounced ==
  MonitorTypeOK /\ PreviousWasAnnounced /\ OnlyTransitions /\ LatestWasAnnounced

\* When the queue has been worked off, a subscriber that missed nothing knows the
\* last status of every component, with one exception: the event of a critical
\* failure goes to the front, and one of an earlier status that was still queued
\* is then handled after it.
StaleOnlyIfOvertaken ==
  queue = {} /\ Bus!Busy = {} /\ ~missed /\ ~overlapped /\ Cardinality(Workers) = 1 =>
    \A c \in Components :
      believed[c] # previous[c] => c \in Critical /\ previous[c] = "FAILED"

\* What lasts is announced: if the monitor and the bus run on, no provider hangs
\* and a registered component keeps its status, the monitor comes to remember
\* (and by PreviousWasAnnounced to have announced) just that status for good.
LastingStatusIsAnnounced ==
  \A c \in Components : \A s \in Statuses :
    <>[](/\ task = "alive" /\ running
         /\ c \in Range(registered) /\ Status(c) = s
         /\ \A other \in Components : condition[other] # "hangs")
      => <>[](previous[c] = s)
===========================================================================
