---------------------------- MODULE EventBus ----------------------------
(***************************************************************************)
(* The in-process event bus (src/rci/events/bus.py): a bounded priority    *)
(* queue, publishers that wait for room in it, workers that take items and *)
(* run the subscribed handlers one after the other, and a stop that may    *)
(* first wait until the queue has been worked off.                         *)
(*                                                                         *)
(* Everything runs in one event loop, so an action is what happens between *)
(* two points where a coroutine must wait.  What a handler does is the     *)
(* business of the module that uses this one.                              *)
(***************************************************************************)
EXTENDS Integers, Sequences, SequencesExt, FiniteSets

CONSTANTS
  Workers,      \* _worker_count worker tasks
  QueueSize,    \* queue_size
  Publishers,   \* tasks that may wait in publish()
  Events,
  Handlers      \* the handlers subscribed at first, in the order they are run

VARIABLES
  running,       \* _running
  subscribed,    \* _handlers, as far as they match: the handlers of a dispatch
  queue,         \* the items in _queue
  unfinished,    \* _queue._unfinished_tasks
  waiting,       \* publish() calls that wait for room, with their item
  next_number,   \* _sequence
  worker,        \* each worker: its item and the handlers it has yet to run
  failures,      \* _failures, as pairs of an item's number and a handler
  stop_call      \* "none", "joining" the queue, or "joined": woken by it

bus == <<running, subscribed, queue, unfinished, waiting, next_number, worker, failures,
         stop_call>>

\* EventPriority: the smaller goes first.
CRITICAL == 0
HIGH == 10
NORMAL == 20

Items == [priority : {CRITICAL, HIGH, NORMAL}, number : Nat, event : Events]

Gone == [pc |-> "gone"]
Getting == [pc |-> "getting"]
Dispatching(item, todo) == [pc |-> "dispatching", item |-> item, todo |-> todo]
Busy == {w \in Workers : worker[w].pc = "dispatching"}

Init ==
  /\ running = FALSE /\ stop_call = "none" /\ subscribed = Handlers
  /\ queue = {} /\ unfinished = 0 /\ waiting = {} /\ next_number = 0
  /\ worker = [w \in Workers |-> Gone]
  /\ failures = {}

\* start() is idempotent; its owner does not call it while its stop() runs.
Start ==
  /\ ~running /\ running' = TRUE
  /\ worker' = [w \in Workers |-> Getting]
  /\ UNCHANGED <<subscribed, queue, unfinished, waiting, next_number, failures,
                 stop_call>>

\* subscribe and unsubscribe, which leave dispatches in progress as they are.
Subscribe(h) ==
  /\ ~Contains(subscribed, h)
  /\ subscribed' = Append(subscribed, h)
  /\ UNCHANGED <<running, queue, unfinished, waiting, next_number, worker, failures,
                 stop_call>>

Unsubscribe(h) ==
  /\ Contains(subscribed, h)
  /\ subscribed' = RemoveFirst(subscribed, h)
  /\ UNCHANGED <<running, queue, unfinished, waiting, next_number, worker, failures,
                 stop_call>>

---------------------------------------------------------------------------
(* Publishing.                                                             *)

Full == Cardinality(queue) = QueueSize

Item(priority, event) ==
  [priority |-> priority, number |-> next_number, event |-> event]

Put(item) ==
  /\ ~Full
  /\ queue' = queue \cup {item}
  /\ unfinished' = unfinished + 1

\* publish(), and publish_nowait(), into a queue with room.
Publish(priority, event) ==
  /\ running
  /\ Put(Item(priority, event))
  /\ next_number' = next_number + 1
  /\ UNCHANGED <<running, subscribed, waiting, worker, failures, stop_call>>

\* publish() takes its number and then waits for room.
PublishWaits(p, priority, event) ==
  /\ running /\ Full
  /\ waiting' = waiting \cup {[by |-> p, item |-> Item(priority, event)]}
  /\ next_number' = next_number + 1
  /\ UNCHANGED <<running, subscribed, queue, unfinished, worker, failures,
                 stop_call>>

\* It goes on when there is room, whether or not the bus still runs.
PublishResumes(call) ==
  /\ call \in waiting
  /\ waiting' = waiting \ {call}
  /\ Put(call.item)
  /\ UNCHANGED <<running, subscribed, next_number, worker, failures, stop_call>>

PublishCancelled(call) ==
  /\ call \in waiting
  /\ waiting' = waiting \ {call}
  /\ UNCHANGED <<running, subscribed, queue, unfinished, next_number, worker,
                 failures, stop_call>>

\* publish_nowait() into a full queue raises; its number is spent all the same.
PublishNowaitFull ==
  /\ running /\ Full
  /\ next_number' = next_number + 1
  /\ UNCHANGED <<running, subscribed, queue, unfinished, waiting, worker, failures,
                 stop_call>>

---------------------------------------------------------------------------
(* Delivering.                                                             *)

\* Seeded fault: the newest of equal priority goes first.
BeforeNewestFirst(i, j) ==
  \/ i.priority < j.priority
  \/ i.priority = j.priority /\ i.number > j.number

\* The order of the tuples in the heap.
Before(i, j) ==
  \/ i.priority < j.priority
  \/ i.priority = j.priority /\ i.number < j.number

FirstItem == CHOOSE i \in queue : \A j \in queue \ {i} : Before(i, j)

\* An item is done, and whoever joined the queue is woken when it was the last.
TaskDone ==
  /\ unfinished' = unfinished - 1
  /\ stop_call' = IF stop_call = "joining" /\ unfinished' = 0
                  THEN "joined" ELSE stop_call

\* A dispatch runs the handlers that are subscribed when it begins.
Get(w) ==
  /\ worker[w].pc = "getting" /\ queue # {}
  /\ queue' = queue \ {FirstItem}
  /\ \/ /\ subscribed # <<>>
        /\ worker' = [worker EXCEPT ![w] = Dispatching(FirstItem, subscribed)]
        /\ UNCHANGED <<unfinished, stop_call>>
     \/ subscribed = <<>> /\ TaskDone /\ UNCHANGED worker
  /\ UNCHANGED <<running, subscribed, waiting, next_number, failures>>

\* Seeded fault: a failing handler ends the dispatch.
RemainingUnlessFailed(todo, failed) == IF failed THEN <<>> ELSE Tail(todo)

\* Handler failures are isolated.
Remaining(todo, failed) == Tail(todo)

\* The first of the handlers that w has to run returns or raises.
HandlerEnds(w, failed) ==
  LET item == worker[w].item
      remaining == Remaining(worker[w].todo, failed)
  IN /\ w \in Busy
     /\ failures' = IF failed
                    THEN failures \cup {<<item.number, Head(worker[w].todo)>>}
                    ELSE failures
     /\ worker' = [worker EXCEPT ![w] = IF remaining = <<>> THEN Getting
                                        ELSE Dispatching(item, remaining)]
     /\ IF remaining = <<>> THEN TaskDone ELSE UNCHANGED <<unfinished, stop_call>>
     /\ UNCHANGED <<running, subscribed, queue, waiting, next_number>>

---------------------------------------------------------------------------
(* stop(drain).                                                            *)

NothingLeft == unfinished = 0

\* The workers are cancelled, in the middle of a handler if they are in one.
Terminate ==
  /\ running' = FALSE /\ stop_call' = "none"
  /\ worker' = [w \in Workers |-> Gone]
  /\ unfinished' = unfinished - Cardinality(Busy)
  /\ UNCHANGED <<subscribed, queue, waiting, next_number, failures>>

StopAtOnce(drain) ==
  /\ running /\ stop_call = "none"
  /\ ~drain \/ NothingLeft
  /\ Terminate

StopJoins ==
  /\ running /\ stop_call = "none" /\ ~NothingLeft
  /\ stop_call' = "joining"
  /\ UNCHANGED <<running, subscribed, queue, unfinished, waiting, next_number, worker,
                 failures>>

\* Between the wake-up and this step other tasks may have published again.
StopGoesOn == stop_call = "joined" /\ Terminate

---------------------------------------------------------------------------

IsOrderOfHandlers(s) == IsInjective(s) /\ ToSet(s) \subseteq ToSet(Handlers)

BusTypeOK ==
  /\ running \in BOOLEAN /\ stop_call \in {"none", "joining", "joined"}
  /\ queue \in SUBSET Items /\ Cardinality(queue) <= QueueSize
  /\ waiting \in SUBSET [by : Publishers, item : Items]
  /\ next_number \in Nat
  /\ IsOrderOfHandlers(subscribed)
  /\ \A w \in Workers :
       \/ worker[w] \in {Gone, Getting}
       \/ /\ worker[w] = Dispatching(worker[w].item, worker[w].todo)
          /\ worker[w].item \in Items
          /\ worker[w].todo # <<>> /\ IsOrderOfHandlers(worker[w].todo)
  /\ \A failure \in failures :
       failure[1] \in Nat /\ failure[2] \in ToSet(Handlers)
  /\ unfinished = Cardinality(queue) + Cardinality(Busy)
===========================================================================
