------------------------------ MODULE EventAsync ------------------------------
(***************************************************************************)
(* Post and publish of events to registered event handlers                 *)
(* (libs/event/event_async.c), where the handler function is the one every *)
(* active object registers, am_ao_event_handler_unsafe (libs/ao/ao.c): it  *)
(* pushes the event into the handler's queue.                              *)
(*                                                                         *)
(* am_event_async_publish does not hold the critical section over the      *)
(* whole delivery: it counts a reference, takes a snapshot of the          *)
(* subscribers, enters the section anew for each of them, and drops its    *)
(* reference.  Each of these is an action, so that handlers run, publish   *)
(* themselves, subscribe, unsubscribe and unregister in between.           *)
(* A handler's identifier is its priority; every event has its own ID.     *)
(***************************************************************************)
EXTENDS EventDeque, EventRef, FiniteSets

CONSTANTS
  Publisher,     \* threads that allocate, post and publish
  NHandlers,     \* handler identifiers 0 .. NHandlers - 1, each with a thread
  Event,         \* static and dynamic events
  NoEvent,       \* NULL
  Topics,        \* the events that are subscribed to
  Forwarded,     \* the events handlers publish on while they handle them
  Lifo,          \* policy.lifo of posts
  Margins,       \* policy.margin of posts and of publishes of static events
  CountedMargins \* policy.margin of publishes of dynamic events

Handler == 0 .. NHandlers - 1
Nobody == NHandlers      \* AM_EVENT_PUBLISHER_ID_NONE
Thread == Publisher \cup Handler

ASSUME EventAsyncAssumption ==
  /\ NHandlers \in Nat \ {0}
  /\ Publisher \cap Handler = {}
  /\ Topics \subseteq Event /\ Forwarded \subseteq Event
  /\ Lifo \subseteq BOOLEAN
  /\ Margins \subseteq 0 .. Capacity - 1
  /\ CountedMargins \subseteq 0 .. Capacity - 1
  /\ Dynamic \subseteq Event
  /\ NoEvent \notin Event

VARIABLES
  queue,       \* the handlers' event queues
  heap,        \* the dynamic events
  sub,         \* sub[e]: the handlers subscribed to e
  registered,  \* the handlers whose fn is not NULL
  owned,       \* owned[p]: the event publisher p allocated and may still use
  cur,         \* cur[h]: the event handler h popped and has not released yet
  pc,          \* where a thread is in publish or in its handler
  arg,         \* the arguments of the publish in progress
  todo,        \* the subscribers it has not delivered to yet
  halted       \* an AM_ASSERT failed

vars == <<queue, heap, sub, registered, owned, cur, pc, arg, todo, halted>>

pubVars == <<arg, todo>>

NoArg == [event |-> NoEvent, exclude |-> Nobody, margin |-> 0]

Init ==
  /\ queue = [h \in Handler |-> <<>>]
  /\ heap = HeapInit
  /\ sub = [e \in Event |-> {}]
  /\ registered = {}
  /\ owned = [p \in Publisher |-> NoEvent]
  /\ cur = [h \in Handler |-> NoEvent]
  /\ pc = [t \in Thread |-> "idle"]
  /\ arg = [t \in Thread |-> NoArg]
  /\ todo = [t \in Thread |-> {}]
  /\ halted = FALSE

-----------------------------------------------------------------------------
(* Handlers come, go and choose what they want to hear of.                 *)

\* am_event_async_register_with_id
Register(h) ==
  /\ pc[h] = "idle" /\ h \notin registered
  /\ registered' = registered \cup {h}
  /\ UNCHANGED <<queue, heap, sub, owned, cur, pc, pubVars, halted>>

Subscribe(h, e) ==
  /\ pc[h] = "idle" /\ h \in registered
  /\ sub' = [sub EXCEPT ![e] = @ \cup {h}]
  /\ UNCHANGED <<queue, heap, registered, owned, cur, pc, pubVars, halted>>

Unsubscribe(h, e) ==
  /\ pc[h] = "idle" /\ h \in registered
  /\ sub' = [sub EXCEPT ![e] = @ \ {h}]
  /\ UNCHANGED <<queue, heap, registered, owned, cur, pc, pubVars, halted>>

UnsubscribeAll(h) ==
  /\ pc[h] = "idle" /\ h \in registered
  /\ sub' = [e \in Event |-> sub[e] \ {h}]
  /\ UNCHANGED <<queue, heap, registered, owned, cur, pc, pubVars, halted>>

\* Mutant: the subscriptions survive.
UnregisterOnly(h) ==
  /\ pc[h] = "idle" /\ h \in registered
  /\ registered' = registered \ {h}
  /\ UNCHANGED <<queue, heap, sub, owned, cur, pc, pubVars, halted>>

Unregister(h) ==
  /\ pc[h] = "idle" /\ h \in registered
  /\ sub' = [e \in Event |-> sub[e] \ {h}]
  /\ registered' = registered \ {h}
  /\ UNCHANGED <<queue, heap, owned, cur, pc, pubVars, halted>>

-----------------------------------------------------------------------------
(* handler->fn, called inside the critical section of its caller           *)

Accept(h, e, lifo, margin) ==
  /\ ~NoRoom(queue[h], margin) /\ CanCount(heap, e)
  /\ heap' = Counted(heap, e)
  /\ queue' = [queue EXCEPT ![h] = Put(@, e, lifo)]
  /\ UNCHANGED halted

Refuse(h, e, margin) ==
  /\ NoRoom(queue[h], margin)
  /\ heap' = Freed(heap, e)
  /\ halted' = (margin = 0)
  /\ UNCHANGED queue

Overflow(h, e, margin) ==
  /\ ~NoRoom(queue[h], margin) /\ ~CanCount(heap, e)
  /\ halted' = TRUE
  /\ UNCHANGED <<queue, heap>>

\* am_ao_event_handler_unsafe, which returns true whatever the push answered.
HandlerFn(h, e, lifo, margin) ==
  \/ Accept(h, e, lifo, margin)
  \/ Refuse(h, e, margin)
  \/ Overflow(h, e, margin)

-----------------------------------------------------------------------------
(* Publishers                                                              *)

Allocate(p, e) ==
  /\ pc[p] = "idle" /\ owned[p] = NoEvent
  /\ e \in Dynamic \ heap.live
  /\ heap' = Allocated(heap, e)
  /\ owned' = [owned EXCEPT ![p] = e]
  /\ UNCHANGED <<queue, sub, registered, cur, pc, pubVars, halted>>

\* The event is given away: afterwards the caller may not touch it.
GiveAway(p, e) ==
  /\ IsStatic(e) \/ e = owned[p]
  /\ owned' = IF IsStatic(e) THEN owned ELSE [owned EXCEPT ![p] = NoEvent]

\* am_event_async_post to a handler that is registered.
Post(p, h, e, lifo, margin) ==
  /\ pc[p] = "idle" /\ h \in registered
  /\ GiveAway(p, e)
  /\ HandlerFn(h, e, lifo, margin)
  /\ UNCHANGED <<sub, registered, cur, pc, pubVars>>

\* Mutant: the publisher trusts the subscribers to keep the event alive.
CountPublishedNot(t, e) == UNCHANGED <<heap, halted>>

\* The reference a publish holds while it delivers.
CountPublished(t, e) ==
  \/ /\ CanCount(heap, e)
     /\ heap' = Counted(heap, e)
     /\ UNCHANGED halted
  \/ /\ ~CanCount(heap, e)
     /\ halted' = TRUE
     /\ UNCHANGED heap

PublishBegin(t, e, exclude, margin) ==
  /\ margin \in IF IsStatic(e) THEN Margins ELSE CountedMargins
  /\ CountPublished(t, e)
  /\ pc' = [pc EXCEPT ![t] = "snapshot"]
  /\ arg' = [arg EXCEPT ![t] =
               [event |-> e, exclude |-> exclude, margin |-> margin]]
  /\ UNCHANGED <<queue, sub, registered, cur, todo>>

\* A publisher publishes a static event or the one it owns.
Publish(p, e, exclude, margin) ==
  /\ pc[p] = "idle"
  /\ GiveAway(p, e)
  /\ PublishBegin(p, e, exclude, margin)

\* A handler publishes the event it is handling.
PublishHandled(h, exclude, margin) ==
  /\ pc[h] = "handling" /\ cur[h] \in Forwarded
  /\ PublishBegin(h, cur[h], exclude, margin)
  /\ UNCHANGED owned

\* The copy of the subscriber list; the loop skips exclude_id.
Snapshot(t) ==
  /\ pc[t] = "snapshot"
  /\ todo' = [todo EXCEPT ![t] = sub[arg[t].event] \ {arg[t].exclude}]
  /\ pc' = [pc EXCEPT ![t] = "deliver"]
  /\ UNCHANGED <<queue, heap, sub, registered, owned, cur, arg, halted>>

Highest(h, S) == \A g \in S : g <= h

DeliverTo(t, h) ==
  /\ h \in registered
  /\ HandlerFn(h, arg[t].event, FALSE, arg[t].margin)

\* The handler unregistered after the snapshot.
SkipGone(t, h) ==
  /\ h \notin registered
  /\ UNCHANGED <<queue, heap, halted>>

\* Mutant: a handler that is gone ends the delivery.
DeliverBreaks(t) ==
  /\ pc[t] = "deliver"
  /\ \E h \in todo[t] :
       /\ Highest(h, todo[t])
       /\ DeliverTo(t, h) \/ SkipGone(t, h)
       /\ todo' = [todo EXCEPT ![t] = IF h \in registered THEN @ \ {h} ELSE {}]
  /\ UNCHANGED <<sub, registered, owned, cur, pc, arg>>

\* One round of the loop: the handler of the highest priority that is left, in
\* a critical section of its own.
Deliver(t) ==
  /\ pc[t] = "deliver"
  /\ \E h \in todo[t] :
       /\ Highest(h, todo[t])
       /\ DeliverTo(t, h) \/ SkipGone(t, h)
       /\ todo' = [todo EXCEPT ![t] = @ \ {h}]
  /\ UNCHANGED <<sub, registered, owned, cur, pc, arg>>

\* Mutant: only an event that nobody was interested in is freed.
PublishEndKeeps(t) ==
  /\ pc[t] = "deliver" /\ todo[t] = {}
  /\ heap' = IF sub[arg[t].event] = {} THEN Freed(heap, arg[t].event) ELSE heap
  /\ pc' = [pc EXCEPT ![t] = IF t \in Handler THEN "handled" ELSE "idle"]
  /\ arg' = [arg EXCEPT ![t] = NoArg]
  /\ UNCHANGED <<queue, sub, registered, owned, cur, todo, halted>>

\* am_event_free, which balances CountPublished.
PublishEnd(t) ==
  /\ pc[t] = "deliver" /\ todo[t] = {}
  /\ heap' = Freed(heap, arg[t].event)
  /\ pc' = [pc EXCEPT ![t] = IF t \in Handler THEN "handled" ELSE "idle"]
  /\ arg' = [arg EXCEPT ![t] = NoArg]
  /\ UNCHANGED <<queue, sub, registered, owned, cur, todo, halted>>

-----------------------------------------------------------------------------
(* am_event_queue_pop_front_with_cb in the handler's thread                *)

PopBegin(h) ==
  /\ pc[h] = "idle" /\ queue[h] # <<>>
  /\ cur' = [cur EXCEPT ![h] = Head(queue[h])]
  /\ queue' = [queue EXCEPT ![h] = Tail(@)]
  /\ pc' = [pc EXCEPT ![h] = "handling"]
  /\ UNCHANGED <<heap, sub, registered, owned, pubVars, halted>>

\* The callback has returned; it publishes at most once.
PopEnd(h) ==
  /\ pc[h] \in {"handling", "handled"}
  /\ heap' = Freed(heap, cur[h])
  /\ cur' = [cur EXCEPT ![h] = NoEvent]
  /\ pc' = [pc EXCEPT ![h] = "idle"]
  /\ UNCHANGED <<queue, sub, registered, owned, pubVars, halted>>

-----------------------------------------------------------------------------

PublishSteps(t) == Snapshot(t) \/ Deliver(t) \/ PublishEnd(t)

PublisherNext(p) ==
  \/ \E e \in Event : Allocate(p, e)
  \/ \E e \in Event, h \in Handler, lifo \in Lifo, m \in Margins :
       Post(p, h, e, lifo, m)
  \/ \E e \in Event, x \in Handler \cup {Nobody}, m \in Margins \cup CountedMargins :
       Publish(p, e, x, m)

HandlerNext(h) ==
  \/ Register(h) \/ Unregister(h) \/ UnsubscribeAll(h)
  \/ \E e \in Topics : Subscribe(h, e) \/ Unsubscribe(h, e)
  \/ PopBegin(h) \/ PopEnd(h)
  \/ \E m \in Margins \cup CountedMargins : PublishHandled(h, h, m)

Running == ~halted /\ ~heap.corrupt

Stopped == ~Running /\ UNCHANGED vars

Next ==
  \/ /\ Running
     /\ \/ \E p \in Publisher : PublisherNext(p)
        \/ \E h \in Handler : HandlerNext(h)
        \/ \E t \in Thread : PublishSteps(t)
  \/ Stopped

Spec == Init /\ [][Next]_vars

\* A publish that began goes on, and a handler's thread handles its events and
\* returns; nobody has to publish, register or subscribe anything.
Fairness ==
  /\ \A t \in Thread : WF_vars(Running /\ PublishSteps(t))
  /\ \A h \in Handler : WF_vars(Running /\ PopBegin(h))
  /\ \A h \in Handler : WF_vars(Running /\ PopEnd(h))

FairSpec == Spec /\ Fairness

-----------------------------------------------------------------------------
(* Properties                                                              *)

\* Every variable stays in the range of its C field.
TypeOK ==
  /\ queue \in [Handler -> Queues(Event)]
  /\ heap \in HeapType
  /\ sub \in [Event -> SUBSET Handler]
  /\ registered \subseteq Handler
  /\ owned \in [Publisher -> Dynamic \cup {NoEvent}]
  /\ cur \in [Handler -> Event \cup {NoEvent}]
  /\ pc \in [Thread -> {"idle", "snapshot", "deliver", "handling", "handled"}]
  /\ arg \in [Thread -> [event : Event \cup {NoEvent},
                         exclude : Handler \cup {Nobody},
                         margin : Margins \cup CountedMargins \cup {0}]]
  /\ todo \in [Thread -> SUBSET Handler]
  /\ halted \in BOOLEAN

\* A handler that is not registered is subscribed to nothing: am_event_async_
\* unregister clears what subscribe has set, so an identifier that is registered
\* again starts without the subscriptions of its previous owner.
SubscribersRegistered == \A e \in Event : sub[e] \subseteq registered

\* The queue slots that hold e.
Slots(e) ==
  {s \in Handler \X (1 .. Capacity) :
     s[2] <= Len(queue[s[1]]) /\ queue[s[1]][s[2]] = e}

\* The parties that will drop a reference to e later.
Holders(e) ==
  Cardinality(Slots(e))
    + Cardinality({h \in Handler : cur[h] = e})
    + Cardinality({t \in Thread : arg[t].event = e})

\* ref_counter counts exactly the queue slots, running callbacks and publishes
\* in progress that hold the event, however these are interleaved.
RefCountIsHolders ==
  Running => \A e \in heap.live : heap.ref[e] = Holders(e)

\* The reason for the reference that publish takes: while it walks its copy of
\* the subscriber list, handlers of higher priority run and release the event,
\* yet neither the publisher, nor a queue, nor a callback is left with a block
\* that was given back to its pool.
NoUseAfterFree ==
  /\ ~heap.corrupt
  /\ ~halted => \A e \in Dynamic \ heap.live :
                  Holders(e) = 0 /\ \A p \in Publisher : owned[p] # e

\* However publishes, posts and handlers interleave, an event is counted by those
\* who hold it and not recycled before.
EventsAccounted == RefCountIsHolders /\ NoUseAfterFree

\* A subscriber of the snapshot of a publish handles the event in the end,
\* unless it unregisters.
SubscribersServed ==
  \A t \in Thread, h \in Handler, e \in Event :
    (h \in todo[t] /\ arg[t].event = e)
      ~> (cur[h] = e \/ h \notin registered \/ ~Running)

\* A dynamic event that its allocator gave away is freed in the end, also when
\* nobody is subscribed to it or the only subscriber is excluded, unless the
\* handlers publish it anew for ever.
EventsRecycled ==
  \A e \in Dynamic :
    <>[](\A h \in Handler : arg[h].event # e) =>
      ((e \in heap.live /\ \A p \in Publisher : owned[p] # e)
         ~> (e \notin heap.live \/ ~Running))

=============================================================================
