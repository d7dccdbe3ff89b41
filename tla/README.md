# Verification of Amast

Amast (`src/libs`) is a C99 library for event driven embedded programs: reference counted
events, active objects with event queues, timers, state machines, a lock-free ring buffer,
small algorithms, and a thin platform layer (PAL) under them; `src/apps/examples` are programs that use
it. This directory holds TLA+ models of the library and of the examples, the TLC runs that check
them, and theorems about them that TLAPS checks.

All line numbers are of the sources under `src/`. `PROJECT.json` lists components, runs, mutants,
hazards, findings and theorems, and maps every definition that stands for code to its lines.

    tlc -workers 2 -config Timer.cfg Timer      # a run: PROJECT.json pairs modules and .cfg files
    tlapm TimerProofs.tla                       # the proofs of a module

## 1. Inventory

| component | state | operations | interacts with | module |
|---|---|---|---|---|
| event queue `libs/event/event_queue.c` | ring of event pointers, `rd`, `wr`, `full`, `nfree`, `nfree_min`, allocator | push to back or front with a margin, pop, pop with callback, flush | called by active objects from several threads; takes critical sections through callbacks of the PAL; frees events | EventQueue |
| event reference counting `libs/event/event.c` | `ref_counter` and pool index in the event header | allocate, inc, dec, free, dup | queues count on push and drop after the callback | EventRef, EventPool |
| event pools `libs/event/event_pool.c` | pools in order of block size | add, allocate by size, free by index | allocator of blocks | EventPool |
| block allocator `libs/onesize/onesize.c` | free list, bump index, `nfree` | allocate with a margin, free, free all, scan of allocated blocks | under the events | Onesize |
| publish and subscribe `libs/event/event_async.c` | `handlers[]`, one subscriber bit list per event id | register, unregister, subscribe, unsubscribe, post, publish | calls the handler of each subscriber (`am_ao_event_handler_unsafe`), which pushes to its queue | EventAsync |
| synchronous events `libs/event/event_sync.c` | handlers, subscriptions, recursion count | register, subscribe, post, publish with nested calls | handlers called in place | EventSync |
| active objects `libs/ao/ao.c` | `aos[]`, `aos_cnt`, start-up flags, per object queue, `running`, `task_id` | start, stop, post, publish, subscribe, run all | queues, pub/sub, PAL tasks and notifications | AoPreemptive, AoCooperative |
| preemptive port `libs/ao/preemptive/port.c` | one task per active object | task loop: wait, pop, handle; stop | PAL tasks | AoPreemptive |
| cooperative port `libs/ao/cooperative/port.c` | `am_ready_aos_` bits | dispatch the highest ready, idle callback | PAL notification of the main task | AoCooperative |
| PAL, POSIX `libs/pal/posix/pal.c` | task descriptors, notifications, mutexes, start-up gate, ticker | create, wait, notify, join, lock, idle callback, sleep | pthreads | Pal, Sleep |
| PAL, libuv `libs/pal/libuv/pal.c` | the same, with counting semaphores | the same, with a ticker that restarts | libuv | PalUv |
| timer `libs/timer/timer.c` | lists `events` and `events_pend` with counts, fields of each event | arm, disarm, tick (append, then iterate), is armed, get ticks | `slist`; the tick runs in a ticker thread or interrupt, arm and disarm anywhere | Timer |
| ring buffer `libs/ringbuf/ringbuf.c` | atomics `read_offset`, `write_offset`, `read_skip` | get write pointer, flush, get read pointer, seek, sizes | one writer and one reader without a lock | RingBuffer |
| hierarchical state machine `libs/hsm/hsm.c` | active state with submachine instance, instance seen, level | init, start, dispatch, deinit, is in | user state handlers, called back with ENTRY, EXIT, INIT, EMPTY and user events | Hsm |
| finite state machine `libs/fsm/fsm.c` | state | init, start, dispatch, deinit | user state handlers | Fsm |
| lists `libs/slist`, `libs/dlist` | links, iterators | insert, remove, append, search, iterate and remove | timer (slist) | Slist, Dlist |
| COBS encoder `libs/cobszpe` | output, block under way, zero count | encode, size of the output | | Cobs |
| bit set `libs/bit`, throttle `libs/common/throttle.c` | bytes and their mask; time of the last call | set, clear, most significant bit; allow | clock | Bits, Throttle |
| coroutines `libs/coro/coro.h` | a resume line | begin, await, call, end | state machines | Coro |
| examples `apps/examples` | active objects, timers, tasks | their handlers | all of the above | 2.3 |
| CRC, strings, macros, other PALs, unit test framework | | | | section 6 |

What is hard in this code, and therefore what the properties are about:

* **Interleaving outside the critical sections.** The library's critical sections are short. A
  publish takes one per subscriber; a pop with callback leaves it before the callback; a flush
  leaves it between events; a task looks at its queue and then waits; an active object that stops
  clears `running`, drops itself from the count, and unregisters in separate steps; a timer tick
  leaves the section after each event, and its caller posts the event in another step.
* **Redundant state.** The ring of a queue is described by `rd`, `wr`, `full` and `nfree`, each
  read for a different decision; the allocator by a list, an index and a counter; the cooperative
  port by queues and ready bits; the bit set by bytes and a mask; the table of the philosophers by
  marks that follow their states.
* **Ownership.** Events are freed by whoever drops the last reference, from any thread; task
  descriptors are free before their thread has ended, and joined by whoever finds them joinable.
* **Re-entrance.** Handlers of the synchronous hub publish, subscribe and unregister during a publish;
  lists change while an iterator is in them.
* **Lock-free access.** The ring buffer publishes two variables in two stores.
* **Start and stop.** A gate keeps tasks from running before all init handlers ran; notifications
  coalesce (POSIX) or count (libuv); an active object stops itself from inside one of its handlers.
* **Wrap-around and boundaries.** Clocks are 32 bits wide; a block of the encoder, a pool, a queue, the
  reference counter and the recursion depth have limits.
* **Progress.** Wake-ups that are sent on a change from empty only, a writer that gives up the
  tail of a buffer, timers that are armed again during the tick.

## 2. Modules

    EventRing ------ EventQueue ------ EventQueueProofs
    EventRef ------/     \ refines  EventQueueAbs
    EventRef, EventDeque -- EventAsync -- EventAsyncProofs
    EventDeque -- AoPreemptive -- AoPreemptiveProofs
               -- AoCooperative -- AoCooperativeProofs
    Timer -- TimerProofs
    RingBuffer -- RingUsers
    Hsm (refines HsmAbs) -- HsmProofs
    Onesize (refines BlockPool)

    Library   = Onesize + EventPool, EventSync, Fsm (refines HsmAbs), Slist, Dlist, Cobs, Bits,
                Throttle, Pal, PalUv, Sleep              -- LibraryProofs
    Mailboxes - Dpp, Smokers, Workers, Watchdog, Fork
    Examples  = RingUsers + Dpp, Smokers, Workers, Watchdog, Coro, Sync, Fork              -- ExamplesProofs

Two modules compose others for model checking. In a behaviour of **Library**, one part of the library is
used, chosen in its initial state, and the others stay as they start: those parts share nothing but calls,
and a run for each would say no more. **Examples** does the same for the applications.

### 2.1 The core

**EventRing** is `struct am_event_queue` as a record and its operations as operators: the index
arithmetic, the full flag, the margin test. **EventRef** is the reference counter and the set of
allocated events. **EventQueue** puts both together with producers, consumers and a flusher: every
critical section is one action, so a push is one action, `am_event_queue_pop_front_with_cb` two
(pop, release after the callback), a flush a loop of two. A failing `AM_ASSERT` sets `halted`.
**EventQueueAbs** is what a queue promises: a bounded double-ended queue that answers ok, was empty
or refused. **EventDeque** is the same as operators on sequences. The refinement of EventQueue by
the ring is what allows the larger modules to use it in place of the ring.

**EventAsync** is publish and subscribe. A publish is a count, a snapshot, one delivery for each
subscriber and a drop of the reference, all separate actions; handlers run, publish the event they
handle, subscribe, unsubscribe and unregister in between. The handler function is the one that
active objects register.

**AoPreemptive** is the preemptive port with `ao.c`, `event_async.c` and the tasks of the POSIX PAL.
The main task runs the loop of the tests (`am_ao_start`, then `am_ao_run_all` until `am_ao_get_cnt`
is zero); tasks have a program counter with one label per critical section, atomic access or
blocking call: gate, loop, check, wait, pop, handle, release, the four steps of stop. Each
`AM_ASSERT` it may fail has a name in `failed`. Posters wait for the start of the active objects, tell
one to stop when none of them is posting or publishing to it, and do not post to it afterwards: every post
asserts that the object runs (`ao.c:89`, `ao.c:108`).

**AoCooperative** is the cooperative port: select, dispatch and idle are actions of main, posts are
let in between any two of them. A post has the same two steps, and posters keep to the same rule, as in AoPreemptive.

**Timer** has an action for each critical section of a tick: the two that begin it, and one for each
call of the iterator, split by what it finds (a disarmed event, one that counts down, one that
fires). Arm and disarm may happen at any time. `due` and `armed` are history: the ticks that a
caller who reads the documentation expects to wait, and what it asked for last.

**RingBuffer** has an action for every atomic load or store that the other side can tell apart.
`fifo` is history: the addresses of the bytes that were written and not read. Loads whose value only
the loader changes are not steps of their own.

**Hsm** has an action for every call of a state handler. Handlers answer user events with handled,
super, a transition or a transition with redispatch, and INIT with or without a transition to a
substate: any of these at any time, which is every program that `hsm.h` allows. The tree of states is
chosen in Init. `inside` is history: the states that were entered and not left. A handler is named by its
function and the instance that it sees, as in the code. **HsmAbs** is what a machine promises, stated with
sets of superstates instead of paths, levels and instances.

### 2.2 The parts of Library

**Onesize** is the allocator, whose callers serialise the calls. **BlockPool** is what it promises:
a set of blocks, given out exactly when more than `margin` are free. **EventPool** has the pools of events over
it: a pool is the number of its free blocks, an event its pool index, its counter and the size it was asked
for; the binary search is a recursive function of the code's `left` and `right`.

**EventSync** keeps a stack of frames, one for each post or publish under way, since handlers call the hub
again. A frame of a publish has the snapshot of the subscribers, what is left of it, and whom it called.

**Fsm** has an action per handler call like Hsm, and implements HsmAbs with the tree in which all states are
directly below the top.

**Slist** and **Dlist** have the pointers as functions, and next to them the sequences the pointers should
represent; an iterator is interleaved with every insertion and removal that the code allows to its user.
What searches, peeks and walks return are operators that are compared with the sequences in every state.

**Cobs** reads one byte of the source per action; what would be written if the source ended here is an operator,
decoded by a reference decoder after each byte. **Bits** and **Throttle** have one action per operation. **Sleep**
is a loop that keeps its period with `am_sleep_till_ticks`, late by a bounded number of ticks.

**Pal** has the threads of the POSIX PAL step by step (creation, identifier, init, gate, notification, return) with
main, which creates tasks, waits for the gate, stops the ticker and shuts down. Thread identifiers of the
system are used again once a thread is joined, or detached and gone. **PalUv** does the same for libuv, whose
notifications count, and has its mutex slots.

### 2.3 The examples

**Mailboxes** is an active object as an application sees it, a queue and a handler that runs on one event at a
time; EventQueue, EventAsync and AoPreemptive justify it. **Dpp** (philosophers, table), **Smokers** (smokers, agent),
**Workers** (workers, balancer, time-out), **Watchdog** (a watched task, a watchdog, two timers) and **Fork** (a job
task, its child with every outcome, an object that shows the progress) have one action per event handled, by
the state and the event. In those with timers the ticker takes an event from the timer's list and posts it in
two steps, as `ticker_cb` of the examples does. **Coro** is the traffic light with its coroutines, **Sync** the two jobs on
the synchronous hub, **RingUsers** the reader and the writer of the ring buffer's example over the atomic steps
of RingBuffer.

### 2.4 What is abstracted

A queue's margin, a pool's margin and a bound on posts are numbers in small sets. Event ids are left out where
nothing depends on them, payloads everywhere but for the bytes of the encoder, which are zero or not. Events that the
examples allocate are assumed to be available, as their main programs dimension the pools.

## 3. Runs and what they show

| run | instance | states | shows |
|---|---|---|---|
| event_queue | 2 producers, 1 consumer, 1 flusher, 2 slots, 2 dynamic and 1 static event, counter limit 3 | 191,084 | the ring's fields agree (RingConsistent); the counter is the number of holders, nothing is used after it was freed, nothing leaks (EventsAccounted); the queue is a bounded deque (RefinesDeque) |
| event_async | 1 publisher, 2 handlers, 1 dynamic and 1 static event | 83,706 | subscriptions belong to registered handlers; reference counts under interleaved publishes; every subscriber is served and every event recycled |
| ao_preemptive | 2 active objects, 2 tasks, 1 poster | 52,964 | no assertion fails, start-up gate, every event handled (so no wake-up is lost), main returns |
| ao_preemptive_stop_dynamic | 1 active object | | **finding**, see 5 |
| ao_cooperative | 2 active objects started twice, 2 posters | 5,170 | no assertion fails, highest priority first, every event handled, main returns |
| timer | 3 events, ticks and intervals 0 and 2 | 145,729 | lists and counts (LinkedOnce), time (OnTime), armed state, and that armed events fire |
| ring_buffer | 6 bytes, requests 0, 1, 3, 5 | 51,495 | data arrives whole and in order, sizes and assertions hold under interleaving, no request starves |
| hsm | all 125 trees of 4 states, 2 functions with 2 instances | 51,023 | UML order of exits, entries and initial transitions (Refines), exact level, instance and `am_hsm_is_in`, no assertion fails, every call returns |
| library | 12 parts, see below | 344,166 | each part against what it promises |
| cobs_encodes | the constants of the code | | **finding** |
| examples | 8 applications, see below | 24,118 | safety and termination of each |
| coro_resumes | the traffic light | | **finding** |

**library.** The properties conjoin what the parts promise, so that each question is asked of all parts it fits:

* BlocksAccounted and ImplementsPool: no block is lost or handed out twice, `nfree` is exact, BlockPool is refined.
* PoolsExact: an event lies in the smallest pool that fits, returns to it, and the log of a pool shows the
  blocks in use.
* ValuesExact: what the encoder wrote decodes to what it read, with every pattern of zeros up to 11 bytes, except that some sources
  that end in a zero and one other byte lose the code of their last block and the final zero, and nothing else (EncodesButLastCode;
  finding cobs_encodes), and it needs no more room than a code for every block and the final zero; the mask of
  the bit set agrees with its bits; the throttle allows once per interval across the
  wrap-around of its clock; the sleeping loop never runs early and catches up when late, across the
  wrap-around of clock and microseconds.
* LinksExact: the pointers of both lists, and what searches, peeks and walks read of them, are the lists; subscribers of
  the hub are registered and its recursion is counted exactly; a state machine rests in an entered state.
* TasksKnown: a thread finds its own descriptor among those used before, each thread is joined once, a libuv
  semaphore is alive while its task runs and holds only its own notifications, mutexes in use are valid.
* TasksEnd: the gate opens when every task that waits for it is ready, and no wait of main lasts for ever.
* HubServes: every subscriber of a snapshot is called once, whatever the handlers do meanwhile.
* FsmImplementsHsm: the flat machine is a hierarchical one without hierarchy.
* ListsIterate: an iterator visits what was there all the time, and nothing twice.

**examples.** Exclusive: neighbours never eat at the same time, each round feeds exactly one smoker, each worker has one
job or report, a job is pending exactly while its timer runs. AssertsHold: no queue overflows (in workers the balancer needs two slots
for each worker, which main gives it up to 32 processors), the
assertions of the table and of the reader hold, the object that counts the stops is the last, the exit code is 0 exactly when waitpid
tells of status 0, although a success is published behind every failure. It does not claim what fails, see section 5: the assertion of
the post for those of the ticker, and the exit code for a program that cannot be started. TimersServe: no false alarm of the watchdog, and the traffic light always has something to go on with. AppsEnd: every
application comes to its end, or dpp and smokers to that failed assertion; the watchdog barks at a task that stopped feeding it.

Bounds, and why they are enough. Two slots are the smallest ring with a wrap, a full and a half full
state; the proofs cover every capacity. Reference counters are limited to 3 in event_queue, so that
the refusal at `AM_EVENT_REF_COUNTER_MAX` (127) is reached. Two handlers are the smallest number with
one served before and one after a step of a publish, and each of them forwards. Two active objects give
every pair of priorities, starts and stops; further ones repeat the same steps on other slots. Three timer
events give a first, middle and last list position; ticks 0 are normalised to 1, so 0 and 2 are
the cases "next tick" and "count down first", and interval 0 is one-shot. In six bytes a window
of 3 fits in either half, 5 in an empty buffer at offset 0 only, and tail, skip and wrap occur at
every offset. Four states are enough for a transition whose active state is below the source, whose
source and destination are on different branches, and whose common ancestor is not the top.

In library, up to 4 pools with sizes 1 to 4 have every position of a request: on, between and outside the block sizes. Three
handlers with 2 bits in a byte are in two bytes of the list. Nested calls go up to a recursion limit of 2. Three
items give a first, middle and last position of the lists. A block of the encoder has 5 bytes and a code 8 values
instead of 223 and 255, which leaves room for a pair of zeros at the same distance from both limits, and 11 bytes
make several blocks. Clocks have 8 values (64 for the sleeping loop, whose argument in microseconds wraps too), so they wrap. Two
descriptors with three creations (two with libuv) make a descriptor, and a thread identifier, be used again while the
last thread of it is on its way out; one notification per task decides whether a stale one is left. In examples,
three philosophers are the smallest table on which the neighbours of one are two different ones; four
sessions let each eat again; round numbers of the smokers wrap at 4.

Deadlock is checked in every passing run; where the system may really stop (main returned, an
assertion failed, an application ended) the next-state relation has a stuttering disjunct that says so.

Every property has a mutant in PROJECT.json, and those that conjoin parts have several: a change of the model such as
a plausible bug would make (a full flag that is kept, a missing notification, a reference dropped early) under which TLC
finds the property violated.

### Fairness

* EventAsync: a publish that began goes on, a handler's thread pops and returns. Nobody has to publish,
  register or subscribe. Posts are first in, first out in this run: with a front push (`policy.lifo`) a stream of
  posts starves what is queued, which is what that policy says, so front pushes are in EventQueue only.
* AoPreemptive, AoCooperative: every thread that can run goes on running, weakly fair: the scheduler of an
  operating system, or the main loop. Nobody has to post. In the cooperative port lower priorities may
  starve, so EventsHandled assumes that higher queues are empty from some time on.
* Timer: the ticker keeps ticking (WF of its steps), as the ticker tasks of the ports do. FiresEventually
  is about events that are not armed again for ever.
* RingBuffer: calls end, and the writer and the reader ask again until they are served, as those of
  `apps/examples/ringbuf` do on a timer; since what they wait for may come and go, this is strong fairness. The
  application itself (RingUsers) is checked with weak fairness of its two tasks only.
* Hsm: a call that began runs on, that is, user handlers return.
* Pal, PalUv: threads run, calls of main go on, entry functions return. Nobody has to notify a task: a task that
  waits for a notification that is never sent keeps main waiting, and TasksEnd says so.
* Examples: tasks run and handle what is in their queues, the ticker ticks. An armed timer expires: in Dpp and Smokers time
  is not counted, so this is strong fairness of the tick that reaches each event. Coro needs none: TimersServe is a safety
  property there.

## 4. Proofs

Each proof module EXTENDS the module it is about. TLAPS checks them for every value of the constants
that satisfies the module's named assumption.

* **EventQueueProofs.** `RingCorrect` and `TypeCorrect` (for every capacity, any
  threads and events) and `Refinement`: the ring implements EventQueueAbs. The inductive invariant is
  TypeOK and RingConsistent. RingConsistent says where busy slots are and how `wr` follows from `rd` and
  the number of busy slots; without it nothing ties `full` to `nfree` when `rd = wr`. The lemmas
  say what each operator does to the contents as a sequence, one for push to the front, one
  for push to the back, one for pop. Wrapping around is kept behind the operators `Next1`, `Prev1` and
  `Wrap` with a lemma each, because the provers do not reason about `%`.
  `AccountsCorrect` is EventsAccounted, for finitely many threads: the number of holders is a sum of occurrences
  in the ring and of three counts of threads, and each action moves one holder from one summand to another, or
  changes the counter with it. It assumes that an event of which the caller keeps a reference is pushed with
  margin 0 (`HeldMargins`, see section 5): a refused push frees it (`event_queue.c:188`).
  The lemmas on reference counts, which EventAsyncProofs has too, say how an element appended to or taken from a sequence
  changes the number of occurrences, how the step of one thread changes a count of threads, and `Balanced`, that every
  counter is its number of holders, under each operator of EventRef.
* **EventAsyncProofs.** `RegisteredCorrect` needs no more than the type of the subscriptions. `AccountsCorrect`
  is EventsAccounted for any handlers and events and finitely many publishers. The inductive invariant says besides
  the types when a thread has a publish or an event in hand, that an event which a publisher allocated and has not
  given away is nobody else's, and that holders are slots of queues plus callbacks plus publishes. It is stated for
  states in which no assertion failed. The hypothesis `Asserting` is that publishes of dynamic events are asserted to
  be delivered (margin 0), as in the run; with a margin the property is false (section 5).
* **AoCooperativeProofs.** `NoAssertFailsCorrect`, `SelectCorrect`, `WakeupCorrect` and `TypeCorrect`, for any active
  objects, posters, events, capacity and number of starts. NoAssertFails needs all of the invariant: who has a slot runs and
  is registered (Slots), where main is with which object (Place), each post in flight finds its object running (Posts), and
  who has a stop event in its queue was told, has no other post in flight, and had a slot left for it (Told). SelectsHighest is an
  action property that follows from NoLostWakeup, every queue with an event has its bit.
* **AoPreemptiveProofs.** `NoAssertFailsCorrect`, `GateCorrect`, `WakeupCorrect` and `TypeCorrect`, for any active objects,
  tasks and posters. The invariant follows a task through its life: it owns its active object (Owned), brings it to
  life (Born) and ends it (Stopped); who is posted or published to is alive (Posts, Publishes), and stop events
  are the last of their queues' posts (Told) as above. Gate says what has been set up before and after main opens the gate.
  Counts has the pigeonhole argument that there is a task descriptor for every active object.
  The hypothesis Started restricts the theorems to one round of starts: in a second one the gate is open already, and
  the assertion of `event_async.c:155` can fail (section 5). StaticStop excludes the finding of ao_preemptive_stop_dynamic.
* In both ports `Refusable`, that posts which carry no stop event have a positive margin, is what allows a full queue to refuse
  them: with margin zero the code asserts that there is room, and nothing in the library bounds what is posted.
* **ExamplesProofs**, the ring buffer. `DataCorrect`, `SizesCorrect` and `TypeCorrect`, for every size of the buffer and every set of
  requests, between any two loads or stores. The invariant describes `fifo` as one interval of offsets, or as two when the data is
  wrapped around (Unread), places the windows of writer and reader at its ends, and says which loaded values are still
  good: the reader's offset only grows while the data is not wrapped around, and the writer changes neither `read_skip` nor wraps
  again while it is. DataIntact and SizesExact follow without a further induction.
* **ExamplesProofs**, the applications. `ExclusiveCorrect` and `TimersCorrect`, for every number of philosophers, processors and rounds, every
  modulus of the smokers' round number, every period of the timers and whatever the interleaving of handlers and ticks. What is exclusive is decided by
  one object that knows the others by events only, so each invariant says what is under way. DppInv:
  the table's record of a philosopher against its state and the events between them (who eats, or is told to, is recorded so and has no
  DONE or HUNGRY in the table's queue, and DONE is always before HUNGRY there). WorkersInv: a job is a token, in one queue or in the
  other, and nowhere while START is pending. SmokersInv: either every smoker is ready for the next
  round and the agent has the one event that begins it, or a round is on, of which every smoker has taken none, one or both
  resources, in the same order, and the agent has nothing to begin with; a smoker's timer expires when all resources are taken.
  SyncInv: the timer runs while a job is pending. WdtInv: a feed that is on its way left no longer ago than twice Lag, and
  while one is to come the bark timer has the ticks left until it comes, and what the periods differ by. LightInv: the queue of the
  light holds at most one TIMER and one other event, and no TIMER while one is about to be posted. The lemmas on queues say what is in a queue, once, and before what, after an event was
  taken or sent.
* **LibraryProofs**, the allocator. `BlocksCorrect` (no block lost or handed out twice, and the counter right), its parts `TypeCorrect`,
  `PartitionCorrect` and `CountCorrect`, and `Implementation`: the allocator
  implements BlockPool. The inductive invariant adds HeldCount, the number of blocks that callers hold, to
  type, partition and count: the abstract pool decides by a cardinality, the code by `nfree`, and
  HeldCount relates the two.
* **LibraryProofs**, the tasks of both platform layers. `TasksKnownCorrect`, for any number of descriptors, task creations, thread
  identifiers and mutexes. A thread finds its descriptor by a search for the first one with its identifier, so what
  has to be invariant is that the descriptors of living threads carry different identifiers (and those of threads that
  ended carry none that is given out again), through every interleaving of creation, start and end, in which identifiers of
  ended threads are used again. PosixInv and UvInv say that for their tables, with where each thread is in its life, who joins it, and, for libuv,
  that a semaphore is alive from before its task starts until after it was joined and holds only its own notifications.
* **HsmProofs.** `NoAssertFailsCorrect`, `PlaceCorrect`, `TypeCorrect` and `Refinement` (Hsm implements HsmAbs), for every tree of states
  at least two levels below AM_HSM_HIERARCHY_DEPTH_MAX, every set of functions and instances. The code knows a state
  by a level and climbs from there; the abstract machine knows a set of superstates. The invariant says for each place in
  `hsm_dispatch` and `hsm_transition` which part of the path from the active state has been left or is about to be entered,
  with its level and instance. What the climbing functions return for a tree of any depth is proved by induction
  on the depth.
* **TimerProofs.** `LinkedCorrect`, `TimeCorrect`, `ArmedCorrect`, `TypeCorrect` and `FiringCorrect` (no
  event fires that was disarmed after it was armed last: the action property FiresOnlyArmed). The inductive
  invariant has three parts: Shape (types and iterator), Lists (LinkedOnce) and Times (what the counter
  of an event says about the ticks it was armed for, before and after the iterator passed it). There is one
  lemma for each action, and ListBound, a pigeonhole argument that a list without repetitions is not longer
  than the set of events.

Assumptions are those in the modules' ASSUME (capacities are positive, margins below the capacity,
NULL is not an event, the set of timer events is finite, intervals fit in the counter, thread identifiers and the value that stands
for none differ, there are at least two philosophers and three resources, as in the sources; the watchdog waits longer than one feed and not
longer than two, 1100 and 1000 ms in watchdog/main.c; the traffic light's queue has two slots or more, as in coro/main.c). TimersServe
claims the watchdog's part only while LagIsSmall: both tasks together are late by less than the periods differ.

Every inductive invariant was checked by TLC on the instance of the module's run, and with two posters for AoPreemptive,
before it was proved.

Only model-checked, for the small instances above: all liveness (the prover has no ENABLED and no fairness
reasoning); of Library the parts with tables and numbers (PoolsExact, ValuesExact, LinksExact) and their step
properties; AssertsHold of the applications; what the port properties say of notification order. The theorems on
induction that the library offers take an operator as their parameter, which the provers cannot instantiate. Where a proof needs
induction over data it takes the least number of a set instead (the well-founded order of the naturals): so for the paths of Hsm,
which are recursive functions. What `Search` of EventPool, `Walk` of Slist and Dlist, and the encoder of Cobs compute for
every input is still only checked.

## 5. Findings and observations

Checked by a run that TLC has to find violated:

* **ao_preemptive_stop_dynamic** (`event_queue.c:258`). An active object that stops while it handles a dynamic
  event deinitialises its queue, and with it the allocator that the event is returned to afterwards.
* **cobs_encodes** (`cobszpe.c:59`). A byte behind a pending zero finishes a block, which sets `block_finished`, and becomes the
  first byte of the next one. When the source ends with it the flag is still set, and the encoder writes 0 as the last code and no
  terminator: {00, 01} becomes {01, 00, 01}, with a zero in the middle, while the README of the encoder says that zeros are
  eliminated. The tests have no source of this kind.
* **coro_resumes** (`apps/examples/coro/main.c:187`). Two coroutines, one of which calls the other, keep
  their state in the same variable, so the called one finds the caller's line and fails the assertion of `coro.h:71`.

Seen while modelling, and not runs of their own.

Events and active objects:

* A push that is refused drops a reference (`event_queue.c:188`), while a publish took one, not one for each
  subscriber: a publish with a margin that meets a full queue frees the event while other subscribers hold it.
  EventAsync shows it with `CountedMargins = {0, 1}`. A push with a margin that is refused also releases an event that the
  caller still holds a reference to (HeldMargins of EventQueue is therefore {0}).
* A publisher whose snapshot holds an active object that is between clearing `running` and unregistering
  (`preemptive/port.c:166-170`) fails `AM_ASSERT(ao->running)` of `ao.c:251`. In the run a
  publish begins only while nobody was told to stop, and the one poster ends its publish before it tells anyone.
* `am_event_queue_flush` (`event_queue.c:266-269`) leaves the critical section between events. A producer that
  refills the queue makes `AM_ASSERT(cnt <= queue->capacity)` fail; `event_queue.h:376` documents the
  function as thread safe. EventQueue reaches `halted` this way.
* An active object that is started again as soon as `am_ao_get_cnt()` is zero, as `libs/ao/tests/stop.c:92-101`
  does, may find its handler id still registered (`preemptive/port.c:170` counts down before it
  unregisters) and fail the assertion of `event_async.c:155`. AoPreemptive with `Rounds = 2` reaches it.
* `am_ao_run_all` of the preemptive port may return before all active objects stopped, on a notification of the
  main task that the start-up left behind, against `ao.h:534-535`. RunAllBlocks of AoPreemptive states it, and TLC refutes it. Main
  calls it in a loop, so MainReturns holds.
* `am_ao_event_handler_unsafe` returns true whatever became of the push (`ao.c:257`, compare `ao.h:293`).
* The hub of `event_sync.c` calls from a copy of the subscriber list. A subscriber that an earlier handler unregistered is
  called nevertheless and fails `AM_ASSERT(handler->fn)`, or, if the identifier was registered again, its next owner is called.
  EventSync has both (`failed`).
* A block that is freed twice is noticed only while it is the head of the free list (`onesize.c:101`).

Timer, state machines, lists, ring buffer, algorithms:

* A timer event that is armed with one tick from a handler of the tick in progress may be fired in that same
  tick if the iterator has yet to pass it, while `timer.h:195-198` speaks of the next tick. OnTime is the
  exact bound: never late, at most one tick early. The owner is read outside the critical section at
  `timer.c:70`, `91` and `111`, twice if the compiler does not merge the loads.
* `am_hsm_is_in` (`hsm.c:341`) asks each superstate with the instance of the active state. For `s11/1` of
  `libs/hsm/tests/submachine/complex`, whose `s1/1` is inside `s1/0`, the question for `s` ends in
  `AM_ASSERT(cnt)`. `hsm_dispatch` keeps the instance across the same calls.
* Depth of state machines. `AM_HSM_HIERARCHY_DEPTH_MAX` (16) is documented as the maximum depth, and
  `hsm.h:133` gives levels up to it. The countdowns of `hsm.c` stop earlier: an event that no state handles
  fails `hsm.c:278` at depth 15 already, and leaving 16 levels fails `hsm.c:159`. The assumption of Hsm that
  trees stay two levels below the maximum is exactly what NoAssertFails needs.
* A state machine (`fsm.c`) that answers the second dispatch of an event with another redispatch fails an assertion.
* Slist: an item that was popped keeps its `next`; an item pushed in front of the one the iterator visits is
  lost by `am_slist_iterator_pop`. ListsIterate is stated for the pushes the iterator allows.
* `am_ringbuf_get_free_size` called by the reader can fail its assertion (`ringbuf.c:208`). With 6 bytes: the
  writer at offset 2 wraps early with `read_skip` 4; the reader rewinds; the writer writes 4 bytes and the reader
  seeks past them; the writer is short again; the reader loads `read_skip` 4; the writer stores `read_skip` 2 and
  `write_offset` 0; the reader loads offsets 4 and 0 and asserts that 4 is not below 2. The
  writer's calls are safe (SizesExact). The counter of dropped bytes is read, added to and stored (`ringbuf.c:217`)
  while the reader may clear it.
* `AM_COBSZPE_ENCODED_SIZE_FOR` (`cobszpe.h:39`), on which the assertion of `cobszpe.c:45` relies, adds one byte per 224 bytes, a block
  without zeros has 223: 224 bytes without a zero become 227, the macro says 226. FitsCodes states the room that is needed.
* The throttle is exact only when it is called within a period of its clock. The decoder of COBS in the repository is a stub.

Platform layers:

* POSIX `am_mutex_destroy` invalidates the slot after the one it destroyed (`pal.c:359`); the mutant NextDestroy of PalUv, whose
  code has it right, shows the effect. The mutex of a joined task is destroyed twice (`pal.c:155`, then `499` or `670`).
* `joinable` is stored by the creator when the thread may have ended already, and flags of a
  descriptor's previous owner stay: a notification left from it is found by the next (POSIX only; libuv initialises the
  semaphore again). With libuv a task that ends before its creator stored `joinable` has its semaphore destroyed
  twice (`libuv/pal.c:240-242`, then `149`). `ntasks_` of libuv is never increased, so its limit is not checked by it.
* `am_ticker_stop` of POSIX never clears `busy`: the slot of a ticker cannot be created again.
* `am_sleep_till_ms` (`posix/pal.c:403-410`) tests `sleep_ms > UINT32_MAX`, which is never true: a caller that is late sleeps,
  for up to 71 minutes, after which the argument of `usleep` wraps around. `am_sleep_till_ticks` compares with half the range.
  The libuv ones compare without regard to wrap-around.

Examples:

* dpp, smokers and coro: the ticker takes a timer event, its owner stops, and the post asserts that the owner
  runs. The states `Trapped` of the modules are this; AppsEnd counts them as an end, TickerFindsRunning of Dpp says that they
  are not reached and is refuted.
* fork: a child whose `execvp` failed publishes the failure (`main.c:184`) to its own copy of the program and exits with 0, so that the
  parent returns 0 where `main.c:36-37` says -1: ReportsOutcome of Fork, which TLC refutes; ReportsStatus is what holds. The job task
  publishes success after the failure of its child, which arrives too late to matter. The ticker task runs one iteration, so the progress
  is never shown.
* workers: when it stops, the balancer may be sent a JOB_DONE and a STOPPED by every worker before it handles the first of them. Main
  gives it 64 slots (`AM_WORKERS_NUM_MAX`) and starts up to 63 workers; with more than 32 of them these events may not fit, and the
  publish asserts that they do. The bound of two slots per worker in QueuesFit is reached.
* dpp, smokers: queues are long enough because they are emptied between two ticks; the modules start a tick when all queues are
  empty.

## 6. Not modelled

* FreeRTOS and Zephyr PALs and the stubs: other implementations of the interface of which the POSIX and libuv ones are modelled,
  on kernels whose behaviour is not in the repository.
* Printing, time stamps, dumps and crash logs of active objects, `am_event_log`, CRC and string functions, macros: no state that the other components depend on.
* Mutexes of applications in the POSIX PAL (the libuv ones are modelled, created and destroyed by main), the event loop of libuv.
* `am_coro` yield, which no modelled program uses; the dropped bytes of the ring buffer; statistics of smokers and
  workers and the assertions about them (`percent < 40`), which are about the fairness of a real scheduler.
* The examples of state machines, which are instances of Hsm driven by the keyboard; the unit test framework.
* Payloads and the bytes that `am_event_dup_x` copies.
* Memory ordering: atomics and critical sections are sequentially consistent, as the code uses them
  (`__ATOMIC_SEQ_CST` in `AM_ATOMIC_*`, mutexes). Data races on plain fields are noted in section 5.
* Programs that break the documented contracts (posting to an active object that was told to stop, freeing a
  block twice, dispatching from inside a handler).

## 7. Plan

Done, in this order: queue, reference counts and their refinement; allocator; publish and subscribe; preemptive
and cooperative active objects; timer; ring buffer; hierarchical state machine; event pools, synchronous hub, finite state
machine, lists, encoder, bit set, throttle, POSIX and libuv tasks; the examples.

Proved since: the ring, its refinement and the reference counts; the allocator and its refinement; the timer; publish and
subscribe; both ports; the ring buffer; the hierarchical state machine and its refinement; the tasks of both platform layers; what is exclusive
in the applications, and what their timers guarantee.

Next theorems: the recursion count and the subscriptions of EventSync (HubConsistent); BitsExact of Bits; OncePerInterval
of Throttle and KeepsPeriod of Sleep for every width of the clock; AssertsHold of the applications, with the bounds that main gives
their queues.

Next parts: active objects with front posts and margins of their own in the ports; the FreeRTOS PAL; a composition of Timer
with AoPreemptive in place of the two steps of the ticker in the examples.
