------------------------------ MODULE Library ------------------------------
(***************************************************************************)
(* Model checking of the parts of the library that are used through calls  *)
(* alone: one of them is used, the others stay as they start.  The module  *)
(* of the block allocator is extended, the others are instantiated.        *)
(***************************************************************************)
EXTENDS Onesize

CONSTANTS
  Parts, None,
  Event, Sizes, Blocks, MaxPools, RefMax,           \* event pools
  NHandlers, ByteBits, Topics, RecursionMax,        \* synchronous events
  State,                                            \* finite state machine
  Item, MainList, OtherList,                        \* lists
  ZerolessMax, ByteMax, MaxSource,                  \* COBS/ZPE
  Indices, Modulus, Interval,                       \* bit array, throttle
  Slots, Handles, MaxCreate, MaxNotify,             \* tasks
  Mutexes, MaxUvCreate,                             \* the same for libuv
  UsPerTick, Periods, MaxLate                       \* sleeping

ASSUME LibraryAssumption ==
  Slots \in Nat \ {0} /\ Handles \in Nat /\ Mutexes \in Nat \ {0}

VARIABLES
  part,
  block_size, pFree, event,
  registered, sub, recursion, stack, hFailed,
  mState, start_called, dispatch_in_progress, mPc, src, dst, redispatch, second, inside,
  mFailed,
  sNext, back, seq, sCur, before, sTodo, sSeen,
  dNext, prev, list, dCur, forward, visiting, dTodo, dSeen,
  source, done, block, zero_cnt, block_finished,
  bytes, bits, members,
  initialized, last_ms, now_ms, elapsed,
  task, th, notified, tPc, tCur, gate, ticker, created, sent,
  uTask, sem, uTh, valid, uPc, uCur, acquired, uTicker, user, uCreated, uSent,
  now, target, late

P == INSTANCE EventPool WITH nfree <- pFree
H == INSTANCE EventSync WITH failed <- hFailed
M == INSTANCE Fsm WITH NoState <- None, state <- mState, pc <- mPc, failed <- mFailed
S == INSTANCE Slist WITH
       Main <- MainList, Other <- OtherList, Null <- None,
       next <- sNext, cur <- sCur, todo <- sTodo, seen <- sSeen
D == INSTANCE Dlist WITH
       Sentinel <- MainList, Null <- None,
       next <- dNext, cur <- dCur, todo <- dTodo, seen <- dSeen
C == INSTANCE Cobs
B == INSTANCE Bits
T == INSTANCE Throttle
L == INSTANCE Sleep WITH Modulus <- Modulus * Modulus
A == INSTANCE Pal WITH pc <- tPc, cur <- tCur
U == INSTANCE PalUv WITH
       MaxCreate <- MaxUvCreate,
       task <- uTask, th <- uTh, pc <- uPc, cur <- uCur, ticker <- uTicker,
       created <- uCreated, sent <- uSent

poolVars == <<block_size, pFree, event>>
hubVars == <<registered, sub, recursion, stack, hFailed>>
fsmVars == <<mState, start_called, dispatch_in_progress, mPc, src, dst, redispatch, second,
             inside, mFailed>>
slistVars == <<sNext, back, seq, sCur, before, sTodo, sSeen>>
dlistVars == <<dNext, prev, list, dCur, forward, visiting, dTodo, dSeen>>
cobsVars == <<source, done, block, zero_cnt, block_finished>>
bitVars == <<bytes, bits, members>>
throttleVars == <<initialized, last_ms, now_ms, elapsed>>
palVars == <<task, th, notified, tPc, tCur, gate, ticker, created, sent>>
uvVars == <<uTask, sem, uTh, valid, uPc, uCur, acquired, uTicker, user, uCreated, uSent>>
sleepVars == <<now, target, late>>
libVars == <<part, vars, poolVars, hubVars, fsmVars, slistVars, dlistVars, cobsVars, bitVars,
             throttleVars, palVars, uvVars, sleepVars>>

LibInit ==
  /\ part \in Parts
  /\ Init /\ P!Init /\ H!Init /\ M!Init /\ S!Init /\ D!Init /\ C!Init /\ B!Init /\ T!Init
  /\ A!Init /\ U!Init /\ L!Init

\* Everything but the variables of one part stays.
Only(name) ==
  /\ part = name /\ UNCHANGED part
  /\ name # "onesize" => UNCHANGED vars
  /\ name # "pool" => UNCHANGED poolVars
  /\ name # "hub" => UNCHANGED hubVars
  /\ name # "fsm" => UNCHANGED fsmVars
  /\ name # "slist" => UNCHANGED slistVars
  /\ name # "dlist" => UNCHANGED dlistVars
  /\ name # "cobs" => UNCHANGED cobsVars
  /\ name # "bit" => UNCHANGED bitVars
  /\ name # "throttle" => UNCHANGED throttleVars
  /\ name # "pal" => UNCHANGED palVars
  /\ name # "sleep" => UNCHANGED sleepVars
  /\ name # "uv" => UNCHANGED uvVars

LibNext ==
  \/ part = "onesize" /\ Next /\ Only("onesize")
  \/ part = "pool" /\ P!Next /\ Only("pool")
  \/ part = "hub" /\ H!Next /\ Only("hub")
  \/ part = "fsm" /\ M!Next /\ Only("fsm")
  \/ part = "slist" /\ S!Next /\ Only("slist")
  \/ part = "dlist" /\ D!Next /\ Only("dlist")
  \/ part = "cobs" /\ C!Next /\ Only("cobs")
  \/ part = "bit" /\ B!Next /\ Only("bit")
  \/ part = "throttle" /\ T!Next /\ Only("throttle")
  \/ part = "pal" /\ A!Next /\ Only("pal")
  \/ part = "sleep" /\ L!Next /\ Only("sleep")
  \/ part = "uv" /\ U!Next /\ Only("uv")

\* In both platform layers threads run, calls go on and entry functions return.
LibSpec ==
  /\ LibInit /\ [][LibNext]_libVars
  /\ WF_palVars(part = "pal" /\ A!MainGoesOn)
  /\ \A h \in A!Handle : WF_palVars(part = "pal" /\ A!Runs(h))
  /\ WF_uvVars(part = "uv" /\ U!MainGoesOn)
  /\ \A h \in U!Handle : WF_uvVars(part = "uv" /\ U!Runs(h))

-----------------------------------------------------------------------------
\* Each publish of the synchronous hub (event_sync.c) calls every subscriber of its
\* snapshot once, although handlers call the hub while it does.
HubServes == H!SnapshotServed

\* The finite state machine (fsm.c) is a hierarchical one without hierarchy.
FsmImplementsHsm == M!ImplementsHsm

\* An iterator visits what is in the list all the time, and nothing twice, while the
\* list changes (slist.c, dlist.c).
ListsIterate == S!IteratesAll /\ D!IteratesAll

\* What refers to something else refers to what it should: the pointers of both lists,
\* and what is read of them, are the lists (slist.c, dlist.c); subscriptions are of
\* registered handlers, and nested calls are counted exactly (event_sync.c); and a
\* machine rests in a state that was entered (fsm.c).
LinksExact ==
  /\ S!PointersAreLists /\ (part = "slist" => S!ReadsAgree)
  /\ D!PointersAreList /\ (part = "dlist" => D!ReadsAgree)
  /\ H!HubConsistent
  /\ M!RestsInside

\* Events lie in the pool that fits them best and go back to it (event_pool.c,
\* event.c), and a log of a pool shows exactly the blocks in use (onesize.c).
PoolsExact == P!PoolsExact /\ LogsAllocated

\* What the encoder writes can be decoded to what it read, but for the code of the last
\* block of some sources, and takes no more room than a code per block (cobszpe.c); the
\* mask of the bit array agrees with its bits (bit.c), the throttle with the time that
\* passed, though its clock wraps around (throttle.c), and so does a loop that sleeps
\* till the next period (posix/pal.c).
ValuesExact ==
  /\ C!EncodesButLastCode /\ C!FitsCodes
  /\ B!BitsExact /\ T!OncePerInterval /\ L!KeepsPeriod

\* A thread finds its own descriptor and main joins each thread once; with libuv
\* its semaphore is alive and holds its own notifications, and mutexes in use are
\* valid (posix/pal.c, libuv/pal.c).
TasksKnown ==
  /\ A!OwnIdFound /\ A!JoinsOnce
  /\ U!NotifiedItself /\ U!JoinsOnce /\ U!MutexesKept

\* The start-up gate holds until every task that main waits for is ready, and no
\* wait of main for tasks lasts for ever (posix/pal.c, libuv/pal.c).
TasksEnd == A!GateWaitsForAll /\ A!ShutdownEnds /\ U!GateWaitsForAll /\ U!ShutdownEnds

=============================================================================
