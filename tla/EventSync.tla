----------------------------- MODULE EventSync -----------------------------
(***************************************************************************)
(* libs/event/event_sync.c: a hub that calls the handlers of an event from *)
(* within post and publish.  A handler may call any function of the hub,   *)
(* so calls nest: stack holds one frame per post or publish under way, the *)
(* last one being the innermost.  What handlers return is left out.        *)
(***************************************************************************)
EXTENDS Integers, Sequences, FiniteSets

CONSTANTS NHandlers,      \* AM_EVT_HANDLERS_NUM_MAX
          ByteBits,       \* handlers per byte of a subscription list, 8
          Topics,         \* events that are published
          RecursionMax    \* AM_SYNC_RECURSION_MAX

Handler == 0 .. NHandlers - 1
Idle == NHandlers       \* no handler of the frame is running

VARIABLES registered,     \* handlers[].fn # NULL
          sub, recursion, stack,
          failed          \* AM_ASSERT(handler->fn) failed

vars == <<registered, sub, recursion, stack, failed>>
hub == <<registered, sub>>

Init ==
  /\ registered = {} /\ sub = [t \in Topics |-> {}]
  /\ recursion = 0 /\ stack = <<>>
  /\ failed = FALSE

\* The program, or the handler that runs, may call the hub.
MayCall == ~failed /\ (stack # <<>> => stack[Len(stack)].running # Idle)

-----------------------------------------------------------------------------
\* The lowest free identifier.
Register ==
  /\ MayCall
  /\ \E h \in Handler \ registered :
       /\ \A i \in 0 .. h - 1 : i \in registered
       /\ registered' = registered \cup {h}
  /\ UNCHANGED <<sub, recursion, stack, failed>>

Subscribe(h, t) ==
  /\ MayCall /\ h \in registered
  /\ sub' = [sub EXCEPT ![t] = @ \cup {h}]
  /\ UNCHANGED <<registered, recursion, stack, failed>>

Unsubscribe(h, t) ==
  /\ MayCall /\ h \in registered
  /\ sub' = [sub EXCEPT ![t] = @ \ {h}]
  /\ UNCHANGED <<registered, recursion, stack, failed>>

UnsubscribeAll(h) ==
  /\ MayCall /\ h \in registered
  /\ sub' = [t \in Topics |-> sub[t] \ {h}]
  /\ UNCHANGED <<registered, recursion, stack, failed>>

\* Mutant: the subscriptions stay.
UnregisterOnly(h) ==
  /\ MayCall /\ h \in registered
  /\ registered' = registered \ {h}
  /\ UNCHANGED <<sub, recursion, stack, failed>>

Unregister(h) ==
  /\ MayCall /\ h \in registered
  /\ registered' = registered \ {h}
  /\ sub' = [t \in Topics |-> sub[t] \ {h}]
  /\ UNCHANGED <<recursion, stack, failed>>

-----------------------------------------------------------------------------
\* A frame: the copy of the list of a publish, who is still to be called from
\* it, who was, and the handler that runs.
Frame(S, h) == [rest |-> S, snapshot |-> S, called |-> {}, running |-> h]

Enter(frame) ==
  /\ recursion < RecursionMax
  /\ recursion' = recursion + 1
  /\ stack' = Append(stack, frame)
  /\ UNCHANGED <<hub, failed>>

Post(h) == MayCall /\ h \in registered /\ Enter(Frame({}, h))
Publish(t) == MayCall /\ Enter(Frame(sub[t], Idle))

Byte(h) == h \div ByteBits

\* Mutant: only the first byte of the list is looked at.
FirstByte(S, h) == h \in S /\ Byte(h) = 0 /\ \A x \in S : Byte(x) = 0 => x <= h

\* Bytes in ascending order, the bits of a byte in descending order.
Highest(S, h) ==
  h \in S /\ \A x \in S : Byte(h) < Byte(x) \/ (Byte(h) = Byte(x) /\ x <= h)

Top == stack[Len(stack)]
SetTop(frame) == stack' = [stack EXCEPT ![Len(stack)] = frame]

PublishCall ==
  /\ ~failed /\ stack # <<>> /\ Top.running = Idle
  /\ \E h \in Handler :
       /\ Highest(Top.rest, h)
       /\ failed' = (h \notin registered)
       /\ SetTop([Top EXCEPT !.rest = @ \ {h}, !.running = h, !.called = @ \cup {h}])
  /\ UNCHANGED <<hub, recursion>>

\* The handler returns to a publish ...
HandlerReturn ==
  /\ ~failed /\ stack # <<>> /\ Top.running # Idle /\ Top.called # {}
  /\ SetTop([Top EXCEPT !.running = Idle])
  /\ UNCHANGED <<hub, recursion, failed>>

Leave ==
  /\ stack' = SubSeq(stack, 1, Len(stack) - 1)
  /\ recursion' = recursion - 1
  /\ UNCHANGED <<hub, failed>>

\* ... or to a post, which returns then.
PostReturn ==
  ~failed /\ stack # <<>> /\ Top.running # Idle /\ Top.called = {} /\ Leave

\* Mutant: a publish without subscribers returns without counting down.
PublishReturnEarly ==
  /\ ~failed /\ stack # <<>> /\ Top.running = Idle /\ Top.rest = {}
  /\ IF Top.called # {} THEN Leave
     ELSE stack' = SubSeq(stack, 1, Len(stack) - 1) /\ UNCHANGED <<hub, recursion, failed>>

PublishReturn ==
  ~failed /\ stack # <<>> /\ Top.running = Idle /\ (\A h \in Handler : ~Highest(Top.rest, h)) /\ Leave

Next ==
  \/ Register
  \/ \E h \in Handler, t \in Topics : Subscribe(h, t) \/ Unsubscribe(h, t)
  \/ \E h \in Handler : UnsubscribeAll(h) \/ Unregister(h) \/ Post(h)
  \/ \E t \in Topics : Publish(t)
  \/ PublishCall \/ PublishReturn \/ PostReturn \/ HandlerReturn
  \/ failed /\ UNCHANGED vars

Spec == Init /\ [][Next]_vars

-----------------------------------------------------------------------------
TypeOK ==
  /\ registered \subseteq Handler /\ sub \in [Topics -> SUBSET Handler]
  /\ recursion \in 0 .. RecursionMax /\ failed \in BOOLEAN

\* Nested calls are counted exactly, also by those that call nobody, so that the
\* limit on recursion is the limit on the depth of calls.  Only registered handlers
\* are subscribed, however calls are nested: the next owner of an identifier starts
\* without subscriptions.
HubConsistent ==
  /\ recursion = Len(stack)
  /\ \A t \in Topics : sub[t] \subseteq registered

\* A publish has called every subscriber of its snapshot, none of them twice, when
\* it returns, whatever the handlers did to the list meanwhile.
SnapshotServed ==
  [][/\ PublishReturn => Top.called = Top.snapshot
     /\ PublishCall => stack'[Len(stack)].running \in Top.snapshot \ Top.called]_vars

=============================================================================
