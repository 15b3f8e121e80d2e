---------------------------- MODULE DeliveryQueue ----------------------------
(***************************************************************************)
(* A delivery queue (src/src/delivery/delivery_queue.{hpp,cpp}) with the   *)
(* registrations that push to it (queued_registration.hpp), the threads of *)
(* the host that dispatch and release it, and its wake (src/src/wake).     *)
(*                                                                         *)
(* Each section under the queue's mutex, each atomic access to the two     *)
(* dispatch flags and each call of host code is one action, so that        *)
(* threads interleave as they can in the code.  A registration is driven   *)
(* by one thread at a time: its owner retires it after its last push.      *)
(***************************************************************************)
EXTENDS Integers, Sequences, SequencesExt, FiniteSets, Functions

CONSTANTS
  Registrations,         (* Callback registrations that name the queue.     *)
  EventRegistrations,    (* Those of them that push runtime events.         *)
  Dispatchers,           (* Host threads that dispatch the queue.           *)
  Host,                  (* Another host thread, which may release it.      *)
  HasAbandonHook,        (* release_abandoned_user_data is not null.        *)
  HostKeepsQueue,        (* The host never releases the queue while one of  *)
                         (* its own calls registers with it.                *)
  MaxCalls,              (* Bound: the calls of each registration.          *)
  Nobody, NoItem

ASSUME RegistrationAssumption == EventRegistrations \subseteq Registrations
ASSUME OptionAssumption == HasAbandonHook \in BOOLEAN /\ HostKeepsQueue \in BOOLEAN
ASSUME BoundAssumption == MaxCalls \in [Registrations -> Nat]
ASSUME ActorAssumption ==
  /\ Nobody \notin Dispatchers \union Registrations \union {Host}
  /\ Registrations \intersect Dispatchers = {}
  /\ Host \notin Dispatchers \union Registrations

VARIABLES
  live,                (* The handle resolves in the handle table.          *)
  head,                (* The queued items, from head_ to tail_.            *)
  running,             (* running_: what a dispatch took and has not run.   *)
  held,                (* held_: the registrations linked for the hook.     *)
  closed,
  dispatching, dispatch_requested,
  registration,        (* Where each registration is in its life.           *)
  hold,                (* Its AbandonHold still has a node.                 *)
  calls,               (* How many calls it has pushed.                     *)
  notify,              (* Where its thread is in a wake notify.             *)
  wake_closing,        (* Wake::closing_.                                   *)
  wake_released,       (* The wake's own user data has been released.       *)
  dispatcher,          (* Where each dispatching thread is.                 *)
  current,             (* The item that the thread runs.                    *)
  closer,              (* Who runs close(), and how far it is.              *)
  taken,               (* What close() took out of the queue.               *)
  signalled,           (* The host: a wake asked for a dispatch.            *)
  serial,              (* History: the calls accepted so far.               *)
  ran,                 (* History: the calls that started, in order.        *)
  released, abandoned  (* History: how often user data was handed back.     *)

queue_vars  == <<head, running, held, closed>>
flag_vars   == <<dispatching, dispatch_requested>>
owner_vars  == <<registration, hold, calls>>
wake_vars   == <<wake_closing, wake_released>>
thread_vars == <<dispatcher, current>>
close_vars  == <<live, closer, taken>>
vars == <<queue_vars, flag_vars, owner_vars, notify, wake_vars, thread_vars,
          close_vars, signalled, serial, ran, released, abandoned>>

NobodyCloses == [who |-> Nobody, step |-> "open"]

Init ==
  /\ live = TRUE
  /\ head = <<>> /\ running = <<>> /\ held = {} /\ closed = FALSE
  /\ dispatching = FALSE /\ dispatch_requested = FALSE
  /\ registration = [r \in Registrations |-> "none"]
  /\ hold = [r \in Registrations |-> FALSE]
  /\ calls = [r \in Registrations |-> 0]
  /\ notify = [r \in Registrations |-> "none"]
  /\ wake_closing = FALSE /\ wake_released = FALSE
  /\ dispatcher = [d \in Dispatchers |-> "idle"]
  /\ current = [d \in Dispatchers |-> NoItem]
  /\ closer = NobodyCloses
  /\ taken = [items |-> <<>>, held |-> {}]
  /\ signalled = FALSE
  /\ serial = 0 /\ ran = <<>>
  /\ released = [r \in Registrations |-> 0]
  /\ abandoned = [r \in Registrations |-> 0]
-----------------------------------------------------------------------------
(* Items and appends.  `last` marks a registration's last call, which also *)
(* releases its user data; `calls` numbers the calls that the item makes.  *)
NewItem(r, last) == [reg |-> r, last |-> last, calls |-> <<serial + 1>>]

(* A mutant: append() links the item at the wrong end.                     *)
Prepended(item) == <<item>> \o head

Appended(item) == Append(head, item)

(* A mutant: append() wakes only when no dispatch has calls left to run.   *)
CopiesWakeWhenIdle == head = <<>> /\ ~dispatching

(* The wake is copied under the lock when the queue was empty.             *)
CopiesWake == head = <<>>

(* append(), for a queue that is open.                                     *)
AppendItem(r, last) ==
  /\ head' = Appended(NewItem(r, last))
  /\ notify' = [notify EXCEPT ![r] = IF CopiesWake THEN "copied" ELSE "none"]
  /\ serial' = serial + 1

EventItems(r) == {i \in DOMAIN head : head[i].reg = r /\ ~head[i].last}

(* A mutant: an event joins an item of its registration that is not last.  *)
JoinsAny(r) == r \in EventRegistrations /\ EventItems(r) # {}

(* push_event(): an event joins an item of its registration at the tail.   *)
JoinsTail(r) == r \in EventRegistrations /\ Len(head) \in EventItems(r)

AppendEvent(r) ==
  /\ head' = [head EXCEPT ![Max(EventItems(r))].calls = Append(@, serial + 1)]
  /\ serial' = serial + 1
  /\ UNCHANGED notify
-----------------------------------------------------------------------------
(* The life of a registration.  resolve_delivery_queue() leases the queue, *)
(* the constructor holds user data for the abandon hook, and then the call *)
(* that registers accepts the registration or rejects it.                  *)
MovesTo(r, step) == registration' = [registration EXCEPT ![r] = step]

Resolve(r) ==
  /\ registration[r] = "none"
  /\ live
  /\ MovesTo(r, "resolved")
  /\ UNCHANGED <<head, held, hold, calls, notify, serial>>

(* hold_user_data(): no hold without a hook, or on a closed queue.         *)
Construct(r) ==
  /\ registration[r] = "resolved"
  /\ MovesTo(r, "constructed")
  /\ IF HasAbandonHook /\ ~closed
     THEN held' = held \union {r} /\ hold' = [hold EXCEPT ![r] = TRUE]
     ELSE UNCHANGED <<held, hold>>
  /\ UNCHANGED <<head, calls, notify, serial>>

AcceptRegistration(r) ==
  /\ registration[r] = "constructed"
  /\ MovesTo(r, "accepted")
  /\ UNCHANGED <<head, held, hold, calls, notify, serial>>

(* The registering call failed: destroying the registration withdraws its  *)
(* hold, unless close() took the node already.                             *)
RejectRegistration(r) ==
  /\ registration[r] = "constructed"
  /\ MovesTo(r, "rejected")
  /\ hold' = [hold EXCEPT ![r] = FALSE]
  /\ held' = IF hold[r] /\ ~closed THEN held \ {r} ELSE held
  /\ UNCHANGED <<head, calls, notify, serial>>

(* push() and push_event() of one call.  A closed queue refuses the call,  *)
(* and its owner disposes of it.                                           *)
Push(r) ==
  /\ registration[r] = "accepted" /\ notify[r] = "none"
  /\ calls[r] < MaxCalls[r]
  /\ calls' = [calls EXCEPT ![r] = @ + 1]
  /\ \/ closed /\ UNCHANGED <<head, notify, serial>>
     \/ ~closed /\ JoinsTail(r) /\ AppendEvent(r)
     \/ ~closed /\ ~JoinsTail(r) /\ AppendItem(r, FALSE)
  /\ UNCHANGED <<registration, held, hold>>

(* A mutant: retirement leaves its hold linked.                            *)
SettlesNothing(r) == UNCHANGED held

Settles(r) == held' = held \ {r}

(* retire(), or a completion's only call: push(item, hold) queues the last *)
(* call and settles the hold as one step against close().                  *)
Retire(r) ==
  /\ registration[r] = "accepted" /\ notify[r] = "none"
  /\ MovesTo(r, "retired")
  /\ hold' = [hold EXCEPT ![r] = FALSE]
  /\ \/ closed /\ UNCHANGED <<head, held, notify, serial>>
     \/ ~closed /\ Settles(r) /\ AppendItem(r, TRUE)
  /\ UNCHANGED calls
-----------------------------------------------------------------------------
(* Wake::notify() by a pushing thread, outside the queue's mutex.  The     *)
(* copy of the wake that the thread made keeps the wake alive; dropping    *)
(* the last reference releases the wake's user data.                       *)
ClosersReference(c) ==
  {Host : x \in {c.step} \intersect {"open", "removed", "closing wake"}}

(* A mutant: the pushing thread borrows the wake instead of copying it.    *)
BorrowedWakeReferences(n, c) == ClosersReference(c)

WakeReferences(n, c) == {r \in Registrations : n[r] # "none"} \union ClosersReference(c)

(* A mutant: the last reference is leaked.                                 *)
LeaksWake(n, c) == UNCHANGED wake_released

DropsWake(n, c) == wake_released' = (wake_released \/ WakeReferences(n, c) = {})

(* The queue's own wake never names a queue, so the callback runs here.    *)
NotifyBegin(r) ==
  /\ notify[r] = "copied"
  /\ notify' = [notify EXCEPT ![r] = IF wake_closing THEN "leaving" ELSE "callback"]
  /\ UNCHANGED <<wake_vars, signalled>>

(* The host's wake callback asks for a dispatch.                           *)
NotifyCallback(r) ==
  /\ notify[r] = "callback"
  /\ closer.who # r \/ closer.step = "closed"
  /\ notify' = [notify EXCEPT ![r] = "leaving"]
  /\ signalled' = TRUE
  /\ UNCHANGED wake_vars

NotifyEnd(r) ==
  /\ notify[r] = "leaving"
  /\ notify' = [notify EXCEPT ![r] = "none"]
  /\ DropsWake(notify', closer)
  /\ UNCHANGED <<wake_closing, signalled>>
-----------------------------------------------------------------------------
(* dispatch().  A thread of the host starts one at any time, and after a   *)
(* wake in particular; it needs the handle only to begin.                  *)
At(d, step) == dispatcher[d] = step
Goto(d, step) == dispatcher' = [dispatcher EXCEPT ![d] = step]

DispatchBegin(d) ==
  /\ At(d, "idle")
  /\ live
  /\ signalled' = FALSE
  /\ dispatch_requested' = TRUE
  /\ Goto(d, "exchange")
  /\ UNCHANGED <<head, running, dispatching, current, ran, released>>

(* A mutant: the flag is not looked at before it is set.                   *)
AcquiresAlways == TRUE

Acquires == ~dispatching

(* A thread that loses its first exchange reports BUSY.                    *)
DispatchExchange(d) ==
  /\ At(d, "exchange")
  /\ dispatching' = TRUE
  /\ Goto(d, IF Acquires THEN "check" ELSE "idle")
  /\ UNCHANGED <<head, running, dispatch_requested, current, signalled, ran, released>>

DispatchCheck(d) ==
  /\ At(d, "check")
  /\ dispatch_requested' = FALSE
  /\ Goto(d, IF dispatch_requested THEN "take" ELSE "clear")
  /\ UNCHANGED <<head, running, dispatching, current, signalled, ran, released>>

(* run_calls() takes the queue ...                                         *)
DispatchTake(d) ==
  /\ At(d, "take")
  /\ IF closed
     THEN Goto(d, "check") /\ UNCHANGED <<head, running>>
     ELSE Goto(d, "next") /\ running' = head /\ head' = <<>>
  /\ UNCHANGED <<flag_vars, current, signalled, ran, released>>

(* ... and pops one item at a time under the lock.                         *)
DispatchNext(d) ==
  /\ At(d, "next")
  /\ IF closed \/ running = <<>>
     THEN Goto(d, "check") /\ UNCHANGED <<running, current, ran>>
     ELSE /\ Goto(d, "call")
          /\ current' = [current EXCEPT ![d] = Head(running)]
          /\ running' = Tail(running)
          /\ ran' = ran \o Head(running).calls
  /\ UNCHANGED <<head, flag_vars, signalled, released>>

DropsItem(d) == current' = [current EXCEPT ![d] = NoItem]

(* run_call() returns: the last call has released the user data.           *)
DispatchReturn(d) ==
  /\ At(d, "call")
  /\ closer.who # d \/ closer.step = "closed"
  /\ released' = [released EXCEPT ![current[d].reg] =
                    @ + (IF current[d].last THEN 1 ELSE 0)]
  /\ DropsItem(d)
  /\ Goto(d, "next")
  /\ UNCHANGED <<head, running, flag_vars, signalled, ran>>

(* A call that dispatches its own queue leaves a request and gets BUSY.    *)
DispatchNested(d) ==
  /\ At(d, "call")
  /\ live
  /\ ~dispatch_requested
  /\ dispatch_requested' = TRUE
  /\ UNCHANGED <<head, running, dispatching, thread_vars, signalled, ran, released>>

DispatchClear(d) ==
  /\ At(d, "clear")
  /\ dispatching' = FALSE
  /\ Goto(d, "recheck")
  /\ UNCHANGED <<head, running, dispatch_requested, current, signalled, ran, released>>

(* A mutant: dispatch() returns without looking for a late request.        *)
SeesNoRequest == FALSE

SeesRequest == dispatch_requested

DispatchRecheck(d) ==
  /\ At(d, "recheck")
  /\ Goto(d, IF SeesRequest THEN "exchange" ELSE "idle")
  /\ UNCHANGED <<head, running, flag_vars, current, signalled, ran, released>>
-----------------------------------------------------------------------------
(* release_delivery_queue().  The handle goes first, so close() runs once. *)
(* The host releases from a thread of its own, from inside a call, or from *)
(* inside the wake.                                                        *)
MayRelease(who) ==
  \/ who = Host
  \/ who \in Dispatchers /\ At(who, "call")
  \/ who \in Registrations /\ notify[who] = "callback"

Registering(r) == registration[r] \in {"resolved", "constructed"}

ReleaseQueue(who) ==
  /\ live
  /\ MayRelease(who)
  /\ HostKeepsQueue => \A r \in Registrations : ~Registering(r)
  /\ live' = FALSE
  /\ closer' = [who |-> who, step |-> "removed"]
  /\ UNCHANGED <<queue_vars, wake_vars, taken, abandoned>>

TakesAll == [items |-> running \o head, held |-> held]

CloseLock ==
  /\ closer.step = "removed"
  /\ closed' = TRUE
  /\ taken' = TakesAll
  /\ running' = <<>> /\ head' = <<>> /\ held' = {}
  /\ closer' = [closer EXCEPT !.step = "closing wake"]
  /\ UNCHANGED <<live, wake_vars, abandoned>>

(* wake->close() and wake.reset().                                         *)
CloseWake ==
  /\ closer.step = "closing wake"
  /\ wake_closing' = TRUE
  /\ closer' = [closer EXCEPT !.step = "abandoning"]
  /\ DropsWake(notify, closer')
  /\ UNCHANGED <<live, queue_vars, taken, abandoned>>

Reports(r) == IF HasAbandonHook THEN [abandoned EXCEPT ![r] = @ + 1] ELSE abandoned

(* abandon_items(): a last call that never ran is reported to the hook.    *)
AbandonItem ==
  /\ closer.step = "abandoning"
  /\ taken.items # <<>>
  /\ LET item == Head(taken.items)
     IN  abandoned' = IF item.last THEN Reports(item.reg) ELSE abandoned
  /\ taken' = [taken EXCEPT !.items = Tail(@)]
  /\ UNCHANGED <<live, queue_vars, wake_vars, closer>>

(* The registrations whose last call was never queued are reported next.   *)
AbandonHeld ==
  /\ closer.step = "abandoning"
  /\ taken.items = <<>>
  /\ \E r \in taken.held :
       /\ abandoned' = Reports(r)
       /\ taken' = [taken EXCEPT !.held = @ \ {r}]
  /\ UNCHANGED <<live, queue_vars, wake_vars, closer>>

CloseReturn ==
  /\ closer.step = "abandoning"
  /\ taken.items = <<>> /\ taken.held = {}
  /\ closer' = [closer EXCEPT !.step = "closed"]
  /\ UNCHANGED <<live, queue_vars, wake_vars, taken, abandoned>>
-----------------------------------------------------------------------------
RegistrationStep(r) ==
  /\ \/ Resolve(r) \/ Construct(r) \/ AcceptRegistration(r)
     \/ RejectRegistration(r) \/ Push(r) \/ Retire(r)
  /\ UNCHANGED <<running, closed, flag_vars, wake_vars, thread_vars, close_vars,
                 signalled, ran, released, abandoned>>

NotifyStep(r) ==
  /\ NotifyBegin(r) \/ NotifyCallback(r) \/ NotifyEnd(r)
  /\ UNCHANGED <<queue_vars, flag_vars, owner_vars, thread_vars, close_vars,
                 serial, ran, released, abandoned>>

(* What no dispatch changes.                                               *)
KeptByDispatch == <<held, closed, owner_vars, notify, wake_vars, close_vars,
                    serial, abandoned>>

HostDispatch(d) == (DispatchBegin(d) \/ DispatchNested(d)) /\ UNCHANGED KeptByDispatch

DispatchStep(d) ==
  /\ \/ DispatchExchange(d) \/ DispatchCheck(d) \/ DispatchTake(d)
     \/ DispatchNext(d) \/ DispatchReturn(d) \/ DispatchClear(d)
     \/ DispatchRecheck(d)
  /\ UNCHANGED KeptByDispatch

KeptByClose == <<flag_vars, owner_vars, notify, thread_vars, signalled, serial,
                 ran, released>>

HostRelease ==
  /\ \E who \in {Host} \union Dispatchers \union Registrations : ReleaseQueue(who)
  /\ UNCHANGED KeptByClose

CloseStep ==
  /\ CloseLock \/ CloseWake \/ AbandonItem \/ AbandonHeld \/ CloseReturn
  /\ UNCHANGED KeptByClose

Next ==
  \/ \E r \in Registrations : RegistrationStep(r) \/ NotifyStep(r)
  \/ \E d \in Dispatchers : HostDispatch(d) \/ DispatchStep(d)
  \/ HostRelease \/ CloseStep

(* A thread inside a library call or a callback goes on to its end, and    *)
(* the host keeps the contract of its wake: it dispatches after each wake  *)
(* (delivery.h).                                                           *)
WokenDispatch ==
  signalled /\ \E d \in Dispatchers : DispatchBegin(d) /\ UNCHANGED KeptByDispatch

Fairness ==
  /\ \A r \in Registrations : WF_vars(NotifyStep(r))
  /\ \A d \in Dispatchers : WF_vars(DispatchStep(d))
  /\ WF_vars(WokenDispatch)
  /\ WF_vars(CloseStep)

Safety == Init /\ [][Next]_vars
Spec   == Safety /\ Fairness
-----------------------------------------------------------------------------
Steps == {"idle", "exchange", "check", "take", "next", "call", "clear", "recheck"}
Lives == {"none", "resolved", "constructed", "accepted", "rejected", "retired"}
MaxSerial == SumFunction(MaxCalls) + Cardinality(Registrations)
Item == [reg : Registrations, last : BOOLEAN, calls : Seq(1 .. MaxSerial)]

TypeOK ==
  /\ {live, closed, dispatching, dispatch_requested} \subseteq BOOLEAN
  /\ {wake_closing, wake_released, signalled} \subseteq BOOLEAN
  /\ {head, running, taken.items} \subseteq Seq(Item)
  /\ held \subseteq Registrations /\ taken.held \subseteq Registrations
  /\ registration \in [Registrations -> Lives]
  /\ hold \in [Registrations -> BOOLEAN]
  /\ \A r \in Registrations : calls[r] \in 0 .. MaxCalls[r]
  /\ notify \in [Registrations -> {"none", "copied", "callback", "leaving"}]
  /\ dispatcher \in [Dispatchers -> Steps]
  /\ \A d \in Dispatchers : IF At(d, "call") THEN current[d] \in Item
                                           ELSE current[d] = NoItem
  /\ closer.step \in {"open", "removed", "closing wake", "abandoning", "closed"}
  /\ serial \in 0 .. MaxSerial /\ ran \in Seq(1 .. serial)

(* dispatch() (delivery_queue.cpp:426): however threads overlap, one of    *)
(* them runs calls, and it holds dispatching_ all the while.  Calls of one *)
(* queue therefore never run at the same time.                             *)
OneDispatchAtATime ==
  LET inside == {d \in Dispatchers :
                   dispatcher[d] \in {"check", "take", "next", "call", "clear"}}
  IN  IF dispatching THEN Cardinality(inside) = 1 ELSE inside = {}

(* A dispatch that reports BUSY leaves dispatch_requested_ behind.  The    *)
(* request is never stranded: while it stands, some thread is inside       *)
(* dispatch() and will still look at it.                                   *)
NoRequestIsStranded ==
  dispatch_requested => \E d \in Dispatchers : ~At(d, "idle")

(* The items that may still call into a registration.                      *)
Outstanding(r) ==
  {item \in ToSet(head) \union ToSet(running)
              \union {current[d] : d \in {d \in Dispatchers : At(d, "call")}} :
     item.reg = r}

(* QueuedRegistration::retire() and run_call(): user data is released      *)
(* after the last call, so that once it is, nothing queued, taken or       *)
(* running still uses it.                                                  *)
ReleaseIsLast ==
  \A r \in Registrations : released[r] > 0 => Outstanding(r) = {}

(* push(item, hold) and close(): user data goes back to the host at most   *)
(* once, by its release function or by the queue's hook, and not at all    *)
(* when the registering call failed.                                       *)
UserDataSettledOnce ==
  \A r \in Registrations :
    /\ released[r] + abandoned[r] <= 1
    /\ registration[r] = "rejected" /\ HostKeepsQueue =>
         released[r] + abandoned[r] = 0

(* delivery.h: the hook runs in place of a release function that can no    *)
(* longer run.  Once the queue's release has returned, every accepted      *)
(* registration has had its user data back or is running its last call.    *)
AbandonStandsInForRelease ==
  closer.step = "closed" /\ HasAbandonHook =>
    \A r \in Registrations :
      registration[r] \in {"accepted", "retired"} =>
        \/ released[r] + abandoned[r] = 1
        \/ \E d \in Dispatchers : At(d, "call") /\ current[d].reg = r /\ current[d].last

(* The hook stands in for a release function, which runs after the last    *)
(* call to the callback (guidelines.mdx): no call of a registration runs   *)
(* once the hook has its user data.                                        *)
AbandonFollowsLastCall ==
  \A r \in Registrations : abandoned[r] > 0 =>
    \A d \in Dispatchers : At(d, "call") => current[d].reg # r

(* append() copies the wake under the lock: the wake's user data outlives  *)
(* every notify, even one that overlaps the queue's release.               *)
WakeOutlivesItsCallback ==
  wake_released => \A r \in Registrations : notify[r] # "callback"

(* delivery.h: the wake tells the host when the empty queue gains calls,   *)
(* and a dispatch that reports BUSY leaves its calls to the running one.   *)
(* A host that dispatches after each wake misses no call.                  *)
EveryCallRuns ==
  \A n \in 1 .. MaxSerial : serial >= n ~> Contains(ran, n) \/ ~live

(* close() returns, and the last notify to overlap it lets the wake go.    *)
ReleaseEnds == ~live ~> closer.step = "closed" /\ wake_released

(* From outside, all of this is one FIFO channel.                          *)
CallsOf(items) == FlattenSeq([i \in DOMAIN items |-> items[i].calls])

Contract == INSTANCE DeliveryContract
            WITH pending   <- CallsOf(running \o head),
                 delivered <- ran,
                 released  <- closed

ImplementsContract == Contract!Spec
=============================================================================
