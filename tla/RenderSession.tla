---------------------------- MODULE RenderSession ----------------------------
(***************************************************************************)
(* A texture render session (src/src/render/render_session_common.cpp):    *)
(* its driver, which is a core worker or the host's own graphics thread,   *)
(* takes work from one queue; host threads demand frames, acquire them     *)
(* from a ring of borrowed textures, hand them back, replace or take away  *)
(* the target, detach, abandon and dispose; the map's worker applies       *)
(* commands and publishes updates; the teardown lane retires a disposed    *)
(* session.                                                                *)
(*                                                                         *)
(* `s` holds what control_mutex guards.  One section under that mutex, or  *)
(* several in a row of which only one meets another thread, is one action, *)
(* written with the functions the code has: each takes the session and     *)
(* returns it changed.  The wakes that a section defers run with it.       *)
(***************************************************************************)
EXTENDS Integers, SequencesExt, FiniteSets

CONSTANTS
  Kinds,          (* The drivers to consider: "core" and "caller".          *)
  RendersAhead,   (* Those whose backend does not wait for the GPU.         *)
  Ring,           (* The textures of the ring.                              *)
  Policies,       (* The flags of a demand: "needed", "wait" and "force".   *)
  Events,         (* Bound: the calls, updates and failures to consider ... *)
  MaxEvents       (* ... and how many of them.                              *)

ASSUME KindAssumption ==
  Kinds \subseteq {"core", "caller"} /\ RendersAhead \subseteq Kinds
ASSUME PolicyAssumption == Policies \subseteq {"needed", "wait", "force"}
ASSUME BoundAssumption ==
  Ring \in Nat \ {0} /\ MaxEvents \in Nat

VARIABLES
  s,          (* The session.                                               *)
  map,        (* What it reads of its map, and the map's worker.            *)
  seen,       (* What the next read of the applied count may return first.  *)
  driver,     (* Where the driver's thread is.                              *)
  abandoner,  (* Where a host thread is in abandon ...                      *)
  disposer,   (* ... and in dispose.                                        *)
  lane,       (* The teardown lane, with this session's retirement node.    *)
  events      (* How many of the Events there were so far.                  *)

vars == <<s, map, seen, driver, abandoner, disposer, lane, events>>

Slots   == 1 .. Ring
Nothing == -1
NoItem  == [kind |-> "none", of |-> 0]
Item(kind, of) == [kind |-> kind, of |-> of]

AtRest(at) == [at |-> at, item |-> NoItem, demand |-> 0, releasing |-> FALSE,
               slot |-> 0, update |-> 0, shows |-> 0]

Init ==
  /\ s \in [kind : Kinds,
       state : {"attaching"}, created : {"unknown"}, target : {TRUE}, open : {TRUE},
       work : {<<Item("attach", 0)>>}, demands : {<<>>}, waiting : {<<>>}, log : {<<>>},
       barriers : {0}, passed : {0}, releases : {0}, retargets : {0},
       changes : {FALSE}, drawn : {Nothing}, awaited : {FALSE}, serviced : {FALSE},
       slot : {[i \in Slots |-> "free"]}, ready : {<<>>}, views : {{}}, reading : {{}},
       flight : {0}, asked : {FALSE}, call : {FALSE}, called : {TRUE}, owed : {TRUE},
       disposed : {FALSE}, due : {FALSE}, invalid : {FALSE}, stop : {FALSE}, hook : {FALSE},
       waiters : {0}, objects : {TRUE}, complete : {FALSE}]
  /\ map \in [sent : {0}, applied : {0}, update : {0, 1}, shows : {0},
              announce : {FALSE}, at : {"idle"}, closed : {FALSE}]
  /\ seen = 0
  /\ driver = AtRest("idle")
  /\ abandoner = "idle" /\ disposer = "idle"
  /\ lane = [queued |-> 0, parked |-> 0, at |-> "idle"]
  /\ events = 0

(* The sequence without the members of S.                                  *)
Without(q, S) ==
  LET kept[n \in 0 .. Len(q)] ==
        IF n = 0 THEN <<>>
        ELSE IF q[n] \in S THEN kept[n - 1] ELSE Append(kept[n - 1], q[n])
  IN  kept[Len(q)]

SlotsThat(t, is) == {i \in Slots : t.slot[i] = is}
Held(t)        == SlotsThat(t, "held")                 \* acquired_frame_count
AllQuarantined(t) == SlotsThat(t, "quarantined") = Slots
Live(t)        == t.state \in {"attached", "detaching"}
Over(t)        == t.state \in {"detached", "abandoned"}
-----------------------------------------------------------------------------
(* Which work the driver may take, and who is told of it.                  *)
RendersFrame(w) == w.kind = "frame" \/ (w.kind = "service" /\ w.of # 0)

FrameWaitsForGpu(t) ==
  t.work # <<>> /\ RendersFrame(Head(t.work)) /\ t.flight >= Ring

NeedsCommands(t) ==
  /\ RendersFrame(Head(t.work))
  /\ t.state \in {"attaching", "attached"}
  /\ Head(t.work).of \in ToSet(t.demands)

Needed(t) == t.log[Head(t.demands)].needs

(* A mutant: the applied count is not read again.                          *)
AppliedInTime(t) == seen >= Needed(t)

(* map_commands_ready_locked() reads the count, sets the flag and reads    *)
(* the count again; the map counts a command and then reads the flag.      *)
Applied(t) == seen >= Needed(t) \/ map.applied >= Needed(t)

Awaits(t) ==
  /\ t.work # <<>> /\ ~FrameWaitsForGpu(t)
  /\ NeedsCommands(t) /\ seen < Needed(t)

Checked(t) == [t EXCEPT !.awaited = @ \/ Awaits(t)]

Runnable(t) ==
  /\ t.work # <<>> /\ ~FrameWaitsForGpu(t)
  /\ Head(t.work).kind = "attach" => t.created # "unknown"
  /\ NeedsCommands(t) => Applied(t)

GpuReportNeeded(t) == FrameWaitsForGpu(t) /\ ~t.asked

(* The worker_condition of a core worker, the driver wake of a caller      *)
(* driver, which closes with the session and is not repeated while owed.   *)
Told(t) ==
  IF t.kind = "core" THEN [t EXCEPT !.called = TRUE]
  ELSE IF t.open /\ ~t.owed THEN [t EXCEPT !.called = TRUE, !.owed = TRUE]
  ELSE t

Notified(t) == [t EXCEPT !.called = @ \/ t.kind = "core"]   \* notify_all()

Published(t) ==
  IF Runnable(t) \/ GpuReportNeeded(t) THEN Told(Checked(t)) ELSE Checked(t)

(* Work that comes behind other work has already been published for.       *)
PushedAll(t, ws) == IF ws = <<>> THEN t ELSE Published([t EXCEPT !.work = @ \o ws])

Pushed(t, w) == PushedAll(t, <<w>>)
-----------------------------------------------------------------------------
(* Demands and their results.                                              *)
Answered(t, d, shows) == [t EXCEPT !.log[d].results = Append(@, shows)]

Unshown(t, d) == Answered(t, d, Nothing)

QueueFrame(t, d) == Pushed(t, Item("frame", d))

ResumeParked(t) ==
  IF t.demands # <<>> /\ Live(t) THEN QueueFrame(t, Head(t.demands)) ELSE t

ResumeWaiting(t) ==
  PushedAll([t EXCEPT !.demands = t.waiting \o @, !.waiting = <<>>],
            [i \in DOMAIN t.waiting |-> Item("frame", t.waiting[i])])

Finished(t, ds) ==
  [t EXCEPT !.log =
     [d \in DOMAIN t.log |->
        IF d \in ds THEN [t.log[d] EXCEPT !.results = Append(@, Nothing)] ELSE t.log[d]]]

FinishWaiting(t) == [Finished(t, ToSet(t.waiting)) EXCEPT !.waiting = <<>>]

(* A mutant: the demands that wait for an update are forgotten.            *)
FinishQueued(t) == [Finished(t, ToSet(t.demands)) EXCEPT !.demands = <<>>]

FinishDemands(t) ==
  [Finished(t, ToSet(t.demands \o t.waiting)) EXCEPT !.demands = <<>>, !.waiting = <<>>]

(* Disposal drops the results that nobody drains any more.                 *)
EndDemands(t) ==
  IF t.disposed THEN [t EXCEPT !.demands = <<>>, !.waiting = <<>>] ELSE FinishDemands(t)

Quarantined(t, i) ==
  LET u == [t EXCEPT !.slot[i] = "quarantined"]
  IN  IF t.state = "attached" /\ AllQuarantined(u) THEN ResumeParked(FinishWaiting(u)) ELSE u

(* The end of a release that a GPU wait preceded: nothing waited in a      *)
(* session that had lost its target or its backend.                        *)
Returned(t, i) ==
  IF t.state \in {"abandoned", "failed"} THEN Quarantined(t, i)
  ELSE ResumeParked([t EXCEPT !.slot[i] = "free",
                              !.reading = IF t.objects THEN @ \ {i} ELSE @])

(* complete_failure() of work that will not run: releases end, as in       *)
(* Returned(), with the queue already empty.                               *)
Cancelled(t) == {i \in Slots : Item("release", i) \in ToSet(t.work)}

CancelWork(t) ==
  LET lost == t.state \in {"abandoned", "failed"}
      u == [t EXCEPT !.work = <<>>,
              !.slot = [i \in Slots |-> IF i \notin Cancelled(t) THEN t.slot[i]
                                       ELSE IF lost THEN "quarantined" ELSE "free"],
              !.reading = IF lost \/ ~t.objects THEN @ ELSE @ \ Cancelled(t)]
  IN  IF t.demands # <<>> /\ Live(t)
      THEN PushedAll(u, [n \in 1 .. Cardinality(Cancelled(t)) |->
                           Item("frame", Head(t.demands))])
      ELSE u

Unready(t) == [t EXCEPT !.changes = TRUE, !.drawn = Nothing]

Failed(t) ==
  IF t.state = "failed" \/ Over(t) THEN t
  ELSE CancelWork(Notified(FinishDemands(
         [Unready(t) EXCEPT !.state = "failed", !.ready = <<>>, !.stop = TRUE])))

NewRing(t) ==
  [t EXCEPT !.slot = [i \in Slots |-> "free"], !.ready = <<>>, !.reading = {}]

NextItem(t) == [Checked(t) EXCEPT !.work = Tail(@), !.call = TRUE]

Event(name) == name \in Events /\ events < MaxEvents /\ events' = events + 1
-----------------------------------------------------------------------------
(* The driver takes work: one pass of the core worker ...                  *)
CoreReady ==
  /\ s.waiters = 0
  /\ s.stop \/ s.due \/ Runnable(s) \/ GpuReportNeeded(s)

Core   == s.kind = "core" /\ driver.at = "idle" /\ s.called
Runs(t) == s' = NextItem(t) /\ driver' = [driver EXCEPT !.at = "run", !.item = Head(t.work)]
Goes(at) == driver' = [driver EXCEPT !.at = at]

CoreWaits ==
  /\ Core /\ ~CoreReady
  /\ s' = [IF s.waiters = 0 THEN Checked(s) ELSE s EXCEPT !.called = FALSE]
  /\ UNCHANGED <<driver, lane, events>>

CoreDisposes == Core /\ CoreReady /\ s.due /\ Goes("dispose") /\ UNCHANGED <<s, lane, events>>

CoreTakes ==
  /\ Core /\ CoreReady /\ ~s.due /\ ~s.invalid /\ ~s.disposed
  /\ Runnable(s) /\ Runs(s)
  /\ UNCHANGED <<lane, events>>

CoreAsks ==
  /\ Core /\ CoreReady /\ ~s.due /\ ~s.invalid /\ ~s.disposed
  /\ ~s.stop /\ GpuReportNeeded(s)
  /\ s' = [s EXCEPT !.asked = TRUE, !.call = TRUE] /\ Goes("done")
  /\ UNCHANGED <<lane, events>>

CoreStops ==
  /\ Core /\ CoreReady /\ ~s.due
  /\ s.invalid \/ s.disposed \/ (s.stop /\ ~Runnable(s))
  /\ Goes("stopped")
  /\ UNCHANGED <<s, lane, events>>

(* ... or a service of the host's graphics thread, which answers a wake.   *)
Service ==
  /\ s.kind = "caller" /\ driver.at = "idle" /\ s.called
  /\ IF s.invalid \/ (s.disposed /\ ~s.due)
     THEN s' = [s EXCEPT !.called = FALSE] /\ UNCHANGED driver
     ELSE s' = [s EXCEPT !.called = FALSE, !.call = TRUE] /\ Goes("loop")
  /\ UNCHANGED <<lane, events>>

LoopDisposes ==
  /\ driver.at = "loop" /\ s.due
  /\ s' = [s EXCEPT !.due = FALSE] /\ Goes("dispose")
  /\ UNCHANGED <<lane, events>>

LoopTakes ==
  /\ driver.at = "loop" /\ ~s.due
  /\ Runnable(s) /\ Runs(s)
  /\ UNCHANGED <<lane, events>>

LoopEnds ==
  /\ driver.at = "loop" /\ ~s.due /\ ~Runnable(s)
  /\ s' = [Checked(s) EXCEPT !.asked = @ \/ FrameWaitsForGpu(s)] /\ Goes("done")
  /\ UNCHANGED <<lane, events>>

(* A mutant: nobody looks for a parked retirement.                         *)
StaysParked(t) == lane

(* take_parked_retirements_locked(), whose tasks go back to the lane.      *)
Unparked(t) ==
  IF t.call \/ t.views # {} THEN lane
  ELSE [lane EXCEPT !.queued = @ + lane.parked, !.parked = 0]

EndsCall(t) ==
  IF t.kind = "core" THEN Notified(t)
  ELSE LET owed == t.due \/ Runnable(t)
       IN  [Checked(t) EXCEPT !.owed = owed, !.called = @ \/ (owed /\ t.open)]

EndCall ==
  /\ driver.at = "done"
  /\ LET t == [s EXCEPT !.call = FALSE] IN s' = EndsCall(t) /\ lane' = Unparked(t)
  /\ Goes("idle")
  /\ UNCHANGED events

Ends == driver' = AtRest(IF s.kind = "core" THEN "done" ELSE "loop")
-----------------------------------------------------------------------------
(* The driver runs an item that is not a frame.                            *)
Running(kind) == driver.at = "run" /\ driver.item.kind = kind

Attach ==
  /\ Running("attach")
  /\ s' = IF s.created = "yes" THEN [s EXCEPT !.state = "attached"] ELSE Failed(s)
  /\ Ends /\ UNCHANGED <<lane, events>>

RunBarrier ==
  /\ Running("barrier")
  /\ s' = [s EXCEPT !.barriers = @ - 1, !.passed = driver.item.of]
  /\ Ends /\ UNCHANGED <<lane, events>>

(* A release waits for the host's GPU; a wait that fails ends the session. *)
RunRelease ==
  /\ Running("release")
  /\ \/ s' = Returned(s, driver.item.of) /\ UNCHANGED events
     \/ s' = Quarantined(Failed(s), driver.item.of) /\ Event("failure")
  /\ Ends /\ UNCHANGED lane

(* Both ends of a target may find a disposed session, or a backend that    *)
(* refuses; a replacement may also name the target that the session has.   *)
RunUntarget ==
  /\ Running("untarget")
  /\ LET t == [s EXCEPT !.releases = @ - 1, !.retargets = @ - 1]
     IN  \/ s' = t
         \/ ~s.disposed /\ s' = ResumeWaiting(NewRing(Unready([t EXCEPT !.target = FALSE])))
  /\ Ends /\ UNCHANGED <<lane, events>>

RunRetarget ==
  /\ Running("retarget")
  /\ LET t == [s EXCEPT !.retargets = @ - 1]
     IN  \/ s' = t
         \/ ~s.disposed /\ s' = ResumeWaiting(NewRing(Unready([t EXCEPT !.target = TRUE])))
  /\ Ends /\ UNCHANGED <<lane, events>>

(* render_session_detach() frees the renderer and leaves the map.          *)
FreeGraphics ==
  /\ Running("detach") \/ driver.at = "disposing"
  /\ s' = [s EXCEPT !.objects = FALSE, !.hook = FALSE, !.drawn = Nothing]
  /\ Goes("detached")
  /\ UNCHANGED <<lane, events>>

FinishDetach ==
  /\ driver.at = "detached"
  /\ s' = EndDemands([s EXCEPT !.state = "detached"])
  /\ IF driver.item.kind = "detach" THEN Ends ELSE Goes("handover")
  /\ UNCHANGED <<lane, events>>

Detachable(t) ==
  t.state = "attached" /\ ~t.invalid /\ Held(t) = {} /\ t.views = {}

(* detach_disposed_session(): it marks the session, ...                    *)
BeginDisposal ==
  /\ driver.at = "dispose"
  /\ LET t == [s EXCEPT !.due = FALSE]
     IN  IF Detachable(t)
         THEN /\ s' = CancelWork([t EXCEPT !.state = "detaching", !.drawn = Nothing, !.call = TRUE])
              /\ Goes("disposing")
         ELSE s' = t /\ Goes("handover")
  /\ UNCHANGED <<lane, events>>

Submitted == [lane EXCEPT !.queued = @ + 1]

(* ... detaches it, and hands it to the lane.                              *)
HandOver ==
  /\ driver.at = "handover"
  /\ LET t == IF s.state = "detached" THEN CancelWork(s) ELSE s
     IN  s' = Notified([t EXCEPT !.invalid = TRUE, !.stop = TRUE,
                                 !.call = @ /\ s.kind = "caller"])
  /\ lane' = Submitted
  /\ driver' = AtRest(IF s.kind = "core" THEN "stopped" ELSE "done")
  /\ UNCHANGED events
-----------------------------------------------------------------------------
(* run_frame_demand(): it takes the front demand, which need not be the    *)
(* one that its work was queued for, ...                                   *)
TakeDemand ==
  /\ Running("frame") \/ Running("service")
  /\ LET t == [s EXCEPT !.serviced = @ /\ driver.item.kind = "frame"]
     IN  IF t.barriers = 0 /\ driver.item.of \in ToSet(t.demands) /\ Live(t)
         THEN /\ s' = [t EXCEPT !.demands = Tail(@)]
              /\ driver' = [driver EXCEPT !.at = "took", !.demand = Head(t.demands),
                                          !.releasing = t.releases # 0]
         ELSE s' = t /\ Ends
  /\ UNCHANGED <<lane, events>>

(* A mutant: only the demand's own work is trusted to have waited.         *)
NeverLate == FALSE

Policy   == s.log[driver.demand].policy
Late     == map.applied < s.log[driver.demand].needs
NoTarget == ~s.target \/ driver.releasing
Current  == Policy # "force" /\ ~s.changes /\ s.drawn = map.update

SlotFreed(t) == IF driver.slot = 0 THEN t ELSE [t EXCEPT !.slot[driver.slot] = "free"]

(* The demand ends with a result that shows no frame.                      *)
EndsUnshown(t) == s' = Unshown(SlotFreed(t), driver.demand) /\ Ends

Waits(update) == driver' = [driver EXCEPT !.at = "wait", !.update = update]

(* ... ends it before it renders anything, ...                             *)
EndEarly ==
  /\ driver.at = "took"
  /\ \/ Late /\ EndsUnshown(s)
     \/ ~Late /\ NoTarget /\ EndsUnshown(Unready(s))
     \/ /\ ~Late /\ ~NoTarget /\ Current
        /\ IF Policy = "wait" THEN Waits(map.update) /\ UNCHANGED s ELSE EndsUnshown(s)
  /\ UNCHANGED <<lane, events>>

Unpublished(t) == SlotsThat(t, "free") \ ToSet(t.ready)

(* The first texture without a frame, or the one with the oldest frame     *)
(* that no host took.                                                      *)
NextSlot(t) ==
  IF Unpublished(t) # {} THEN CHOOSE i \in Unpublished(t) : \A j \in Unpublished(t) : i <= j
  ELSE Head(t.ready)

RingFull(t) == SlotsThat(t, "free") = {}

(* ... parks it in front of the others while the ring is full, ...         *)
PickSlot ==
  /\ driver.at = "took" /\ ~Late /\ ~NoTarget /\ ~Current
  /\ \/ AllQuarantined(s) /\ s' = ResumeParked(Unshown(s, driver.demand)) /\ Ends
     \/ /\ ~AllQuarantined(s) /\ RingFull(s)
        /\ IF s.barriers # 0 THEN EndsUnshown(s)
           ELSE s' = [s EXCEPT !.demands = <<driver.demand>> \o @] /\ Ends
     \/ /\ ~RingFull(s)
        /\ LET i == NextSlot(s)
           IN  /\ s' = [s EXCEPT !.slot[i] = "rendering",
                                 !.ready = Without(@, {i})]
               /\ driver' = [driver EXCEPT !.at = "render", !.slot = i]
  /\ UNCHANGED <<lane, events>>

(* ... selects the newest update, ...                                      *)
Select ==
  /\ driver.at = "render"
  /\ driver' = [driver EXCEPT !.at = "draw", !.update = map.update, !.shows = map.shows]
  /\ UNCHANGED <<s, lane, events>>

(* ... draws it, or finds that there is nothing to draw yet, that the      *)
(* target cannot take a frame, or that the backend failed, ...             *)
Draw ==
  /\ driver.at = "draw"
  /\ \/ /\ driver.update > 0 /\ Goes("publish")
        /\ s' = [s EXCEPT !.drawn = driver.update, !.changes = FALSE]
        /\ UNCHANGED events
     \/ /\ IF driver.update = 0 THEN UNCHANGED events ELSE Event("nothing")
        /\ IF Policy = "wait" THEN Goes("wait") /\ UNCHANGED s ELSE EndsUnshown(s)
     \/ Event("unready") /\ EndsUnshown(Unready(s))
     \/ Event("failure") /\ EndsUnshown(Failed(s))
  /\ UNCHANGED lane

(* ... and publishes the frame with its result.                            *)
Publish ==
  /\ driver.at = "publish"
  /\ LET t == [s EXCEPT !.slot[driver.slot] = "free",
                        !.ready = Append(@, driver.slot),
                        !.flight = IF s.kind \in RendersAhead THEN @ + 1 ELSE @]
     IN  s' = Answered(t, driver.demand, driver.shows)
  /\ Ends /\ UNCHANGED <<lane, events>>

(* A mutant: a barrier does not end the wait.                              *)
ForUpdateOnly(t) == AllQuarantined(t)

CannotWait(t) == AllQuarantined(t) \/ t.barriers # 0

(* A mutant: the map is not asked for its latest update.                   *)
NoneSince == TRUE

Outdated == map.update = driver.update

(* wait_for_map_update(), of a demand that found nothing new.              *)
WaitForUpdate ==
  /\ driver.at = "wait"
  /\ LET t == SlotFreed(s)
         d == driver.demand
     IN  s' = IF CannotWait(s) THEN Unshown(t, d)
              ELSE IF Outdated
              THEN [t EXCEPT !.waiting = Append(@, d), !.log[d].looked = driver.update]
              ELSE QueueFrame([t EXCEPT !.demands = <<d>> \o @], d)
  /\ Ends /\ UNCHANGED <<lane, events>>

(* The GPU ends the frames in flight.                                      *)
GpuDone ==
  /\ s.asked
  /\ s' = Published([s EXCEPT !.flight = 0, !.asked = FALSE])
  /\ UNCHANGED <<driver, lane, events>>
-----------------------------------------------------------------------------
(* Host threads.  A call that leased the session before its disposal may   *)
(* enter its section after it.                                             *)
Demand(policy) ==
  /\ s.state \in {"attaching", "attached"} /\ ~AllQuarantined(s)
  /\ Event("demand")
  /\ LET old == {d \in ToSet(s.waiting \o s.demands) :
                   policy # "force" /\ s.log[d].policy = policy}
         new == Len(s.log) + 1
         t   == [Finished(s, old) EXCEPT
                   !.waiting = Without(@, old),
                   !.demands = Append(Without(@, old), new),
                   !.log = Append(@, [policy |-> policy, needs |-> map.sent,
                                      results |-> <<>>, looked |-> 0])]
     IN  s' = QueueFrame(t, new)
  /\ UNCHANGED lane

Barrier ==
  /\ s.state = "attached" /\ Event("barrier")
  /\ LET t == [s EXCEPT !.work = Append(@, Item("barrier", Len(s.log))), !.barriers = @ + 1]
     IN  s' = Published(FinishDemands(t))
  /\ UNCHANGED lane

(* The code refuses acquired frames only.  A host that discarded a frame   *)
(* ends its views of it first.                                             *)
Detach ==
  /\ s.state = "attached" /\ Held(s) = {} /\ s.views = {} /\ Event("detach")
  /\ s' = Pushed([s EXCEPT !.state = "detaching", !.drawn = Nothing], Item("detach", 0))
  /\ UNCHANGED lane

Untarget ==
  /\ s.state = "attached" /\ Held(s) = {} /\ Event("untarget")
  /\ s' = Pushed([s EXCEPT !.releases = @ + 1, !.retargets = @ + 1, !.ready = <<>>],
                 Item("untarget", 0))
  /\ UNCHANGED lane

Retarget ==
  /\ s.state = "attached" /\ Held(s) = {} /\ Event("retarget")
  /\ s' = Pushed([s EXCEPT !.retargets = @ + 1], Item("retarget", 0))
  /\ UNCHANGED lane

(* The host takes the newest frame, and its GPU may read it from then on.  *)
Acquire ==
  /\ ~s.disposed /\ s.state = "attached" /\ s.retargets = 0 /\ s.ready # <<>>
  /\ s' = [s EXCEPT !.slot[Last(s.ready)] = "held", !.ready = <<>>,
                    !.reading = @ \union {Last(s.ready)}]
  /\ UNCHANGED <<lane, events>>

(* acquired_frame_release(): the host's GPU is done ...                    *)
ReleaseFrame(i) ==
  /\ s.slot[i] = "held" /\ i \notin s.views
  /\ s' = ResumeParked([s EXCEPT !.slot[i] = "free", !.reading = @ \ {i}])
  /\ UNCHANGED <<lane, events>>

(* A mutant: a frame whose GPU wait is still to come takes the next frame. *)
HandedOver(t, i) == [t EXCEPT !.slot[i] = "free"]

HandedBack(t, i) == [t EXCEPT !.slot[i] = "returning"]

(* ... or the driver has to wait for it.                                   *)
ReleaseAfterGpu(i) ==
  /\ s.slot[i] = "held" /\ i \notin s.views
  /\ s' = IF s.state \in {"abandoned", "failed"} THEN Quarantined(s, i)
          ELSE Pushed(HandedBack(s, i), Item("release", i))
  /\ UNCHANGED <<lane, events>>

Discard(i) ==
  /\ s.slot[i] = "held"
  /\ s' = Quarantined(s, i)
  /\ UNCHANGED <<lane, events>>

BeginView(i) ==
  /\ s.slot[i] = "held" /\ i \notin s.views
  /\ s.state = "attached" /\ ~s.disposed /\ ~s.invalid
  /\ Event("view")
  /\ s' = [s EXCEPT !.views = @ \union {i}]
  /\ UNCHANGED lane

EndView(i) ==
  /\ i \in s.views
  /\ LET t == [s EXCEPT !.views = @ \ {i}] IN s' = Notified(t) /\ lane' = Unparked(t)
  /\ UNCHANGED events

(* A tile worker posts to the renderer, whose hook wakes the driver.       *)
PostTiles ==
  /\ Live(s) /\ ~s.serviced /\ Event("tiles")
  /\ s' = [Pushed(s, Item("service", IF s.demands = <<>> THEN 0 ELSE Head(s.demands)))
             EXCEPT !.serviced = TRUE]
  /\ UNCHANGED lane
-----------------------------------------------------------------------------
(* Abandon, by the host or by the lane.                                    *)
Abandoned(t) ==
  LET u == [EndDemands(t) EXCEPT !.state = "abandoned", !.invalid = TRUE,
                                 !.stop = TRUE, !.open = FALSE]
  IN  CancelWork(Notified(u))

(* A mutant: a host may abandon a session while it looks at a frame.       *)
AbandonableInView(t) == ~t.disposed /\ ~Over(t)

Abandonable(t) == ~t.disposed /\ t.views = {} /\ ~Over(t)

Abandon ==
  /\ abandoner = "idle" /\ Abandonable(s) /\ Event("abandon")
  /\ IF ~s.call THEN s' = Abandoned(s) /\ abandoner' = "retiring"
     ELSE /\ s.kind = "core"
          /\ s' = [s EXCEPT !.waiters = @ + 1] /\ abandoner' = "waiting"
  /\ UNCHANGED <<disposer, lane>>

AbandonAfterCall ==
  /\ abandoner = "waiting" /\ ~s.call
  /\ LET t == Notified([s EXCEPT !.waiters = @ - 1])
     IN  IF Abandonable(s) THEN s' = Abandoned(t) /\ abandoner' = "retiring"
         ELSE s' = t /\ abandoner' = "idle"
  /\ UNCHANGED <<disposer, lane, events>>

Retired(t) == Notified([t EXCEPT !.objects = FALSE, !.complete = TRUE, !.hook = FALSE])

RetireGraphics ==
  /\ abandoner = "retiring" /\ abandoner' = "idle"
  /\ s' = Retired(s)
  /\ UNCHANGED <<disposer, lane, events>>

(* dispose_render_session(): on the driver if it can detach, else by the   *)
(* lane.  A release refuses held frames, a quarantine does not detach.     *)
Dispose(mode) ==
  /\ ~s.disposed /\ (mode = "release" => Held(s) = {}) /\ Event("dispose")
  /\ LET t == [s EXCEPT !.disposed = TRUE]
     IN  IF mode # "quarantine" /\ Detachable(s)
         THEN /\ s' = Told([t EXCEPT !.due = TRUE])
              /\ disposer' = IF s.kind = "caller" THEN "hooking" ELSE "idle"
              /\ UNCHANGED lane
         ELSE /\ s' = Notified([t EXCEPT !.invalid = TRUE, !.stop = TRUE])
              /\ lane' = Submitted /\ UNCHANGED disposer
  /\ UNCHANGED abandoner

(* A mutant: the hook does not look whether a service took the detach.     *)
AlwaysUnserviced(t) == TRUE

Unserviced(t) == t.due

(* abandon_unserviced_disposal(), for a session whose map closes first.    *)
AbandonsUnserviced(t) ==
  IF Unserviced(t)
  THEN s' = [t EXCEPT !.due = FALSE, !.invalid = TRUE, !.stop = TRUE] /\ lane' = Submitted
  ELSE s' = t /\ UNCHANGED lane

HookClose ==
  /\ disposer = "hooking" /\ disposer' = "idle"
  /\ IF s.objects /\ ~map.closed THEN s' = [s EXCEPT !.hook = TRUE] /\ UNCHANGED lane
     ELSE AbandonsUnserviced(s)
  /\ UNCHANGED <<abandoner, events>>
-----------------------------------------------------------------------------
(* The lane runs the session's retirement, or parks it while it is busy.   *)
LaneTakes ==
  /\ lane.at = "idle" /\ lane.queued > 0
  /\ LET t == [lane EXCEPT !.queued = @ - 1]
     IN  lane' = IF s.call \/ s.views # {} THEN [t EXCEPT !.parked = @ + 1]
                 ELSE [t EXCEPT !.at = "abandon"]
  /\ UNCHANGED s

LaneGoes(at) == lane' = [lane EXCEPT !.at = at]

LaneAbandons ==
  /\ lane.at = "abandon"
  /\ IF s.views # {} \/ Over(s) \/ s.call
     THEN LaneGoes("destroy") /\ UNCHANGED s
     ELSE s' = Abandoned(s) /\ LaneGoes("retire")

LaneRetires == lane.at = "retire" /\ s' = Retired(s) /\ LaneGoes("destroy")

(* destroy_render_session(), after the abandon that took the session.      *)
LaneDestroys ==
  /\ lane.at = "destroy"
  /\ (s.invalid /\ s.state # "detached") => s.complete \/ s.views # {}
  /\ IF \/ s.state = "detached" /\ Held(s) = {}
        \/ s.state = "abandoned" /\ s.views = {}
     THEN s' = Notified([s EXCEPT !.stop = TRUE, !.open = FALSE]) /\ LaneGoes("reap")
     ELSE LaneGoes("refused") /\ UNCHANGED s

LaneReaps ==
  /\ lane.at = "reap" /\ (s.kind = "core" => driver.at = "stopped")
  /\ LaneGoes("done") /\ UNCHANGED s
-----------------------------------------------------------------------------
(* The map's worker.                                                       *)
Worker(from, to) == map.at = from /\ map' = [map EXCEPT !.at = to]

CreateMap ==
  /\ s.created = "unknown"
  /\ \E created \in {"yes", "no"} :
       /\ created = "no" => Event("failure")
       /\ created = "yes" => UNCHANGED events
       /\ s' = Published([s EXCEPT !.created = created])
  /\ UNCHANGED <<map, lane>>

SendCommand ==
  /\ ~map.closed /\ Event("command")
  /\ map' = [map EXCEPT !.sent = @ + 1]
  /\ UNCHANGED <<s, lane>>

(* A command changes the map, which stores an update, ...                  *)
RunCommand ==
  /\ map.at = "idle" /\ map.applied < map.sent
  /\ map' = [map EXCEPT !.at = "ran", !.update = @ + 1, !.shows = map.applied + 1,
                        !.announce = TRUE]
  /\ UNCHANGED <<s, lane, events>>

(* ... is counted, by a worker that no mutex holds back: a section that    *)
(* ends later may have made its first read of the count before.            *)
CountCommand ==
  /\ map.at = "ran"
  /\ map' = [map EXCEPT !.at = "counted", !.applied = @ + 1]
  /\ seen' \in {seen, map.applied + 1}
  /\ UNCHANGED <<s, lane, events>>

(* Then the worker looks whether a session waits.                          *)
SkipNotice == ~s.awaited /\ Worker("counted", "idle") /\ UNCHANGED <<s, lane, events>>

SendNotice == s.awaited /\ Worker("counted", "notice") /\ UNCHANGED <<s, lane, events>>

NoticeCommands ==
  /\ Worker("notice", "idle")
  /\ s' = IF s.state = "attached" THEN Published([s EXCEPT !.awaited = FALSE]) ELSE s
  /\ UNCHANGED <<lane, events>>

(* Tiles arrive, or an animation goes on.                                  *)
StoreUpdate ==
  /\ map.at = "idle" /\ Event("update")
  /\ map' = [map EXCEPT !.update = @ + 1, !.announce = TRUE]
  /\ UNCHANGED <<s, lane>>

(* notify_render_session_map_update(), once for the updates so far.        *)
Announce ==
  /\ map.at = "idle" /\ map.announce
  /\ map' = [map EXCEPT !.announce = FALSE]
  /\ s' = ResumeWaiting([s EXCEPT !.changes = @ \/ map.update # s.drawn])
  /\ UNCHANGED <<lane, events>>

CloseMap ==
  /\ ~map.closed /\ Event("close")
  /\ map' = [map EXCEPT !.closed = TRUE]
  /\ IF s.hook THEN AbandonsUnserviced([s EXCEPT !.hook = FALSE])
     ELSE UNCHANGED <<s, lane>>
-----------------------------------------------------------------------------
(* A section reads the applied count anew.                                 *)
Fresh == seen' = IF s' = s THEN seen ELSE map.applied

DriverStep ==
  /\ \/ CoreWaits \/ CoreDisposes \/ CoreTakes \/ CoreAsks \/ CoreStops
     \/ Service \/ LoopDisposes \/ LoopTakes \/ LoopEnds \/ EndCall
     \/ Attach \/ RunBarrier \/ RunRelease \/ RunUntarget \/ RunRetarget
     \/ FreeGraphics \/ FinishDetach \/ BeginDisposal \/ HandOver
     \/ TakeDemand \/ EndEarly \/ PickSlot \/ Select \/ Draw \/ Publish \/ WaitForUpdate
  /\ Fresh /\ UNCHANGED <<map, abandoner, disposer>>

GpuStep == GpuDone /\ Fresh /\ UNCHANGED <<map, abandoner, disposer>>

HostStep ==
  /\ \/ \E policy \in Policies : Demand(policy)
     \/ Barrier \/ Detach \/ Untarget \/ Retarget \/ Acquire \/ PostTiles
     \/ \E i \in Slots : ReleaseFrame(i) \/ ReleaseAfterGpu(i) \/ Discard(i) \/ BeginView(i)
  /\ Fresh /\ UNCHANGED <<map, driver, abandoner, disposer>>

ViewStep ==
  /\ \E i \in Slots : EndView(i)
  /\ Fresh /\ UNCHANGED <<map, driver, abandoner, disposer>>

EndingStep ==
  /\ Abandon \/ \E mode \in {"release", "dispose", "quarantine"} : Dispose(mode)
  /\ Fresh /\ UNCHANGED <<map, driver>>

(* What a thread in abandon or in dispose does next.                       *)
EndingGoesOn ==
  /\ AbandonAfterCall \/ RetireGraphics \/ HookClose
  /\ Fresh /\ UNCHANGED <<map, driver>>

LaneStep ==
  /\ LaneTakes \/ LaneAbandons \/ LaneRetires \/ LaneDestroys \/ LaneReaps
  /\ Fresh /\ UNCHANGED <<map, driver, abandoner, disposer, events>>

(* The map's own work, in the order it takes it ...                        *)
MapWork ==
  /\ \/ CreateMap /\ Fresh
     \/ RunCommand /\ Fresh
     \/ CountCommand
     \/ SkipNotice /\ Fresh
     \/ SendNotice /\ Fresh
     \/ NoticeCommands /\ Fresh
     \/ Announce /\ Fresh
  /\ UNCHANGED <<driver, abandoner, disposer>>

(* ... and what others ask of it.                                          *)
MapStep ==
  /\ SendCommand \/ StoreUpdate \/ CloseMap
  /\ Fresh /\ UNCHANGED <<driver, abandoner, disposer>>

Next ==
  \/ DriverStep \/ GpuStep \/ HostStep \/ ViewStep
  \/ EndingStep \/ EndingGoesOn \/ LaneStep \/ MapWork \/ MapStep

(* A core worker runs; a host services after a wake, and ends its views;   *)
(* the GPU, the map's worker, a thread in a call and the lane go on.       *)
Fairness ==
  /\ WF_vars(DriverStep) /\ WF_vars(GpuStep) /\ WF_vars(ViewStep)
  /\ WF_vars(EndingGoesOn) /\ WF_vars(LaneStep) /\ WF_vars(MapWork)

Safety == Init /\ [][Next]_vars
Spec   == Safety /\ Fairness
-----------------------------------------------------------------------------
Demands == 1 .. Len(s.log)

TypeOK ==
  /\ s.state \in {"attaching", "attached", "detaching", "detached", "abandoned", "failed"}
  /\ \A d \in Demands :
       /\ s.log[d].policy \in Policies /\ s.log[d].needs \in 0 .. map.sent
       /\ s.log[d].results \in Seq(Nothing .. map.sent)
  /\ ToSet(s.demands \o s.waiting) \subseteq Demands /\ driver.demand \in {0} \union Demands
  /\ s.slot \in [Slots -> {"free", "rendering", "held", "returning", "quarantined"}]
  /\ ToSet(s.ready) \subseteq SlotsThat(s, "free") /\ s.views \subseteq Slots
  /\ {s.barriers, s.releases, s.retargets, s.waiters, s.flight} \subseteq Nat
  /\ s.waiters <= 1
  /\ seen \in 0 .. map.applied /\ map.applied <= map.sent
  /\ abandoner \in {"idle", "waiting", "retiring"} /\ disposer \in {"idle", "hooking"}
  /\ lane.queued \in Nat /\ lane.parked \in Nat

(* Every accepted demand is in one place: it waits for an update, is       *)
(* queued, is in the driver's hands, or has its one result                 *)
(* (render_session.h:205).  Only a disposed session drops demands, and a   *)
(* session that is over or has failed keeps none.                          *)
Places(d) ==
  /\ IsInjective(s.demands \o s.waiting)
  /\ Len(s.log[d].results) <= 1
  /\ Cardinality({p \in {"held", "running", "ended"} :
       \/ p = "held" /\ d \in ToSet(s.demands \o s.waiting)
       \/ p = "running" /\ d = driver.demand
       \/ p = "ended" /\ s.log[d].results # <<>>}) = 1

AnsweredOnce ==
  /\ \A d \in Demands : Places(d) \/ (s.disposed /\ Over(s) /\ s.log[d].results = <<>>)
  /\ Over(s) \/ s.state = "failed" => s.demands = <<>> /\ s.waiting = <<>>

(* A frame shows the commands that the host sent before its demand         *)
(* (render_session.h:202-203), although other demands may have run in its  *)
(* place and the counts are read without a lock.                           *)
FramesShowCommands ==
  \A d \in Demands : \A r \in ToSet(s.log[d].results) :
    r = Nothing \/ r >= s.log[d].needs

(* A barrier completes after every demand accepted before it has its       *)
(* result, those that a wait or a full ring kept from running included.    *)
BarrierComesLast ==
  \A d \in 1 .. s.passed : s.log[d].results # <<>> \/ (s.disposed /\ Over(s))

(* The driver never renders into a texture that the host's GPU may still   *)
(* read, or that holds a frame the host may take.                          *)
SlotsAreSafe ==
  /\ driver.slot # 0 =>
       /\ s.slot[driver.slot] = "rendering"
       /\ driver.slot \notin s.reading \union ToSet(s.ready)
  /\ \A i \in ToSet(s.ready) : i \notin s.reading

(* The graphics objects and the map outlive every use of them: an attached *)
(* session, which any thread's section asks for the map's commands, a      *)
(* driver call that renders or waits for the GPU, and a borrowed view.     *)
UsesGraphics ==
  \/ s.state \in {"attaching", "attached"}
  \/ driver.at \in {"took", "render", "draw", "publish", "wait"}
  \/ driver.at = "run" /\ driver.item.kind \in {"attach", "release", "untarget", "retarget"}
  \/ s.views # {}

GraphicsOutliveUse == UsesGraphics => s.objects

(* The retirement node is linked into one queue at a time, so that no      *)
(* submission corrupts the lane's list; and the lane, which cannot wait    *)
(* for a session, always finds it fit to retire.                           *)
RetiredOnce ==
  /\ lane.queued + lane.parked + (IF lane.at = "idle" THEN 0 ELSE 1) <= 1
  /\ lane.at # "refused"
  /\ lane.at \in {"abandon", "retire"} => ~s.call /\ s.views = {}

(* A demand waits only while the update that it looked at is the latest,   *)
(* or its notice is still to come.                                         *)
NoMissedUpdate ==
  \A d \in ToSet(s.waiting) : s.log[d].looked = map.update \/ map.announce

(* Work that the driver can never take would hold every caller behind it:  *)
(* whatever it waits for (the map, a command, the GPU), it runs, or ends   *)
(* with the session.                                                       *)
WorkRuns == s.work # <<>> ~> s.work = <<>> \/ s.invalid

(* A session that the host disposes retires, although its driver, its      *)
(* views and an abandon may be in its way; a caller driver has the wake.   *)
SessionEnds == s.disposed ~> lane.at = "done"

(* What render_session.h:205 says: every demand finishes with a result.    *)
(* One that waits for an update may wait, as may one that a full ring      *)
(* keeps from running.                                                     *)
Unfinished(d) ==
  d \in Demands /\ s.log[d].policy # "wait" /\ s.log[d].results = <<>>

DemandsFinish ==
  \A d \in 1 .. MaxEvents : Unfinished(d) ~> ~Unfinished(d) \/ RingFull(s) \/ s.disposed
=============================================================================
