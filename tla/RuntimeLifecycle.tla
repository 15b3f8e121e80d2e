--------------------------- MODULE RuntimeLifecycle ---------------------------
(***************************************************************************)
(* How a runtime and its maps come and go (src/src/runtime/runtime.cpp,    *)
(* src/src/map/map.cpp): host threads create maps, submit commands, attach *)
(* sessions, and close maps and the runtime in any state and any order;    *)
(* the runtime's worker runs what they submitted; two lanes finish the     *)
(* teardown.  Each map and the runtime has a control (Control), and the    *)
(* executor is the first-in first-out queue of RuntimeExecutor.  A step    *)
(* holds one lock at most, and drops one lease at most.                    *)
(*                                                                         *)
(* A runtime lease is held by each accepted completion, until its result   *)
(* is delivered, and by each MapObject, until it is destroyed.  A map      *)
(* lease is held by each submission and by a pending still image.          *)
(***************************************************************************)
EXTENDS Control, Sequences, FiniteSets

CONSTANTS
  Maps,       (* Bound: the maps that hosts may create, each once.         *)
  Calls,      (* Bound: the submissions they may make, each once.          *)
  Attachable  (* Bound: the maps that a session may attach to.             *)

None == "none"

ASSUME NamesAssumption ==
  /\ Maps \intersect Calls = {} /\ Attachable \subseteq Maps
  /\ {None, "runtime"} \intersect (Maps \union Calls) = {}

VARIABLES
  runtime,     (* The control of the runtime ...                           *)
  registered,  (* ... whether its handle is in the table ...               *)
  ending,      (* ... and where the thread is that closes it.              *)
  control,     (* The control of each map ...                              *)
  live,        (* ... the maps whose handle is in the table ...            *)
  creator,     (* ... where the thread is that creates it ...              *)
  closer,      (* ... how far its close is ...                             *)
  native,      (* ... its mln::Map ...                                     *)
  session,     (* ... its render session ...                               *)
  style, still,(* ... the load and the still image that wait for MapLibre. *)
  call,        (* The submissions.                                         *)
  accepted,    (* Submissions and creations that hold a runtime lease.     *)
  holding,     (* Those that hold a lease of their map.                    *)
  objects,     (* The MapObjects: each has a runtime_cleanup_lease.        *)
  executor, queue, worker,
  taken,       (* Drained callbacks that a thread is about to run.         *)
  refused      (* History: an enqueue found the executor stopped.          *)

runtime_vars == <<registered, ending>>
map_vars     == <<live, creator, closer, native, session, style, still>>
vars == <<runtime, runtime_vars, control, map_vars, call, accepted, holding,
          objects, executor, queue, worker, taken, refused>>

Task(kind, of) == [kind |-> kind, of |-> of]
Idle == Task("idle", None)

Init ==
  /\ runtime = NewControl /\ registered = TRUE /\ ending = "open"
  /\ control = [m \in Maps |-> NewControl]
  /\ live = {}
  /\ creator = [m \in Maps |-> None]
  /\ closer = [m \in Maps |-> "open"]
  /\ native = [m \in Maps |-> None]
  /\ session = [m \in Maps |-> None]
  /\ style = [m \in Maps |-> None]
  /\ still = [m \in Maps |-> None]
  /\ call = [c \in Calls |-> [step |-> "idle", map |-> None, kind |-> None]]
  /\ accepted = {} /\ holding = {} /\ objects = {}
  /\ executor = "running" /\ queue = <<>> /\ worker = Idle
  /\ taken = {} /\ refused = FALSE

MapOf(x) == IF x \in Maps THEN x ELSE call[x].map

(* disposal_requested of a runtime and of a map.                           *)
RuntimeDisposed == ending \in {"marked", "waiting"}
MapDisposed(m)  == closer[m] # "open"
-----------------------------------------------------------------------------
(* A lease is dropped; its thread may have to run the drained callback.    *)
Takes(c, child, of, by) ==
  taken' = IF TakesCallback(c, child) THEN taken \union {[of |-> of, by |-> by]} ELSE taken

DropsRuntime(child, by) ==
  /\ runtime' = Retired(runtime, child)
  /\ Takes(runtime, child, "runtime", by)

DropsMap(m, child, by) ==
  /\ control' = [control EXCEPT ![m] = Retired(@, child)]
  /\ Takes(control[m], child, m, by)

Released(x) == accepted \ {x}

(* Completion::resolve() delivers the result of `x`, and then drops its    *)
(* lease of the runtime.                                                   *)
Resolves(x, by) == accepted' = Released(x) /\ DropsRuntime(FALSE, by)

ReleasesMap(x, by) == holding' = holding \ {x} /\ DropsMap(MapOf(x), FALSE, by)

(* RuntimeExecutor::enqueue().  Most callers are noexcept, so that a       *)
(* refusal ends the process.                                               *)
Enqueues(kind, of) ==
  IF executor = "running"
  THEN queue' = Append(queue, Task(kind, of)) /\ UNCHANGED refused
  ELSE refused' = TRUE /\ UNCHANGED queue

(* release_runtime_map() does nothing when the runtime's handle is gone.   *)
ReleasesChild ==
  IF registered THEN DropsRuntime(TRUE, "host") ELSE UNCHANGED <<runtime, taken>>
-----------------------------------------------------------------------------
Creates(m, from, to) == creator[m] = from /\ creator' = [creator EXCEPT ![m] = to]

(* create_map_start() ...                                                  *)
LeaseRuntime(m) ==
  /\ registered /\ ~RuntimeDisposed
  /\ Creates(m, None, "leased")
  /\ UNCHANGED <<runtime, control, live, accepted, holding, objects, queue, taken, refused>>

(* ... retain_runtime_map() ...                                            *)
RetainRuntime(m) ==
  /\ IF registered /\ ~RuntimeDisposed /\ CanAcquire(runtime)
     THEN Creates(m, "leased", "retained") /\ runtime' = ChildRetained(runtime)
     ELSE Creates(m, "leased", "failed") /\ UNCHANGED runtime
  /\ UNCHANGED <<control, live, accepted, holding, objects, queue, taken, refused>>

(* ... the MapObject with its runtime_cleanup_lease, and the lease of the  *)
(* map that its construction holds ...                                     *)
BuildObject(m) ==
  /\ IF CanAcquire(runtime)
     THEN /\ Creates(m, "retained", "built")
          /\ runtime' = Acquired(runtime)
          /\ objects' = objects \union {m}
          /\ control' = [control EXCEPT ![m] = Acquired(@)]
          /\ holding' = holding \union {m}
     ELSE /\ Creates(m, "retained", "unwound")
          /\ UNCHANGED <<runtime, control, holding, objects>>
  /\ UNCHANGED <<live, accepted, queue, taken, refused>>

DropsCreation(m) ==
  /\ holding' = holding \ {m}
  /\ control' = [control EXCEPT ![m] = Retired(@, FALSE)]

(* ... submit_runtime_operation().  Nobody knows the handle before the     *)
(* submission has succeeded, so a failure inserts and removes it unseen.   *)
AcceptCreation(m) ==
  /\ IF CanAcquire(runtime)
     THEN /\ Creates(m, "built", "accepted")
          /\ live' = live \union {m}
          /\ runtime' = Acquired(runtime)
          /\ accepted' = accepted \union {m}
          /\ UNCHANGED <<control, holding>>
     ELSE /\ Creates(m, "built", "unwinding")
          /\ DropsCreation(m)
          /\ UNCHANGED <<runtime, live, accepted>>
  /\ UNCHANGED <<objects, queue, taken, refused>>

EnqueueCreation(m) ==
  /\ \/ /\ Creates(m, "accepted", "submitted")
        /\ Enqueues("construct", m)
        /\ UNCHANGED <<runtime, control, live, accepted, holding, taken>>
     \/ /\ Creates(m, "accepted", "unwinding")   \* Out of memory: revoke()
        /\ live' = live \ {m}
        /\ Resolves(m, "host")
        /\ DropsCreation(m)
        /\ UNCHANGED <<queue, refused>>
  /\ UNCHANGED objects

(* A failed creation destroys the MapObject, then ~RuntimeMapRetainGuard   *)
(* releases the runtime.                                                   *)
UnwindCreation(m) ==
  /\ \/ /\ Creates(m, "unwinding", "unwound")
        /\ objects' = objects \ {m}
        /\ DropsRuntime(FALSE, "host")
     \/ /\ Creates(m, "unwound", "failed")
        /\ ReleasesChild
        /\ UNCHANGED objects
  /\ UNCHANGED <<control, live, accepted, holding, queue, refused>>
-----------------------------------------------------------------------------
Kinds == {"command", "discarded", "style", "still"}
Moves(c, from, to) == call[c].step = from /\ call' = [call EXCEPT ![c].step = to]

(* lease_map().                                                            *)
LeaseMap(c) ==
  /\ call[c].step = "idle"
  /\ \E m \in live, kind \in Kinds :
       /\ creator[m] = "submitted"
       /\ ~MapDisposed(m)
       /\ call' = [call EXCEPT ![c] = [step |-> "leased", map |-> m, kind |-> kind]]
  /\ UNCHANGED <<runtime, control, accepted, holding, queue, taken, refused>>

(* prepare_map_command_task() and acquire_map_submission() ...             *)
AcquireMap(c) ==
  LET m == call[c].map
  IN  /\ call[c].step = "leased"
      /\ IF CanAcquire(control[m])
         THEN /\ Moves(c, "leased", "prepared")
              /\ control' = [control EXCEPT ![m] = Acquired(@)]
              /\ holding' = holding \union {c}
         ELSE /\ Moves(c, "leased", "returned")
              /\ UNCHANGED <<control, holding>>
      /\ UNCHANGED <<runtime, accepted, queue, taken, refused>>

(* ... submit_runtime_command_task() and submit_runtime_operation().  A    *)
(* runtime whose disposal was requested is closing.                        *)
AcquireRuntime(c) ==
  /\ IF CanAcquire(runtime)
     THEN /\ Moves(c, "prepared", "accepted")
          /\ runtime' = Acquired(runtime)
          /\ accepted' = accepted \union {c}
     ELSE /\ Moves(c, "prepared", "unwinding")
          /\ UNCHANGED <<runtime, accepted>>
  /\ UNCHANGED <<control, holding, queue, taken, refused>>

EnqueueCall(c) ==
  /\ \/ /\ Moves(c, "accepted", "queued")
        /\ Enqueues("run", c)
        /\ UNCHANGED <<runtime, accepted, taken>>
     \/ /\ Moves(c, "accepted", "unwinding")     \* Out of memory: revoke()
        /\ Resolves(c, "host")
        /\ UNCHANGED <<queue, refused>>
  /\ UNCHANGED <<control, holding>>

UnwindCall(c) ==
  /\ Moves(c, "unwinding", "returned")
  /\ ReleasesMap(c, "host")
  /\ UNCHANGED <<runtime, accepted, queue, refused>>
-----------------------------------------------------------------------------
Closes(m, from, to) == closer[m] = from /\ closer' = [closer EXCEPT ![m] = to]
Becomes(m, states, to) ==
  session[m] \in states /\ session' = [session EXCEPT ![m] = to]

(* dispose_map().  release_map() is the same, but refuses while a session  *)
(* is attached that the host has not disposed.                             *)
CloseMap(m) ==
  /\ m \in live /\ creator[m] = "submitted"
  /\ CanClose(control[m], TRUE)
  /\ Closes(m, "open", "closing")
  /\ control' = [control EXCEPT ![m] = Closed(@)]
  /\ UNCHANGED <<runtime, session, queue, taken, refused>>

(* retire_map().                                                           *)
RetireMap(m) ==
  /\ \/ /\ Closes(m, "closing", "released")
        /\ ReleasesChild
        /\ UNCHANGED <<queue, refused>>
     \/ /\ Closes(m, "released", "retiring")
        /\ Enqueues("begin", m)
        /\ UNCHANGED <<runtime, taken>>
  /\ UNCHANGED <<control, session>>

Attach(m) ==
  /\ m \in live \intersect Attachable /\ creator[m] = "submitted" /\ ~MapDisposed(m)
  /\ CanAcquire(control[m])
  /\ Becomes(m, {None}, "attached")
  /\ control' = [control EXCEPT ![m] = ChildRetained(@)]
  /\ UNCHANGED <<runtime, closer, queue, taken, refused>>

DisposeSession(m) ==
  /\ Becomes(m, {"attached"}, "disposed")
  /\ UNCHANGED <<runtime, control, closer, queue, taken, refused>>

(* map_detach_render_target_session() clears the session under the table's *)
(* lock, and releases the map after.                                       *)
Detach(m) ==
  /\ \/ Becomes(m, {"attached", "disposed"}, "detaching") /\ UNCHANGED <<control, taken>>
     \/ Becomes(m, {"detaching"}, None) /\ DropsMap(m, TRUE, "host")
  /\ UNCHANGED <<runtime, closer, queue, refused>>
-----------------------------------------------------------------------------
(* A mutant: release_runtime() closes a runtime that still has maps.       *)
DefersAlways(kind) == TRUE

(* dispose_runtime() waits for the maps; release_runtime() refuses.        *)
DefersChildren(kind) == kind = "dispose"

CloseRuntime ==
  /\ registered /\ ending = "open"
  /\ \E kind \in {"dispose", "release"} :
       /\ CanClose(runtime, DefersChildren(kind))
       /\ ending' = kind
  /\ runtime' = Closed(runtime)
  /\ UNCHANGED <<registered, taken>>

(* ... and release_runtime() removes the handle at once.                   *)
MarkRuntime ==
  /\ ending \in {"dispose", "release"}
  /\ registered' = (ending = "dispose")
  /\ ending' = "marked"
  /\ UNCHANGED <<runtime, taken>>

RetireRuntime ==
  /\ ending = "marked"
  /\ ending' = "waiting"
  /\ runtime' = Notified(runtime)
  /\ taken' = IF IsDrained(runtime) THEN taken \union {[of |-> "runtime", by |-> "host"]} ELSE taken
  /\ UNCHANGED registered
-----------------------------------------------------------------------------
(* The worker takes the next task once the callback that it took has run.  *)
Free == /\ worker = Idle
        /\ executor \in {"running", "stopping"}
        /\ \A t \in taken : t.by = "host"

TakeTask ==
  /\ Free
  /\ queue # <<>>
  /\ worker' = Head(queue) /\ queue' = Tail(queue)
  /\ UNCHANGED <<runtime, control, live, closer, native, style, still, call,
                 accepted, holding, taken, refused>>

Runs(kind, of) == worker = Task(kind, of)
Sets(m, slot, c) == [slot EXCEPT ![m] = c]

(* construct_map(), whose completion runs before the task is destroyed.    *)
Construct(m) ==
  /\ Runs("construct", m)
  /\ \E result \in {"built", "failed"} : native' = Sets(m, native, result)
  /\ Resolves(m, "worker")
  /\ worker' = Task("clear", m)
  /\ UNCHANGED <<control, live, closer, style, still, call, holding, queue, refused>>

(* run_runtime_command_task(): the work delivers the result ...            *)
RunCommand(c) ==
  /\ Runs("run", c)
  /\ \/ /\ call[c].kind = "command" \/ (call[c].kind = "style" /\ style[MapOf(c)] = None)
        /\ Resolves(c, "worker")
     \/ /\ call[c].kind = "discarded"
        /\ UNCHANGED <<runtime, accepted, taken>>
  /\ worker' = Task("clear", c)
  /\ UNCHANGED <<control, live, closer, native, style, still, call, holding, queue, refused>>

(* ... clear_work() drops the lease of the map, and a command without a    *)
(* completion held its runtime lease itself.                               *)
ClearWork(x) ==
  /\ Runs("clear", x)
  /\ ReleasesMap(x, "worker")
  /\ IF x \in Calls
     THEN /\ call' = [call EXCEPT ![x].step = "returned"]
          /\ worker' = IF call[x].kind = "discarded" THEN Task("complete", x) ELSE Idle
     ELSE worker' = Idle /\ UNCHANGED call
  /\ UNCHANGED <<runtime, live, closer, native, style, still, accepted, queue, refused>>

Complete(c) ==
  /\ Runs("complete", c)
  /\ Resolves(c, "worker")
  /\ worker' = Idle
  /\ UNCHANGED <<control, live, closer, native, style, still, call, holding, queue, refused>>

(* A mutant: the load that a submission started after begin_map_retirement *)
(* is forgotten.                                                           *)
CancelsStyleOnce(kind) == kind = "begin"

CancelsStyle(kind) == kind \in {"begin", "finish"}

(* cancel_pending_style_load(), and StyleLoadTask, which replaces the load *)
(* that waits ...                                                          *)
CancelStyle(m) ==
  LET c == style[m]
  IN  /\ c # None
      /\ \/ worker.kind = "run" /\ MapOf(worker.of) = m /\ call[worker.of].kind = "style"
         \/ Runs("begin", m) /\ CancelsStyle("begin") /\ still[m] \notin accepted
         \/ Runs("finish", m) /\ CancelsStyle("finish") /\ m \notin live
      /\ style' = Sets(m, style, None)
      /\ Resolves(c, "worker")
      /\ UNCHANGED <<control, live, closer, native, still, call, holding, queue, worker, refused>>

(* ... and leaves its completion with the map until the style has loaded.  *)
ParkStyle(c) ==
  LET m == MapOf(c)
  IN  /\ Runs("run", c) /\ call[c].kind = "style"
      /\ style[m] = None /\ native[m] = "built"
      /\ style' = Sets(m, style, c)
      /\ worker' = Task("clear", c)
      /\ UNCHANGED <<runtime, control, live, closer, native, still, call, accepted,
                     holding, queue, taken, refused>>

(* finish_pending_style_load(), from MapLibre: a later task completes it.  *)
StyleLoads(m) ==
  /\ Free
  /\ native[m] = "built" /\ style[m] # None
  /\ Enqueues("complete", style[m])
  /\ style' = Sets(m, style, None)
  /\ UNCHANGED <<runtime, control, live, closer, native, still, call, accepted, holding,
                 worker, taken, refused>>
-----------------------------------------------------------------------------
StillPending(m) == still[m] \in accepted

(* map_request_still_image_start() refuses on the worker ...               *)
RefuseStill(c) ==
  LET m == MapOf(c)
  IN  /\ Runs("run", c) /\ call[c].kind = "still"
      /\ Resolves(c, "worker")      \* Closing, no map, pending, or a group is open
      /\ worker' = Task("clear", c)
      /\ UNCHANGED <<control, live, closer, native, style, still, call, holding, queue, refused>>

(* ... or hands the request to MapLibre, with its lease.  Should MapLibre  *)
(* throw, the lease stays with the map until the next request replaces it. *)
StartStill(c) ==
  LET m == MapOf(c)
      d == still[m]
  IN  /\ Runs("run", c) /\ call[c].kind = "still"
      /\ ~control[m].closing /\ native[m] = "built" /\ ~StillPending(m)
      /\ still' = Sets(m, still, c)
      /\ IF d # None
         THEN ReleasesMap(d, "worker")
         ELSE UNCHANGED <<control, holding, taken>>
      /\ call' = [call EXCEPT ![c].step = "returned"]
      /\ worker' \in {Idle, Task("complete", c)}
      /\ UNCHANGED <<runtime, live, closer, native, style, accepted, queue, refused>>

(* finish_still_image_request(), from MapLibre.                            *)
StillFinishes(m) ==
  /\ Free
  /\ native[m] = "built" /\ StillPending(m)
  /\ still' = Sets(m, still, None)
  /\ ReleasesMap(still[m], "worker")
  /\ worker' = Task("complete", still[m])
  /\ UNCHANGED <<runtime, live, closer, native, style, call, accepted, queue, refused>>
-----------------------------------------------------------------------------
(* A mutant: the pending still image keeps its lease of the closing map.   *)
ReleasesStillNever(m) == FALSE

ReleasesStill(m) == still[m] # None

(* A mutant: the teardown does not wait for the leases of the map.         *)
AwaitsNothing(m) == FALSE

AwaitsLeases(m) == ~IsDrained(control[m])

(* begin_map_retirement() cancels the still image, then the style load,    *)
(* drops the lease of the still image, and waits for the others.           *)
CancelStill(m) ==
  /\ Runs("begin", m)
  /\ StillPending(m)
  /\ Resolves(still[m], "worker")
  /\ UNCHANGED <<control, live, closer, native, style, still, call, holding, queue,
                 worker, refused>>

DropStill(m) ==
  /\ Runs("begin", m)
  /\ ~StillPending(m) /\ style[m] = None /\ ReleasesStill(m)
  /\ still' = Sets(m, still, None)
  /\ ReleasesMap(still[m], "worker")
  /\ UNCHANGED <<runtime, live, closer, native, style, call, accepted, queue, worker, refused>>

AwaitDrain(m) ==
  /\ Runs("begin", m)
  /\ ~StillPending(m) /\ style[m] = None /\ ~ReleasesStill(m)
  /\ IF AwaitsLeases(m)
     THEN control' = [control EXCEPT ![m] = Notified(@)] /\ UNCHANGED taken
     ELSE taken' = taken \union {[of |-> m, by |-> "worker"]} /\ UNCHANGED control
  /\ Closes(m, "retiring", "waiting")
  /\ worker' = Idle
  /\ UNCHANGED <<runtime, live, native, style, still, call, accepted, holding, queue, refused>>

(* finish_map_retirement() removes the handle, cancels a style load that   *)
(* came late (CancelStyle), and destroys the mln::Map.                     *)
FinishMap(m) ==
  /\ Runs("finish", m)
  /\ IF m \in live
     THEN live' = live \ {m} /\ UNCHANGED <<closer, native, worker>>
     ELSE /\ style[m] = None \/ ~CancelsStyle("finish")
          /\ Closes(m, "waiting", "finished")
          /\ native' = Sets(m, native, "destroyed")
          /\ worker' = Idle
          /\ UNCHANGED live
  /\ UNCHANGED <<runtime, control, style, still, call, accepted, holding, queue, taken, refused>>

(* retire_runtime()'s task on the worker: the handle goes, and retire().   *)
RetireExecutor ==
  /\ Runs("retire", "runtime")
  /\ registered' = FALSE
  /\ executor' = "stopping"
  /\ worker' = Idle
-----------------------------------------------------------------------------
(* The thread that took a drained callback enqueues the teardown.          *)
RunCallback ==
  /\ \E t \in taken :
       /\ taken' = taken \ {t}
       /\ Enqueues(IF t.of = "runtime" THEN "retire" ELSE "finish", t.of)
  /\ UNCHANGED <<runtime, closer, objects, executor>>

(* A mutant: the object goes while its retirement waits for leases.        *)
MayDestroyEarly(m) == closer[m] \in {"waiting", "finished"}

MayDestroy(m) == closer[m] = "finished"

(* The pool shutdown lane drops the owner; the thread of a submission that *)
(* was refused may be the last to refer to the object.                     *)
DestroyMap(m) ==
  /\ MayDestroy(m)
  /\ \A c \in Calls : call[c].map = m => call[c].step = "returned"
  /\ closer' = [closer EXCEPT ![m] = "destroyed"]
  /\ objects' = objects \ {m}
  /\ DropsRuntime(FALSE, "host")
  /\ UNCHANGED <<executor, queue, refused>>

(* The finalizer lane stops and joins the worker, destroys the runtime,    *)
(* and reports its release.                                                *)
FinishRuntime ==
  /\ executor = "stopping" /\ worker = Idle /\ queue = <<>>
  /\ executor' = "destroyed"
  /\ UNCHANGED <<runtime, closer, objects, queue, taken, refused>>
-----------------------------------------------------------------------------
Elsewhere == UNCHANGED <<runtime_vars, executor, worker>>
CreationFrame ==
  Elsewhere /\ UNCHANGED <<closer, native, session, style, still, call>>
CallFrame == Elsewhere /\ UNCHANGED <<map_vars, objects>>
CloseFrame ==
  /\ Elsewhere
  /\ UNCHANGED <<live, creator, native, style, still, call, accepted, holding, objects>>
RuntimeFrame ==
  UNCHANGED <<control, map_vars, call, accepted, holding, objects, executor, queue,
              worker, refused>>
WorkerFrame == UNCHANGED <<runtime_vars, creator, session, objects, executor>>
LaneFrame ==
  UNCHANGED <<runtime_vars, control, live, creator, native, session, style, still, call,
              accepted, holding, worker>>

(* What hosts and MapLibre may do or leave, at any time ...                *)
HostCreates == (\E m \in Maps : LeaseRuntime(m)) /\ CreationFrame
HostSubmits == (\E c \in Calls : LeaseMap(c)) /\ CallFrame
HostCloses ==
  \/ (\E m \in Maps : CloseMap(m) \/ Attach(m) \/ DisposeSession(m)) /\ CloseFrame
  \/ CloseRuntime /\ RuntimeFrame
MapLibre == (\E m \in Maps : StyleLoads(m) \/ StillFinishes(m)) /\ WorkerFrame
SessionDetaches(m) == Detach(m) /\ CloseFrame

(* ... and what a thread that has begun goes on to do.                     *)
CreatorStep ==
  /\ \E m \in Maps : \/ RetainRuntime(m) \/ BuildObject(m) \/ AcceptCreation(m)
                     \/ EnqueueCreation(m) \/ UnwindCreation(m)
  /\ CreationFrame
CallStep ==
  /\ \E c \in Calls :
       AcquireMap(c) \/ AcquireRuntime(c) \/ EnqueueCall(c) \/ UnwindCall(c)
  /\ CallFrame
CloserStep ==
  \/ (\E m \in Maps : RetireMap(m)) /\ CloseFrame
  \/ (MarkRuntime \/ RetireRuntime) /\ RuntimeFrame
WorkerStep ==
  \/ /\ \/ TakeTask
        \/ \E x \in Maps \union Calls : ClearWork(x)
        \/ \E m \in Maps : \/ Construct(m) \/ CancelStyle(m) \/ CancelStill(m)
                           \/ DropStill(m) \/ AwaitDrain(m) \/ FinishMap(m)
        \/ \E c \in Calls : \/ RunCommand(c) \/ Complete(c) \/ ParkStyle(c)
                            \/ RefuseStill(c) \/ StartStill(c)
     /\ WorkerFrame
  \/ /\ RetireExecutor
     /\ UNCHANGED <<runtime, ending, control, map_vars, call, accepted, holding, objects,
                    queue, taken, refused>>
LaneStep ==
  (RunCallback \/ FinishRuntime \/ \E m \in Maps : DestroyMap(m)) /\ LaneFrame

Thread == CreatorStep \/ CallStep \/ CloserStep \/ WorkerStep \/ LaneStep

Next ==
  \/ HostCreates \/ HostSubmits \/ HostCloses \/ MapLibre \/ Thread
  \/ \E m \in Maps : SessionDetaches(m)

(* Every thread that has begun goes on: the steps of Thread are finitely   *)
(* many, so that one fairness condition serves them all.  A session that   *)
(* the host disposed detaches.                                             *)
Fairness ==
  /\ WF_vars(Thread)
  /\ \A m \in Maps : WF_vars(session[m] # "attached" /\ SessionDetaches(m))

Safety == Init /\ [][Next]_vars
Spec   == Safety /\ Fairness
-----------------------------------------------------------------------------
HoldsRuntime(m) ==
  \/ creator[m] \in {"retained", "built", "accepted", "unwinding", "unwound"}
  \/ creator[m] = "submitted" /\ closer[m] \in {"open", "closing"}

TypeOK ==
  /\ runtime \in ControlRecord
  /\ registered \in BOOLEAN /\ refused \in BOOLEAN
  /\ ending \in {"open", "dispose", "release", "marked", "waiting"}
  /\ control \in [Maps -> ControlRecord]
  /\ live \subseteq Maps /\ objects \subseteq Maps
  /\ creator \in [Maps -> {None, "leased", "retained", "built", "accepted", "submitted",
                           "unwinding", "unwound", "failed"}]
  /\ closer \in [Maps -> {"open", "closing", "released", "retiring", "waiting",
                          "finished", "destroyed"}]
  /\ native \in [Maps -> {None, "built", "failed", "destroyed"}]
  /\ session \in [Maps -> {None, "attached", "disposed", "detaching"}]
  /\ style \in [Maps -> Calls \union {None}] /\ still \in [Maps -> Calls \union {None}]
  /\ call \in [Calls -> [step : {"idle", "leased", "prepared", "accepted", "queued",
                                 "unwinding", "returned"},
                         map : Maps \union {None}, kind : Kinds \union {None}]]
  /\ accepted \subseteq Maps \union Calls /\ holding \subseteq Maps \union Calls
  /\ executor \in {"running", "stopping", "destroyed"}
  /\ worker.of \in Maps \union Calls \union {"runtime", None}
  /\ \A t \in taken : t.of \in Maps \union {"runtime"} /\ t.by \in {"host", "worker"}

(* The controls count exactly who holds them.  So the asserts of           *)
(* release_count() hold, nobody's release is lost, and a child that        *)
(* release_runtime_map() drops always finds the runtime's handle: it would *)
(* skip the release otherwise, and the runtime would never drain.          *)
LeasesAreExact ==
  /\ runtime.submissions = Cardinality(accepted) + Cardinality(objects)
  /\ runtime.children = Cardinality({m \in Maps : HoldsRuntime(m)})
  /\ \A m \in Maps :
       /\ control[m].submissions = Cardinality({x \in holding : MapOf(x) = m})
       /\ control[m].children = IF session[m] = None THEN 0 ELSE 1

(* retire_runtime(): nobody's noexcept enqueue ever finds the executor     *)
(* stopped.  When it stops, every completion has been delivered, every     *)
(* MapObject destroyed, and nothing is left to submit or to run.           *)
RetirementIsLast ==
  /\ ~refused
  /\ executor # "running" =>
       /\ accepted = {} /\ objects = {} /\ queue = <<>> /\ taken = {}
       /\ \A m \in Maps :
            /\ closer[m] \in {"open", "destroyed"}
            /\ creator[m] \in {None, "leased", "failed", "submitted"}

(* finish_map_retirement() destroys the mln::Map after its construction    *)
(* and after every submission that acquired the map, whether or not the    *)
(* submitting thread had reached the executor when the map was closed, and *)
(* after the session has detached.                                         *)
MapFinishesAfterItsWork ==
  \A m \in Maps : native[m] = "destroyed" \/ Runs("finish", m) =>
    /\ native[m] # None
    /\ session[m] = None
    /\ still[m] = None
    /\ \A c \in Calls :
         call[c].map = m => call[c].step \in {"leased", "returned"} /\ c \notin holding

(* Every accepted command completes.  Once its map is closed, so does      *)
(* every style load and still image that waits for MapLibre; a style load  *)
(* that was submitted before and run after begin_map_retirement() waits    *)
(* for the session to detach, and so for a host that has only disposed the *)
(* map to dispose its session as well.                                     *)
CallsEnd ==
  \A c \in Calls :
    LET m == call[c].map
    IN  /\ c \in accepted
        /\ \/ call[c].kind \in {"command", "discarded"}
           \/ MapDisposed(m) /\ session[m] # "attached"
      ~> c \notin accepted

(* A runtime that is closed is destroyed once its maps are closed and the  *)
(* sessions on them have gone or been disposed.                            *)
EverythingIsClosed ==
  /\ ending # "open"
  /\ \A m \in Maps :
       /\ creator[m] \in {None, "failed"} \/ MapDisposed(m)
       /\ session[m] # "attached"

RuntimeEnds == EverythingIsClosed ~> executor = "destroyed"
=============================================================================
