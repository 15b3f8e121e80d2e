------------------------- MODULE RuntimeLifecycleProofs -------------------------
(***************************************************************************)
(* Proofs about RuntimeLifecycle, for any number of maps and submissions.  *)
(***************************************************************************)
EXTENDS RuntimeLifecycle, FiniteSetTheorems, TLAPS

Controls   == [submissions : Int, children : Int, closing : BOOLEAN, armed : BOOLEAN]
QueueTasks ==
  [kind : {"construct", "begin", "finish"}, of : Maps] \union
  [kind : {"run", "complete"}, of : Calls] \union {Task("retire", "runtime")}
WorkerTasks == QueueTasks \union [kind : {"clear"}, of : Maps \union Calls] \union {Idle}

CallSteps == {"idle", "leased", "prepared", "accepted", "queued", "unwinding", "returned"}
CallRecords == [step : CallSteps, map : Maps \union {None}, kind : Kinds \union {None}]
Callbacks == [of : Maps \union {"runtime"}, by : {"host", "worker"}]
Creations == {None, "leased", "retained", "built", "accepted", "submitted", "unwinding",
              "unwound", "failed"}
Closings  == {"open", "closing", "released", "retiring", "waiting", "finished", "destroyed"}

TypeInv ==
  /\ runtime \in Controls /\ control \in [Maps -> Controls]
  /\ registered \in BOOLEAN
  /\ ending \in {"open", "dispose", "release", "marked", "waiting"}
  /\ live \subseteq Maps /\ objects \subseteq Maps
  /\ creator \in [Maps -> Creations] /\ closer \in [Maps -> Closings]
  /\ native \in [Maps -> {None, "built", "failed", "destroyed"}]
  /\ session \in [Maps -> {None, "attached", "disposed", "detaching"}]
  /\ style \in [Maps -> Calls \union {None}] /\ still \in [Maps -> Calls \union {None}]
  /\ call \in [Calls -> CallRecords]
  /\ accepted \subseteq Maps \union Calls /\ holding \subseteq Maps \union Calls
  /\ executor \in {"running", "stopping", "destroyed"}
  /\ queue \in Seq(QueueTasks) /\ worker \in WorkerTasks
  /\ taken \subseteq Callbacks

(* A task is in the queue once, or with the worker, and a drained callback *)
(* is taken once.                                                          *)
Queued == {queue[i] : i \in DOMAIN queue}
Due(kind, of) == Task(kind, of) \in Queued \/ worker = Task(kind, of)

OnceInv ==
  /\ \A i, j \in DOMAIN queue : queue[i] = queue[j] => i = j
  /\ worker \notin Queued
  /\ \A t, u \in taken : t.of = u.of => t = u

(* Where a submission is, what it holds, and where its completion waits.   *)
CallInv ==
  \A c \in Calls :
    /\ call[c].step = "idle" => call[c].map = None
    /\ call[c].step # "idle" => call[c].map \in Maps
    /\ call[c].step \in {"idle", "leased"} => c \notin holding
    /\ call[c].step \in {"prepared", "accepted", "unwinding", "queued"} => c \in holding
    /\ call[c].step \in {"idle", "leased", "prepared", "unwinding"} => c \notin accepted
    /\ call[c].step = "accepted" => c \in accepted
    /\ Due("run", c) => call[c].step = "queued" /\ c \in accepted
    /\ worker = Task("clear", c) =>
         /\ call[c].step = "queued" /\ Task("run", c) \notin Queued
         /\ call[c].kind = "discarded" => c \in accepted
    /\ Due("complete", c) => call[c].step = "returned" /\ c \in accepted
    /\ Task("complete", c) \in Queued => call[c].kind = "style"

WaitInv ==
  \A m \in Maps, c \in Calls :
    /\ style[m] = c =>
         /\ call[c].map = m /\ call[c].kind = "style"
         /\ c \in accepted /\ ~Due("complete", c)
         /\ call[c].step = "returned" \/ worker = Task("clear", c)
    /\ still[m] = c =>
         /\ call[c].map = m /\ call[c].kind = "still"
         /\ c \in holding /\ call[c].step = "returned"

(* How far the creation of a map is, what it holds ...                     *)
CreateInv ==
  \A m \in Maps :
    /\ creator[m] \in {"built", "accepted", "unwinding"} => m \in objects
    /\ creator[m] = "submitted" => (m \in objects <=> closer[m] # "destroyed")
    /\ creator[m] \in {None, "leased", "retained", "unwound", "failed"} => m \notin objects
    /\ creator[m] = "accepted" => m \in accepted
    /\ creator[m] \notin {"accepted", "submitted"} => m \notin accepted
    /\ creator[m] \in {"built", "accepted"} => m \in holding
    /\ creator[m] \notin {"built", "accepted", "submitted"} => m \notin holding
    /\ creator[m] # "submitted" => closer[m] = "open" /\ native[m] = None
    /\ creator[m] = "submitted" /\ native[m] = None => m \in holding
    /\ Due("construct", m) =>
         creator[m] = "submitted" /\ m \in accepted /\ m \in holding /\ native[m] = None
    /\ worker = Task("clear", m) =>
         creator[m] = "submitted" /\ m \in holding /\ native[m] # None

(* ... and how far its close is.                                           *)
CloseInv ==
  \A m \in Maps :
    /\ control[m].closing <=> closer[m] # "open"
    /\ control[m].armed => closer[m] = "waiting" /\ ~IsDrained(control[m])
    /\ Due("begin", m) => closer[m] = "retiring"
    /\ Due("finish", m) => closer[m] = "waiting" /\ IsDrained(control[m])
    /\ closer[m] \in {"finished", "destroyed"} => IsDrained(control[m])
    /\ native[m] = "destroyed" => closer[m] \in {"finished", "destroyed"}
    /\ \A t \in taken : t.of = m =>
         closer[m] = "waiting" /\ IsDrained(control[m]) /\ ~Due("finish", m)

RuntimeInv ==
  /\ runtime.closing <=> ending # "open"
  /\ runtime.armed => ending = "waiting" /\ ~IsDrained(runtime)
  /\ ending = "release" => runtime.children = 0
  /\ ~registered => runtime.closing /\ runtime.children = 0
  /\ Due("retire", "runtime") => ending = "waiting" /\ IsDrained(runtime) /\ executor = "running"
  /\ executor # "running" => ending = "waiting" /\ IsDrained(runtime)
  /\ \A t \in taken : t.of = "runtime" =>
       /\ ending = "waiting" /\ IsDrained(runtime) /\ executor = "running"
       /\ ~Due("retire", "runtime")
  /\ refused = FALSE

Holders(m) == {x \in holding : MapOf(x) = m}
Keepers    == {m \in Maps : HoldsRuntime(m)}

SubmitCount ==
  /\ IsFiniteSet(accepted) /\ IsFiniteSet(objects)
  /\ runtime.submissions = Cardinality(accepted) + Cardinality(objects)
ChildCount ==
  /\ IsFiniteSet(Keepers)
  /\ runtime.children = Cardinality(Keepers)
MapCount ==
  /\ IsFiniteSet(holding)
  /\ \A m \in Maps :
       /\ control[m].submissions = Cardinality(Holders(m))
       /\ control[m].children = IF session[m] = None THEN 0 ELSE 1

CountInv == SubmitCount /\ ChildCount /\ MapCount

IInv ==
  TypeInv /\ OnceInv /\ CallInv /\ WaitInv /\ CreateInv /\ CloseInv /\ RuntimeInv /\ CountInv

(* What a step may do to the callbacks that are taken, and to submissions. *)
TakesOnly(S) ==
  /\ taken' \subseteq Callbacks
  /\ \A t, u \in taken' : t.of = u.of => t = u
  /\ \A t \in taken' : t.of \notin S => t \in taken

OnlyMoves(c, from, to) ==
  /\ call' \in [Calls -> CallRecords]
  /\ call[c].step = from /\ call'[c].step = to
  /\ \A d \in Calls : call'[d].map = call[d].map /\ call'[d].kind = call[d].kind
  /\ \A d \in Calls \ {c} : call'[d] = call[d]
  /\ \A x \in Maps \union Calls : MapOf(x)' = MapOf(x)
-----------------------------------------------------------------------------
(* The operations of a control.                                            *)
LEMMA RetiredIs ==
  ASSUME NEW c \in Controls, NEW child \in BOOLEAN
  PROVE  /\ Retired(c, child) \in Controls
         /\ Retired(c, child).submissions = IF child THEN c.submissions ELSE c.submissions - 1
         /\ Retired(c, child).children = IF child THEN c.children - 1 ELSE c.children
         /\ Retired(c, child).closing = c.closing
         /\ Retired(c, child).armed => c.armed /\ ~IsDrained(Retired(c, child))
         /\ TakesCallback(c, child) <=> c.armed /\ IsDrained(Retired(c, child))
<1> DEFINE d == Decremented(c, child)
<1>1. /\ d \in Controls /\ d.closing = c.closing /\ d.armed = c.armed
      /\ d.submissions = IF child THEN c.submissions ELSE c.submissions - 1
      /\ d.children = IF child THEN c.children - 1 ELSE c.children
  BY DEF Decremented, Controls
<1> HIDE DEF d
<1>2. CASE IsDrained(d)
  <2>1. Retired(c, child) = [d EXCEPT !.armed = FALSE]
    BY <1>2 DEF Retired, d
  <2>2. QED
    BY <1>1, <1>2, <2>1 DEF TakesCallback, IsDrained, Controls, d
<1>3. CASE ~IsDrained(d)
  <2>1. Retired(c, child) = d
    BY <1>3 DEF Retired, d
  <2>2. QED
    BY <1>1, <1>3, <2>1 DEF TakesCallback, d
<1>4. QED
  BY <1>2, <1>3

LEMMA ControlsAre ==
  ASSUME NEW c \in Controls
  PROVE  /\ Acquired(c) \in Controls /\ ChildRetained(c) \in Controls
         /\ Closed(c) \in Controls /\ Notified(c) \in Controls
         /\ Acquired(c).submissions = c.submissions + 1
         /\ Acquired(c).children = c.children
         /\ ChildRetained(c).submissions = c.submissions
         /\ ChildRetained(c).children = c.children + 1
         /\ Closed(c).submissions = c.submissions /\ Closed(c).children = c.children
         /\ Notified(c).submissions = c.submissions /\ Notified(c).children = c.children
         /\ Acquired(c).closing = c.closing /\ Acquired(c).armed = c.armed
         /\ ChildRetained(c).closing = c.closing /\ ChildRetained(c).armed = c.armed
         /\ Closed(c).closing /\ Closed(c).armed = c.armed
         /\ Notified(c).closing = c.closing
         /\ Notified(c).armed => c.armed \/ ~IsDrained(c)
         /\ IsDrained(Notified(c)) <=> IsDrained(c)
         /\ CanAcquire(c) <=> ~c.closing
         /\ IsDrained(c) <=> c.closing /\ c.submissions = 0 /\ c.children = 0
<1>1. /\ Acquired(c) \in Controls /\ Acquired(c).submissions = c.submissions + 1
      /\ Acquired(c).children = c.children
      /\ Acquired(c).closing = c.closing /\ Acquired(c).armed = c.armed
  BY DEF Controls, Acquired
<1>2. /\ ChildRetained(c) \in Controls /\ ChildRetained(c).submissions = c.submissions
      /\ ChildRetained(c).children = c.children + 1
      /\ ChildRetained(c).closing = c.closing /\ ChildRetained(c).armed = c.armed
  BY DEF Controls, ChildRetained
<1>3. /\ Closed(c) \in Controls /\ Closed(c).submissions = c.submissions
      /\ Closed(c).children = c.children
      /\ Closed(c).closing /\ Closed(c).armed = c.armed
  BY DEF Controls, Closed
<1>4. /\ Notified(c) \in Controls /\ Notified(c).submissions = c.submissions
      /\ Notified(c).children = c.children /\ Notified(c).closing = c.closing
      /\ Notified(c).armed => c.armed \/ ~IsDrained(c)
      /\ IsDrained(Notified(c)) <=> IsDrained(c)
  <2>1. CASE IsDrained(c)
    BY <2>1 DEF Notified
  <2>2. CASE ~IsDrained(c)
    BY <2>2 DEF Controls, Notified, IsDrained
  <2>3. QED
    BY <2>1, <2>2
<1>5. QED
  BY <1>1, <1>2, <1>3, <1>4 DEF CanAcquire, IsDrained

LEMMA NewIs ==
  /\ NewControl \in Controls /\ NewControl.submissions = 0 /\ NewControl.children = 0
  /\ ~NewControl.closing /\ ~NewControl.armed
BY DEF NewControl, Controls

(* Tasks.                                                                  *)
LEMMA TasksDiffer == \A k, l, x, y : Task(k, x) = Task(l, y) => k = l /\ x = y
BY DEF Task

(* One more and one fewer.                                                 *)
LEMMA OneMore ==
  \A S, x : IsFiniteSet(S) /\ x \notin S =>
    IsFiniteSet(S \union {x}) /\ Cardinality(S \union {x}) = Cardinality(S) + 1
BY FS_AddElement

LEMMA OneFewer ==
  \A S, x : IsFiniteSet(S) /\ x \in S =>
    IsFiniteSet(S \ {x}) /\ Cardinality(S \ {x}) = Cardinality(S) - 1
BY FS_RemoveElement

LEMMA Counted ==
  \A S : IsFiniteSet(S) => Cardinality(S) \in Nat /\ (Cardinality(S) = 0 <=> S = {})
BY FS_CardinalityType, FS_EmptySet

(* The queue as a set.                                                     *)
LEMMA Appended ==
  ASSUME queue \in Seq(QueueTasks), OnceInv, NEW t \in QueueTasks, t \notin Queued,
         queue' = Append(queue, t)
  PROVE  /\ queue' \in Seq(QueueTasks) /\ Queued' = Queued \union {t}
         /\ \A i, j \in DOMAIN queue' : queue'[i] = queue'[j] => i = j
<1>1. /\ queue' \in Seq(QueueTasks) /\ Len(queue') = Len(queue) + 1
      /\ DOMAIN queue' = DOMAIN queue \union {Len(queue) + 1}
      /\ Len(queue) \in Nat /\ DOMAIN queue = 1 .. Len(queue)
      /\ \A i \in DOMAIN queue : queue'[i] = queue[i]
      /\ queue'[Len(queue) + 1] = t
  OBVIOUS
<1>2. QED
  BY <1>1 DEF Queued, OnceInv

LEMMA HeadTaken ==
  ASSUME queue \in Seq(QueueTasks), OnceInv, queue # <<>>,
         worker' = Head(queue), queue' = Tail(queue)
  PROVE  /\ queue' \in Seq(QueueTasks) /\ worker' \in Queued /\ worker' \in QueueTasks
         /\ Queued' = Queued \ {worker'}
         /\ \A i, j \in DOMAIN queue' : queue'[i] = queue'[j] => i = j
<1>1. /\ queue' \in Seq(QueueTasks) /\ Len(queue) \in Nat \ {0}
      /\ DOMAIN queue = 1 .. Len(queue) /\ DOMAIN queue' = 1 .. Len(queue) - 1
      /\ worker' = queue[1] /\ \A i \in DOMAIN queue : queue[i] \in QueueTasks
      /\ \A i \in DOMAIN queue' : queue'[i] = queue[i + 1]
  OBVIOUS
<1>2. \A i \in DOMAIN queue' : i + 1 \in DOMAIN queue /\ i + 1 # 1
  BY <1>1
<1>3. \A i \in DOMAIN queue : i = 1 \/ (i - 1 \in DOMAIN queue' /\ queue'[i - 1] = queue[i])
  BY <1>1
<1>4. 1 \in DOMAIN queue
  BY <1>1
<1>5. Queued' \subseteq Queued \ {worker'}
  BY <1>1, <1>2, <1>4 DEF Queued, OnceInv
<1>6. Queued \ {worker'} \subseteq Queued'
  BY <1>1, <1>3 DEF Queued
<1>7. ASSUME NEW i \in DOMAIN queue', NEW j \in DOMAIN queue', queue'[i] = queue'[j]
      PROVE  i = j
  <2>1. /\ i + 1 \in DOMAIN queue /\ j + 1 \in DOMAIN queue
        /\ queue[i + 1] = queue[j + 1]
    BY <1>1, <1>2, <1>7
  <2>2. i + 1 = j + 1
    BY <2>1 DEF OnceInv
  <2>3. i \in Int /\ j \in Int
    BY <1>1
  <2>4. QED
    BY <2>2, <2>3
<1>8. QED
  BY <1>1, <1>4, <1>5, <1>6, <1>7 DEF Queued

LEMMA Enqueued ==
  ASSUME TypeInv, OnceInv, executor = "running", NEW kind, NEW of,
         Task(kind, of) \in QueueTasks, Task(kind, of) \notin Queued,
         Task(kind, of) # worker, Enqueues(kind, of)
  PROVE  /\ queue' \in Seq(QueueTasks) /\ Queued' = Queued \union {Task(kind, of)}
         /\ \A i, j \in DOMAIN queue' : queue'[i] = queue'[j] => i = j
         /\ refused' = refused
<1>1. queue' = Append(queue, Task(kind, of)) /\ refused' = refused
  BY DEF Enqueues
<1>2. QED
  BY <1>1, Appended DEF TypeInv

(* A lease that is dropped, and the drained callback that comes with it.   *)
LEMMA RuntimeDropped ==
  ASSUME TypeInv, NEW child \in BOOLEAN, NEW by \in {"host", "worker"}, DropsRuntime(child, by)
  PROVE  /\ runtime' \in Controls
         /\ runtime'.submissions =
              IF child THEN runtime.submissions ELSE runtime.submissions - 1
         /\ runtime'.children = IF child THEN runtime.children - 1 ELSE runtime.children
         /\ runtime'.closing = runtime.closing
         /\ runtime'.armed => runtime.armed /\ ~IsDrained(runtime')
         /\ \/ taken' = taken
            \/ /\ taken' = taken \union {[of |-> "runtime", by |-> by]}
               /\ runtime.armed /\ IsDrained(runtime') /\ ~runtime'.armed
BY RetiredIs DEF TypeInv, DropsRuntime, Takes

LEMMA MapDropped ==
  ASSUME TypeInv, NEW m \in Maps, NEW child \in BOOLEAN, NEW by \in {"host", "worker"},
         DropsMap(m, child, by)
  PROVE  /\ control' \in [Maps -> Controls]
         /\ \A n \in Maps \ {m} : control'[n] = control[n]
         /\ control'[m].submissions =
              IF child THEN control[m].submissions ELSE control[m].submissions - 1
         /\ control'[m].children =
              IF child THEN control[m].children - 1 ELSE control[m].children
         /\ control'[m].closing = control[m].closing
         /\ control'[m].armed => control[m].armed /\ ~IsDrained(control'[m])
         /\ \/ taken' = taken
            \/ /\ taken' = taken \union {[of |-> m, by |-> by]}
               /\ control[m].armed /\ IsDrained(control'[m]) /\ ~control'[m].armed
<1>1. control[m] \in Controls
  BY DEF TypeInv
<1>2. control' = [control EXCEPT ![m] = Retired(control[m], child)]
  BY DEF DropsMap
<1>3. control'[m] = Retired(control[m], child)
  BY <1>2 DEF TypeInv
<1>4. control' \in [Maps -> Controls] /\ \A n \in Maps \ {m} : control'[n] = control[n]
  BY <1>1, <1>2, RetiredIs DEF TypeInv
<1>5. QED
  BY <1>1, <1>3, <1>4, RetiredIs DEF DropsMap, Takes

LEMMA NamesAre ==
  /\ \A c \in Calls : c \notin Maps /\ c # None /\ c # "runtime" /\ MapOf(c) = call[c].map
  /\ \A m \in Maps : m \notin Calls /\ m # None /\ m # "runtime" /\ MapOf(m) = m
BY NamesAssumption DEF MapOf

(* What a drained control says of its holders.                             *)
LEMMA RuntimeEmpty ==
  ASSUME CountInv, IsDrained(runtime)
  PROVE  accepted = {} /\ objects = {} /\ \A m \in Maps : ~HoldsRuntime(m)
<1>1. /\ Cardinality(accepted) \in Nat /\ Cardinality(objects) \in Nat
      /\ Cardinality(accepted) + Cardinality(objects) = 0 /\ Cardinality(Keepers) = 0
  BY Counted DEF CountInv, SubmitCount, ChildCount, MapCount, IsDrained
<1>2. Cardinality(accepted) = 0 /\ Cardinality(objects) = 0
  BY <1>1
<1>3. accepted = {} /\ objects = {} /\ Keepers = {}
  BY <1>1, <1>2, Counted DEF CountInv, SubmitCount, ChildCount, MapCount
<1>4. QED
  BY <1>3 DEF Keepers

LEMMA HoldersFinite == \A m : MapCount => IsFiniteSet(Holders(m))
<1>1. \A m : Holders(m) \in SUBSET holding
  BY DEF Holders
<1>2. QED
  BY <1>1, FS_Subset DEF CountInv, SubmitCount, ChildCount, MapCount

LEMMA MapEmpty ==
  ASSUME CountInv, NEW m \in Maps, IsDrained(control[m])
  PROVE  Holders(m) = {} /\ session[m] = None
<1>1. Cardinality(Holders(m)) = 0
  BY DEF CountInv, SubmitCount, ChildCount, MapCount, IsDrained
<1>2. Holders(m) = {}
  BY <1>1, HoldersFinite, Counted DEF CountInv
<1>3. QED
  BY <1>2 DEF CountInv, SubmitCount, ChildCount, MapCount, IsDrained

(* The executor runs as long as anybody holds the runtime.                 *)
LEMMA StillRunning ==
  ASSUME CountInv, RuntimeInv,
         accepted # {} \/ objects # {} \/ \E m \in Maps : HoldsRuntime(m)
  PROVE  executor = "running" /\ ~IsDrained(runtime)
BY RuntimeEmpty DEF RuntimeInv
-----------------------------------------------------------------------------
(* What a step leaves alone it does not disturb.                           *)
LEMMA Frames ==
  /\ OnceInv /\ UNCHANGED <<queue, worker, taken>> => OnceInv'
  /\ CallInv /\ UNCHANGED <<call, holding, accepted, queue, worker>> => CallInv'
  /\ WaitInv /\ UNCHANGED <<call, style, still, holding, accepted, queue, worker>> => WaitInv'
  /\ CreateInv /\ UNCHANGED <<creator, objects, accepted, holding, closer, native, queue, worker>>
       => CreateInv'
  /\ CloseInv /\ UNCHANGED <<control, closer, native, queue, worker, taken>> => CloseInv'
  /\ RuntimeInv
     /\ UNCHANGED <<runtime, registered, ending, executor, queue, worker, taken, refused>>
       => RuntimeInv'
  /\ UNCHANGED queue => Queued' = Queued
<1>1. UNCHANGED queue => Queued' = Queued
  BY DEF Queued
<1>2. OnceInv /\ UNCHANGED <<queue, worker, taken>> => OnceInv'
  BY <1>1 DEF OnceInv
<1>3. CallInv /\ UNCHANGED <<call, holding, accepted, queue, worker>> => CallInv'
  BY <1>1 DEF CallInv, Due
<1>4. WaitInv /\ UNCHANGED <<call, style, still, holding, accepted, queue, worker>> => WaitInv'
  BY <1>1 DEF WaitInv, Due
<1>5. CreateInv /\ UNCHANGED <<creator, objects, accepted, holding, closer, native, queue, worker>>
       => CreateInv'
  BY <1>1 DEF CreateInv, Due
<1>6. CloseInv /\ UNCHANGED <<control, closer, native, queue, worker, taken>> => CloseInv'
  BY <1>1 DEF CloseInv, Due
<1>7. /\ RuntimeInv
      /\ UNCHANGED <<runtime, registered, ending, executor, queue, worker, taken, refused>>
      => RuntimeInv'
  BY <1>1 DEF RuntimeInv, Due
<1>8. QED
  BY <1>1, <1>2, <1>3, <1>4, <1>5, <1>6, <1>7

LEMMA CountFrames ==
  /\ SubmitCount /\ UNCHANGED <<accepted, objects>> /\ runtime'.submissions = runtime.submissions
       => SubmitCount'
  /\ ChildCount /\ UNCHANGED <<creator, closer>> /\ runtime'.children = runtime.children
       => ChildCount'
  /\ ChildCount /\ Keepers' = Keepers /\ runtime'.children = runtime.children => ChildCount'
  /\ MapCount /\ UNCHANGED <<holding, session>>
       /\ (\A m \in Maps : /\ control'[m].submissions = control[m].submissions
                           /\ control'[m].children = control[m].children)
       /\ (\A x \in holding : MapOf(x)' = MapOf(x))
       => MapCount'
<1>1. SubmitCount /\ UNCHANGED <<accepted, objects>> /\ runtime'.submissions = runtime.submissions
       => SubmitCount'
  BY DEF SubmitCount
<1>2. ChildCount /\ Keepers' = Keepers /\ runtime'.children = runtime.children => ChildCount'
  BY DEF ChildCount
<1>3. UNCHANGED <<creator, closer>> => Keepers' = Keepers
  BY DEF Keepers, HoldsRuntime
<1>4. ASSUME MapCount, UNCHANGED <<holding, session>>,
             \A m \in Maps : /\ control'[m].submissions = control[m].submissions
                             /\ control'[m].children = control[m].children,
             \A x \in holding : MapOf(x)' = MapOf(x)
      PROVE  MapCount'
  <2>1. \A m \in Maps : Holders(m)' = Holders(m)
    BY <1>4 DEF Holders
  <2>2. QED
    BY <1>4, <2>1 DEF MapCount
<1>5. QED
  BY <1>1, <1>2, <1>3, <1>4

LEMMA MapJoined ==
  ASSUME MapCount, NEW m \in Maps, NEW x, x \notin holding, MapOf(x)' = m,
         \A y \in holding : MapOf(y)' = MapOf(y), control \in [Maps -> Controls],
         holding' = holding \union {x}, control' = [control EXCEPT ![m] = Acquired(@)],
         UNCHANGED session
  PROVE  MapCount'
<1>1. /\ control'[m].submissions = control[m].submissions + 1
      /\ control'[m].children = control[m].children
      /\ \A n \in Maps \ {m} : control'[n] = control[n]
  BY ControlsAre
<1>2. /\ Holders(m)' = Holders(m) \union {x} /\ x \notin Holders(m)
      /\ \A n \in Maps \ {m} : Holders(n)' = Holders(n)
  BY DEF Holders
<1>3. IsFiniteSet(holding') /\ IsFiniteSet(Holders(m))
  BY OneMore, HoldersFinite DEF MapCount
<1>4. Cardinality(Holders(m)') = Cardinality(Holders(m)) + 1
  BY <1>2, <1>3, OneMore
<1>5. ASSUME NEW n \in Maps
      PROVE  /\ control'[n].submissions = Cardinality(Holders(n)')
             /\ control'[n].children = IF session'[n] = None THEN 0 ELSE 1
  <2>1. CASE n = m
    BY <1>1, <1>4, <2>1 DEF MapCount
  <2>2. CASE n # m
    BY <1>1, <1>2, <2>2 DEF MapCount
  <2>3. QED
    BY <2>1, <2>2
<1>6. QED
  BY <1>3, <1>5 DEF MapCount

LEMMA MapLeft ==
  ASSUME MapCount, NEW m \in Maps, NEW x \in holding, MapOf(x) = m,
         \A y \in holding : MapOf(y)' = MapOf(y),
         holding' = holding \ {x}, UNCHANGED session,
         control'[m].submissions = control[m].submissions - 1,
         control'[m].children = control[m].children,
         \A n \in Maps \ {m} : control'[n] = control[n]
  PROVE  MapCount'
<1>1. /\ Holders(m)' = Holders(m) \ {x} /\ x \in Holders(m)
      /\ \A n \in Maps \ {m} : Holders(n)' = Holders(n)
  BY DEF Holders
<1>2. IsFiniteSet(holding') /\ IsFiniteSet(Holders(m))
  BY OneFewer, HoldersFinite DEF MapCount
<1>3. QED
  BY <1>1, <1>2, OneFewer DEF MapCount

LEMMA SubmitChanged ==
  ASSUME SubmitCount, NEW x
  PROVE  /\ /\ x \notin accepted /\ accepted' = accepted \union {x} /\ objects' = objects
            /\ runtime'.submissions = runtime.submissions + 1
           => SubmitCount'
         /\ /\ x \notin objects /\ objects' = objects \union {x} /\ accepted' = accepted
            /\ runtime'.submissions = runtime.submissions + 1
           => SubmitCount'
         /\ /\ x \in accepted /\ accepted' = accepted \ {x} /\ objects' = objects
            /\ runtime'.submissions = runtime.submissions - 1
           => SubmitCount'
         /\ /\ x \in objects /\ objects' = objects \ {x} /\ accepted' = accepted
            /\ runtime'.submissions = runtime.submissions - 1
           => SubmitCount'
<1>1. Cardinality(accepted) \in Nat /\ Cardinality(objects) \in Nat
  BY Counted DEF SubmitCount
<1>2. /\ x \notin accepted =>
           /\ IsFiniteSet(accepted \union {x})
           /\ Cardinality(accepted \union {x}) = Cardinality(accepted) + 1
      /\ x \notin objects =>
           /\ IsFiniteSet(objects \union {x})
           /\ Cardinality(objects \union {x}) = Cardinality(objects) + 1
  BY OneMore DEF SubmitCount
<1>3. /\ x \in accepted =>
           /\ IsFiniteSet(accepted \ {x})
           /\ Cardinality(accepted \ {x}) = Cardinality(accepted) - 1
      /\ x \in objects =>
           /\ IsFiniteSet(objects \ {x})
           /\ Cardinality(objects \ {x}) = Cardinality(objects) - 1
  BY OneFewer DEF SubmitCount
<1>4. ASSUME x \notin accepted, accepted' = accepted \union {x}, objects' = objects,
             runtime'.submissions = runtime.submissions + 1
      PROVE  SubmitCount'
  BY <1>1, <1>2, <1>4 DEF SubmitCount
<1>5. ASSUME x \notin objects, objects' = objects \union {x}, accepted' = accepted,
             runtime'.submissions = runtime.submissions + 1
      PROVE  SubmitCount'
  BY <1>1, <1>2, <1>5 DEF SubmitCount
<1>6. ASSUME x \in accepted, accepted' = accepted \ {x}, objects' = objects,
             runtime'.submissions = runtime.submissions - 1
      PROVE  SubmitCount'
  BY <1>1, <1>3, <1>6 DEF SubmitCount
<1>7. ASSUME x \in objects, objects' = objects \ {x}, accepted' = accepted,
             runtime'.submissions = runtime.submissions - 1
      PROVE  SubmitCount'
  BY <1>1, <1>3, <1>7 DEF SubmitCount
<1>8. QED
  BY <1>4, <1>5, <1>6, <1>7

(* Somebody lets go of a runtime that has not drained.                     *)
LEMMA RuntimeLeft ==
  ASSUME IInv, ~IsDrained(runtime), NEW child \in BOOLEAN, NEW by \in {"host", "worker"},
         DropsRuntime(child, by), child => runtime.children # 0
  PROVE  /\ runtime' \in Controls
         /\ TakesOnly({"runtime"})
         /\ runtime'.submissions =
              IF child THEN runtime.submissions ELSE runtime.submissions - 1
         /\ runtime'.children = IF child THEN runtime.children - 1 ELSE runtime.children
         /\ executor = "running" /\ ~Due("retire", "runtime")
         /\ UNCHANGED <<registered, ending, executor, refused>> /\ ~Due("retire", "runtime")'
              => RuntimeInv'
<1> USE DEF IInv
<1>1. /\ runtime' \in Controls
      /\ runtime'.submissions =
           IF child THEN runtime.submissions ELSE runtime.submissions - 1
      /\ runtime'.children = IF child THEN runtime.children - 1 ELSE runtime.children
      /\ runtime'.closing = runtime.closing
      /\ runtime'.armed => runtime.armed /\ ~IsDrained(runtime')
      /\ \/ taken' = taken
         \/ /\ taken' = taken \union {[of |-> "runtime", by |-> by]}
            /\ runtime.armed /\ IsDrained(runtime') /\ ~runtime'.armed
  BY RuntimeDropped
<1>2. executor = "running" /\ ~Due("retire", "runtime") /\ \A t \in taken : t.of # "runtime"
  BY DEF RuntimeInv, TypeInv
<1>3. taken' \subseteq Callbacks
  BY <1>1 DEF TypeInv, Callbacks
<1>4. TakesOnly({"runtime"})
  BY <1>1, <1>2, <1>3 DEF OnceInv, TakesOnly
<1>5. ASSUME UNCHANGED <<registered, ending, executor, refused>>, ~Due("retire", "runtime")'
      PROVE  RuntimeInv'
  BY <1>1, <1>2, <1>5 DEF RuntimeInv
<1>6. QED
  BY <1>1, <1>2, <1>3, <1>4, <1>5

LEMMA HoldersWait ==
  ASSUME CountInv
  PROVE  /\ accepted # {} \/ objects # {} => ~IsDrained(runtime)
         /\ \A m \in Maps : HoldsRuntime(m) => ~IsDrained(runtime) /\ runtime.children # 0
<1>1. accepted # {} \/ objects # {} => ~IsDrained(runtime)
  BY RuntimeEmpty
<1>2. ASSUME NEW m \in Maps, HoldsRuntime(m)
      PROVE  ~IsDrained(runtime) /\ runtime.children # 0
  <2>1. m \in Keepers
    BY <1>2 DEF Keepers
  <2>2. Cardinality(Keepers) # 0
    BY <2>1, Counted DEF CountInv, ChildCount
  <2>3. QED
    BY <2>2 DEF CountInv, ChildCount, IsDrained
<1>3. QED
  BY <1>1, <1>2

(* release_runtime_map(): the runtime's handle is there.                   *)
LEMMA ChildLeft ==
  ASSUME IInv, NEW m \in Maps, HoldsRuntime(m), ReleasesChild
  PROVE  /\ DropsRuntime(TRUE, "host")
         /\ Keepers' = Keepers \ {m} => ChildCount'
<1> USE DEF IInv
<1>1. runtime.children # 0 /\ m \in Keepers
  BY HoldersWait DEF Keepers
<1>2. DropsRuntime(TRUE, "host")
  BY <1>1 DEF ReleasesChild, RuntimeInv
<1>3. runtime'.children = runtime.children - 1
  BY <1>2, RuntimeDropped
<1>4. QED
  BY <1>1, <1>2, <1>3, OneFewer DEF CountInv, ChildCount

(* Somebody lets go of a map that has not drained.                         *)
LEMMA MapParted ==
  ASSUME IInv, NEW m \in Maps, ~IsDrained(control[m]), NEW child \in BOOLEAN,
         NEW by \in {"host", "worker"}, DropsMap(m, child, by)
  PROVE  /\ control' \in [Maps -> Controls]
         /\ TakesOnly({m})
         /\ \A n \in Maps \ {m} : control'[n] = control[n]
         /\ control'[m].submissions =
              IF child THEN control[m].submissions ELSE control[m].submissions - 1
         /\ control'[m].children =
              IF child THEN control[m].children - 1 ELSE control[m].children
         /\ /\ UNCHANGED <<closer, native>>
            /\ \A n \in Maps : /\ Due("begin", n)' => Due("begin", n)
                               /\ Due("finish", n)' => Due("finish", n)
           => CloseInv'
<1> USE DEF IInv
<1>1. /\ control' \in [Maps -> Controls]
      /\ \A n \in Maps \ {m} : control'[n] = control[n]
      /\ control'[m].submissions =
           IF child THEN control[m].submissions ELSE control[m].submissions - 1
      /\ control'[m].children =
           IF child THEN control[m].children - 1 ELSE control[m].children
      /\ control'[m].closing = control[m].closing
      /\ control'[m].armed => control[m].armed /\ ~IsDrained(control'[m])
      /\ \/ taken' = taken
         \/ /\ taken' = taken \union {[of |-> m, by |-> by]}
            /\ control[m].armed /\ IsDrained(control'[m]) /\ ~control'[m].armed
  BY MapDropped
<1>2. ~Due("finish", m) /\ \A t \in taken : t.of # m
  BY DEF CloseInv
<1>3. taken' \subseteq Callbacks
  BY <1>1 DEF TypeInv, Callbacks
<1>4. TakesOnly({m})
  BY <1>1, <1>2, <1>3 DEF OnceInv, TakesOnly
<1>5. ASSUME UNCHANGED <<closer, native>>,
             \A n \in Maps : /\ Due("begin", n)' => Due("begin", n)
                             /\ Due("finish", n)' => Due("finish", n)
      PROVE  CloseInv'
  <2>1. closer[m] \notin {"finished", "destroyed"}
    BY DEF CloseInv
  <2>2. QED
    BY <1>1, <1>2, <1>4, <1>5, <2>1 DEF CloseInv
<1>6. QED
  BY <1>1, <1>3, <1>4, <1>5

LEMMA HolderWaits ==
  ASSUME CountInv, NEW x \in holding, MapOf(x) \in Maps
  PROVE  ~IsDrained(control[MapOf(x)])
BY MapEmpty DEF Holders

LEMMA LeaseDropped ==
  ASSUME IInv, NEW x \in holding, MapOf(x) \in Maps, NEW by \in {"host", "worker"},
         ReleasesMap(x, by), UNCHANGED session, \A y \in holding : MapOf(y)' = MapOf(y)
  PROVE  /\ holding' = holding \ {x} /\ MapCount'
         /\ control' \in [Maps -> Controls]
         /\ TakesOnly(Maps)
         /\ /\ UNCHANGED <<closer, native>>
            /\ \A n \in Maps : /\ Due("begin", n)' => Due("begin", n)
                               /\ Due("finish", n)' => Due("finish", n)
           => CloseInv'
<1>1. ~IsDrained(control[MapOf(x)])
  BY HolderWaits DEF IInv
<1>2. /\ control' \in [Maps -> Controls]
      /\ TakesOnly({MapOf(x)})
      /\ \A n \in Maps \ {MapOf(x)} : control'[n] = control[n]
      /\ control'[MapOf(x)].submissions = control[MapOf(x)].submissions - 1
      /\ control'[MapOf(x)].children = control[MapOf(x)].children
      /\ /\ UNCHANGED <<closer, native>>
         /\ \A n \in Maps : /\ Due("begin", n)' => Due("begin", n)
                            /\ Due("finish", n)' => Due("finish", n)
        => CloseInv'
  BY <1>1, MapParted DEF ReleasesMap
<1>3. holding' = holding \ {x}
  BY DEF ReleasesMap
<1>4. MapCount'
  BY <1>2, <1>3, MapLeft DEF IInv, CountInv
<1>5. QED
  BY <1>2, <1>3, <1>4, NamesAre DEF TakesOnly

(* A completion is delivered.                                              *)
LEMMA Delivered ==
  ASSUME IInv, NEW x \in accepted, NEW by \in {"host", "worker"}, Resolves(x, by)
  PROVE  /\ accepted' = accepted \ {x} /\ (UNCHANGED objects => SubmitCount')
         /\ runtime' \in Controls /\ runtime'.children = runtime.children
         /\ TakesOnly({"runtime"})
         /\ executor = "running" /\ ~Due("retire", "runtime")
         /\ UNCHANGED <<registered, ending, executor, refused>> /\ ~Due("retire", "runtime")'
              => RuntimeInv'
<1>1. ~IsDrained(runtime) /\ DropsRuntime(FALSE, by) /\ accepted' = accepted \ {x}
  BY HoldersWait DEF IInv, Resolves, Released
<1>2. /\ runtime' \in Controls
      /\ TakesOnly({"runtime"})
      /\ runtime'.submissions = runtime.submissions - 1
      /\ runtime'.children = runtime.children
      /\ executor = "running" /\ ~Due("retire", "runtime")
      /\ UNCHANGED <<registered, ending, executor, refused>> /\ ~Due("retire", "runtime")'
           => RuntimeInv'
  BY <1>1, RuntimeLeft
<1>3. UNCHANGED objects => SubmitCount'
  BY <1>1, <1>2, SubmitChanged DEF IInv, CountInv
<1>4. QED
  BY <1>1, <1>2, <1>3
-----------------------------------------------------------------------------
LEMMA LeaseRuntimeStep ==
  ASSUME IInv, NEW m \in Maps, LeaseRuntime(m), CreationFrame PROVE IInv'
<1> USE DEF IInv, CountInv, None
<1> USE DEF LeaseRuntime, CreationFrame, Elsewhere, runtime_vars, Creates
<1>1. TypeInv'
  BY DEF TypeInv, Creations
<1>2. OnceInv' /\ CallInv' /\ WaitInv' /\ CloseInv' /\ RuntimeInv' /\ Queued' = Queued
  BY Frames
<1>3. CreateInv'
  BY <1>2 DEF CreateInv, Due, TypeInv, Creations
<1>4. Keepers' = Keepers
  BY DEF Keepers, HoldsRuntime, TypeInv
<1>5. CountInv'
  BY <1>4, CountFrames DEF MapOf
<1>6. QED
  BY <1>1, <1>2, <1>3, <1>5

LEMMA RetainRuntimeStep ==
  ASSUME IInv, NEW m \in Maps, RetainRuntime(m), CreationFrame PROVE IInv'
<1> USE DEF IInv, CountInv, None
<1> USE DEF RetainRuntime, CreationFrame, Elsewhere, runtime_vars, Creates
<1>1. TypeInv'
  BY ControlsAre DEF TypeInv, Creations
<1>2. OnceInv' /\ CallInv' /\ WaitInv' /\ CloseInv' /\ Queued' = Queued
  BY Frames
<1>3. CreateInv'
  BY <1>2 DEF CreateInv, Due, TypeInv, Creations
<1>4. RuntimeInv'
  BY <1>2, ControlsAre DEF RuntimeInv, Due, TypeInv
<1>5. SubmitCount' /\ MapCount'
  BY CountFrames, ControlsAre DEF TypeInv, MapOf
<1>6. ChildCount'
  <2>1. creator[m] = "leased" /\ ~HoldsRuntime(m)
    BY DEF HoldsRuntime
  <2>2. \A n \in Maps \ {m} : HoldsRuntime(n)' <=> HoldsRuntime(n)
    BY DEF HoldsRuntime, TypeInv
  <2>3. CASE runtime' = ChildRetained(runtime) /\ creator' = [creator EXCEPT ![m] = "retained"]
    <3>1. Keepers' = Keepers \union {m} /\ m \notin Keepers
      BY <2>1, <2>2, <2>3 DEF Keepers, HoldsRuntime, TypeInv
    <3>2. runtime'.children = runtime.children + 1
      BY <2>3, ControlsAre DEF TypeInv
    <3>3. QED
      BY <3>1, <3>2, OneMore DEF ChildCount
  <2>4. CASE runtime' = runtime /\ creator' = [creator EXCEPT ![m] = "failed"]
    <3>1. Keepers' = Keepers
      BY <2>1, <2>2, <2>4 DEF Keepers, HoldsRuntime, TypeInv
    <3>2. QED
      BY <2>4, <3>1, CountFrames
  <2>5. QED
    BY <2>3, <2>4
<1>7. QED
  BY <1>1, <1>2, <1>3, <1>4, <1>5, <1>6

LEMMA BuildObjectStep ==
  ASSUME IInv, NEW m \in Maps, BuildObject(m), CreationFrame PROVE IInv'
<1> USE DEF IInv, CountInv, None
<1> USE DEF BuildObject, CreationFrame, Elsewhere, runtime_vars, Creates
<1>1. CASE ~CanAcquire(runtime)
  <2>1. TypeInv'
    BY <1>1 DEF TypeInv, Creations
  <2>2. OnceInv' /\ CallInv' /\ WaitInv' /\ CloseInv' /\ RuntimeInv' /\ Queued' = Queued
    BY <1>1, Frames
  <2>3. CreateInv'
    BY <1>1, <2>2 DEF CreateInv, Due, TypeInv, Creations
  <2>4. Keepers' = Keepers
    BY <1>1 DEF Keepers, HoldsRuntime, TypeInv
  <2>5. CountInv'
    BY <1>1, <2>4, CountFrames DEF MapOf
  <2>6. QED
    BY <2>1, <2>2, <2>3, <2>5
<1>2. CASE CanAcquire(runtime)
  <2>1. TypeInv'
    <3>1. runtime' \in Controls /\ control' \in [Maps -> Controls]
      BY <1>2, ControlsAre DEF TypeInv
    <3>2. creator' \in [Maps -> Creations] /\ objects' \subseteq Maps
          /\ holding' \subseteq Maps \union Calls
      BY <1>2 DEF TypeInv, Creations
    <3>3. QED
      BY <1>2, <3>1, <3>2 DEF TypeInv
  <2>2. OnceInv' /\ Queued' = Queued
    BY <1>2, Frames
  <2>3. m \notin objects /\ m \notin holding /\ closer[m] = "open"
    BY DEF CreateInv
  <2>4. CallInv' /\ WaitInv'
    BY <1>2, <2>2, NamesAre DEF CallInv, WaitInv, Due
  <2>5. CreateInv'
    BY <1>2, <2>2 DEF CreateInv, Due, TypeInv, Creations
  <2>6. CloseInv'
    BY <1>2, <2>2, <2>3, ControlsAre DEF CloseInv, Due, TypeInv
  <2>7. RuntimeInv'
    BY <1>2, <2>2, ControlsAre DEF RuntimeInv, Due, TypeInv
  <2>8. MapCount'
    BY <1>2, <2>3, MapJoined DEF TypeInv, MapOf
  <2>9. ChildCount'
    <3>1. Keepers' = Keepers
      BY <1>2 DEF Keepers, HoldsRuntime, TypeInv
    <3>2. runtime'.children = runtime.children
      BY <1>2, ControlsAre DEF TypeInv
    <3>3. QED
      BY <3>1, <3>2, CountFrames
  <2>10. SubmitCount'
    <3>1. runtime'.submissions = runtime.submissions + 1
      BY <1>2, ControlsAre DEF TypeInv
    <3>2. m \notin objects /\ objects' = objects \union {m} /\ accepted' = accepted
      BY <1>2, <2>3
    <3>3. QED
      BY <3>1, <3>2, SubmitChanged
  <2>11. QED
    BY <2>1, <2>2, <2>4, <2>5, <2>6, <2>7, <2>8, <2>9, <2>10
<1>3. QED
  BY <1>1, <1>2

(* The lease of a construction that nobody knows.                          *)
LEMMA CreationDropped ==
  ASSUME IInv, NEW m \in Maps, DropsCreation(m), creator[m] \in {"built", "accepted"},
         UNCHANGED <<session, call>>
  PROVE  /\ control' \in [Maps -> Controls] /\ MapCount' /\ holding' = holding \ {m}
         /\ \A n \in Maps \ {m} : control'[n] = control[n]
         /\ ~control'[m].closing /\ ~control'[m].armed
<1> USE DEF IInv, CountInv
<1>1. m \in holding /\ ~control[m].closing /\ ~control[m].armed
  BY DEF CreateInv, CloseInv
<1>2. control[m] \in Controls /\ control' = [control EXCEPT ![m] = Retired(control[m], FALSE)]
  BY DEF TypeInv, DropsCreation
<1>3. control'[m] = Retired(control[m], FALSE) /\ \A n \in Maps \ {m} : control'[n] = control[n]
  BY <1>2 DEF TypeInv
<1>4. /\ control' \in [Maps -> Controls] /\ ~control'[m].closing /\ ~control'[m].armed
      /\ control'[m].submissions = control[m].submissions - 1
      /\ control'[m].children = control[m].children
  <2> DEFINE d == Retired(control[m], FALSE)
  <2>1. /\ d \in Controls /\ d.submissions = control[m].submissions - 1
        /\ d.children = control[m].children /\ ~d.closing /\ ~d.armed
    BY <1>1, <1>2, RetiredIs
  <2> HIDE DEF d
  <2>2. control'[m] = d /\ control' = [control EXCEPT ![m] = d]
    BY <1>2, <1>3 DEF d
  <2>3. QED
    BY <2>1, <2>2 DEF TypeInv
<1>5. MapCount'
  BY <1>1, <1>3, <1>4, MapLeft DEF DropsCreation, MapOf
<1>6. QED
  BY <1>3, <1>4, <1>5 DEF DropsCreation

LEMMA AcceptCreationStep ==
  ASSUME IInv, NEW m \in Maps, AcceptCreation(m), CreationFrame PROVE IInv'
<1> USE DEF IInv, CountInv, None
<1> USE DEF AcceptCreation, CreationFrame, Elsewhere, runtime_vars, Creates
<1>1. OnceInv' /\ Queued' = Queued
  BY Frames
<1>2. Keepers' = Keepers
  BY DEF Keepers, HoldsRuntime, TypeInv
<1>3. m \notin accepted /\ m \in holding /\ closer[m] = "open"
  BY DEF CreateInv
<1>4. CASE CanAcquire(runtime)
  <2>1. TypeInv'
    BY <1>4, ControlsAre DEF TypeInv, Creations
  <2>2. CloseInv'
    BY <1>4, Frames
  <2>3. CallInv' /\ WaitInv'
    BY <1>1, <1>4, NamesAre DEF CallInv, WaitInv, Due
  <2>4. CreateInv'
    BY <1>1, <1>4 DEF CreateInv, Due, TypeInv, Creations
  <2>5. RuntimeInv'
    BY <1>1, <1>4, ControlsAre DEF RuntimeInv, Due, TypeInv
  <2>6. MapCount' /\ ChildCount'
    BY <1>2, <1>4, CountFrames, ControlsAre DEF TypeInv, MapOf
  <2>7. SubmitCount'
    BY <1>3, <1>4, ControlsAre, SubmitChanged DEF TypeInv
  <2>8. QED
    BY <1>1, <2>1, <2>2, <2>3, <2>4, <2>5, <2>6, <2>7
<1>5. CASE ~CanAcquire(runtime)
  <2>1. /\ control' \in [Maps -> Controls] /\ MapCount' /\ holding' = holding \ {m}
        /\ \A n \in Maps \ {m} : control'[n] = control[n]
        /\ ~control'[m].closing /\ ~control'[m].armed
    BY <1>5, CreationDropped
  <2>2. TypeInv'
    BY <1>5, <2>1 DEF TypeInv, Creations
  <2>3. RuntimeInv'
    BY <1>5, Frames
  <2>4. CallInv' /\ WaitInv'
    BY <1>1, <1>5, <2>1, NamesAre DEF CallInv, WaitInv, Due
  <2>5. CreateInv'
    BY <1>1, <1>5, <2>1 DEF CreateInv, Due, TypeInv, Creations
  <2>6. CloseInv'
    BY <1>1, <1>3, <1>5, <2>1 DEF CloseInv, Due, TypeInv
  <2>7. SubmitCount' /\ ChildCount'
    BY <1>2, <1>5, CountFrames
  <2>8. QED
    BY <1>1, <2>1, <2>2, <2>3, <2>4, <2>5, <2>6, <2>7
<1>6. QED
  BY <1>4, <1>5

LEMMA EnqueueCreationStep ==
  ASSUME IInv, NEW m \in Maps, EnqueueCreation(m), CreationFrame PROVE IInv'
<1> USE DEF IInv, CountInv, None, TakesOnly
<1> USE DEF EnqueueCreation, CreationFrame, Elsewhere, runtime_vars, Creates
<1>1. /\ creator[m] = "accepted" /\ m \in accepted /\ m \in holding /\ m \in objects
      /\ closer[m] = "open" /\ native[m] = None
  BY DEF CreateInv
<1>2. executor = "running" /\ ~IsDrained(runtime)
  BY <1>1, StillRunning
<1>3. CASE /\ Creates(m, "accepted", "submitted") /\ Enqueues("construct", m)
           /\ UNCHANGED <<runtime, control, live, accepted, holding, taken>>
  <2>1. Task("construct", m) \in QueueTasks /\ ~Due("construct", m)
    BY <1>1 DEF QueueTasks, Task, CreateInv
  <2>2. /\ queue' \in Seq(QueueTasks) /\ Queued' = Queued \union {Task("construct", m)}
        /\ \A i, j \in DOMAIN queue' : queue'[i] = queue'[j] => i = j
        /\ refused' = refused
    BY <1>2, <1>3, <2>1, Enqueued DEF Due
  <2>3. TypeInv'
    BY <1>3, <2>2 DEF TypeInv, Creations
  <2>4. OnceInv'
    BY <1>3, <2>1, <2>2 DEF OnceInv, Due
  <2>5. CallInv' /\ WaitInv'
    BY <1>3, <2>2, TasksDiffer DEF CallInv, WaitInv, Due
  <2>6. CreateInv'
    BY <1>1, <1>3, <2>2, TasksDiffer DEF CreateInv, Due, TypeInv
  <2>7. CloseInv'
    BY <1>3, <2>2, TasksDiffer DEF CloseInv, Due
  <2>8. RuntimeInv'
    BY <1>3, <2>2, TasksDiffer DEF RuntimeInv, Due
  <2>9. Keepers' = Keepers
    BY <1>1, <1>3 DEF Keepers, HoldsRuntime, TypeInv
  <2>10. CountInv'
    BY <1>3, <2>9, CountFrames DEF MapOf
  <2>11. QED
    BY <2>3, <2>4, <2>5, <2>6, <2>7, <2>8, <2>10
<1>4. CASE /\ Creates(m, "accepted", "unwinding") /\ live' = live \ {m}
           /\ Resolves(m, "host") /\ DropsCreation(m) /\ UNCHANGED <<queue, refused>>
  <2>1. /\ control' \in [Maps -> Controls] /\ MapCount' /\ holding' = holding \ {m}
        /\ \A n \in Maps \ {m} : control'[n] = control[n]
        /\ ~control'[m].closing /\ ~control'[m].armed
    BY <1>1, <1>4, CreationDropped
  <2>2. DropsRuntime(FALSE, "host") /\ accepted' = accepted \ {m}
    BY <1>4 DEF Resolves, Released
  <2>3. /\ runtime' \in Controls
        /\ TakesOnly({"runtime"})
        /\ runtime'.submissions = runtime.submissions - 1
        /\ runtime'.children = runtime.children
        /\ ~Due("retire", "runtime")
        /\ UNCHANGED <<registered, ending, executor, refused>> /\ ~Due("retire", "runtime")'
             => RuntimeInv'
    BY <1>2, <2>2, RuntimeLeft
  <2>4. Queued' = Queued
    BY <1>4, Frames
  <2>5. TypeInv'
    BY <1>4, <2>1, <2>2, <2>3 DEF TypeInv, Creations
  <2>6. OnceInv'
    BY <1>4, <2>3, <2>4 DEF OnceInv
  <2>7. CallInv' /\ WaitInv'
    BY <2>1, <2>2, <2>4, NamesAre DEF CallInv, WaitInv, Due
  <2>8. CreateInv'
    BY <1>1, <1>4, <2>1, <2>2, <2>4 DEF CreateInv, Due, TypeInv, Creations
  <2>9. CloseInv'
    BY <1>1, <2>1, <2>3, <2>4, NamesAre DEF CloseInv, Due
  <2>10. RuntimeInv'
    BY <1>4, <2>3, <2>4 DEF Due
  <2>11. Keepers' = Keepers
    BY <1>4 DEF Keepers, HoldsRuntime, TypeInv
  <2>12. SubmitCount' /\ ChildCount'
    BY <1>1, <2>2, <2>3, <2>11, CountFrames, SubmitChanged
  <2>13. QED
    BY <2>1, <2>5, <2>6, <2>7, <2>8, <2>9, <2>10, <2>12
<1>5. QED
  BY <1>3, <1>4

LEMMA UnwindCreationStep ==
  ASSUME IInv, NEW m \in Maps, UnwindCreation(m), CreationFrame PROVE IInv'
<1> USE DEF IInv, CountInv, None, TakesOnly
<1> USE DEF UnwindCreation, CreationFrame, Elsewhere, runtime_vars, Creates
<1>1. /\ Queued' = Queued /\ CallInv' /\ WaitInv' /\ MapCount'
      /\ creator[m] \in {"unwinding", "unwound"} /\ closer[m] = "open"
  BY Frames, CountFrames DEF MapOf, CreateInv
<1>2. HoldsRuntime(m) /\ ~IsDrained(runtime)
  BY <1>1, HoldersWait DEF HoldsRuntime
<1>3. PICK child \in BOOLEAN :
        /\ DropsRuntime(child, "host")
        /\ Creates(m, IF child THEN "unwound" ELSE "unwinding",
                      IF child THEN "failed" ELSE "unwound")
        /\ objects' = IF child THEN objects ELSE objects \ {m}
  BY <1>2, ChildLeft
<1>4. /\ runtime' \in Controls
      /\ TakesOnly({"runtime"})
      /\ runtime'.submissions =
           IF child THEN runtime.submissions ELSE runtime.submissions - 1
      /\ runtime'.children = IF child THEN runtime.children - 1 ELSE runtime.children
      /\ ~Due("retire", "runtime")
      /\ UNCHANGED <<registered, ending, executor, refused>> /\ ~Due("retire", "runtime")'
           => RuntimeInv'
  BY <1>2, <1>3, RuntimeLeft, HoldersWait
<1>5. TypeInv'
  BY <1>3, <1>4 DEF TypeInv, Creations
<1>6. OnceInv' /\ CloseInv'
  BY <1>1, <1>4, NamesAre DEF OnceInv, CloseInv, Due
<1>7. CreateInv'
  BY <1>1, <1>3 DEF CreateInv, Due, TypeInv, Creations
<1>8. RuntimeInv'
  BY <1>1, <1>4 DEF Due
<1>9. SubmitCount'
  BY <1>3, <1>4, SubmitChanged, CountFrames DEF CreateInv
<1>10. ChildCount'
  <2>1. CASE child
    <3>1. Keepers' = Keepers \ {m}
      BY <1>3, <2>1 DEF Keepers, HoldsRuntime, TypeInv, Creations
    <3>2. QED
      BY <1>2, <1>4, <2>1, <3>1, OneFewer DEF ChildCount, Keepers
  <2>2. CASE ~child
    <3>1. Keepers' = Keepers
      BY <1>3, <2>2 DEF Keepers, HoldsRuntime, TypeInv, Creations
    <3>2. QED
      BY <1>4, <2>2, <3>1, CountFrames
  <2>3. QED
    BY <2>1, <2>2
<1>11. QED
  BY <1>1, <1>5, <1>6, <1>7, <1>8, <1>9, <1>10
-----------------------------------------------------------------------------
LEMMA LeaseMapStep ==
  ASSUME IInv, NEW c \in Calls, LeaseMap(c), CallFrame PROVE IInv'
<1> USE DEF IInv, CountInv, CallRecords
<1> USE DEF LeaseMap, CallFrame, Elsewhere, runtime_vars, map_vars
<1>1. PICK m \in live, kind \in Kinds :
        call' = [call EXCEPT ![c] = [step |-> "leased", map |-> m, kind |-> kind]]
  OBVIOUS
<1>2. m \in Maps /\ c \notin holding /\ c \notin accepted /\ call[c].map = None
      /\ call[c].step = "idle"
  BY DEF CallInv, TypeInv
<1>3. TypeInv'
  BY <1>1, <1>2 DEF TypeInv, CallSteps
<1>4. /\ OnceInv' /\ CreateInv' /\ CloseInv' /\ RuntimeInv' /\ Queued' = Queued
      /\ SubmitCount' /\ ChildCount'
  BY Frames, CountFrames
<1>5. CallInv'
  BY <1>1, <1>2, <1>4 DEF CallInv, Due, TypeInv
<1>6. WaitInv'
  BY <1>1, <1>2, <1>4, NamesAre DEF WaitInv, Due, TypeInv
<1>7. MapCount'
  BY <1>1, <1>2, CountFrames DEF MapOf, TypeInv
<1>8. QED
  BY <1>3, <1>4, <1>5, <1>6, <1>7

(* Where a submission's step leads says nothing of its map.                *)
LEMMA Moved ==
  ASSUME TypeInv, NEW c \in Calls, NEW from \in CallSteps, NEW to \in CallSteps,
         Moves(c, from, to)
  PROVE  OnlyMoves(c, from, to)
<1>1. call' = [call EXCEPT ![c].step = to] /\ call[c].step = from
  BY DEF Moves
<1>2. \A d \in Calls : call'[d] = IF d = c THEN [call[c] EXCEPT !.step = to] ELSE call[d]
  BY <1>1 DEF TypeInv
<1>3. /\ call' \in [Calls -> CallRecords] /\ call'[c].step = to
      /\ \A d \in Calls : call'[d].map = call[d].map /\ call'[d].kind = call[d].kind
      /\ \A d \in Calls \ {c} : call'[d] = call[d]
  BY <1>1, <1>2 DEF TypeInv, CallRecords
<1>4. QED
  BY <1>1, <1>3 DEF MapOf, OnlyMoves

LEMMA AcquireMapStep ==
  ASSUME IInv, NEW c \in Calls, AcquireMap(c), CallFrame PROVE IInv'
<1> USE DEF IInv, CountInv, OnlyMoves, CallRecords
<1> USE DEF AcquireMap, CallFrame, Elsewhere, runtime_vars, map_vars
<1>1. /\ call[c].map \in Maps /\ c \notin holding /\ call[c].step = "leased"
      /\ control[call[c].map] \in Controls
  BY DEF CallInv, TypeInv
<1>2. /\ OnceInv' /\ RuntimeInv' /\ Queued' = Queued /\ SubmitCount' /\ ChildCount'
  BY Frames, CountFrames
<1>3. CASE CanAcquire(control[call[c].map])
  <2>1. /\ Moves(c, "leased", "prepared") /\ holding' = holding \union {c}
        /\ control' = [control EXCEPT ![call[c].map] = Acquired(control[call[c].map])]
    BY <1>3
  <2>2. OnlyMoves(c, "leased", "prepared")
    BY <2>1, Moved DEF CallSteps
  <2>3. TypeInv'
    BY <1>1, <2>1, <2>2, ControlsAre DEF TypeInv
  <2>4. CallInv' /\ WaitInv'
    BY <1>1, <1>2, <2>1, <2>2 DEF CallInv, WaitInv, Due
  <2>5. CreateInv'
    BY <1>2, <2>1, NamesAre DEF CreateInv, Due
  <2>6. CloseInv'
    BY <1>1, <1>2, <1>3, <2>1, ControlsAre DEF CloseInv, Due, TypeInv
  <2>7. MapCount'
    BY <1>1, <2>1, <2>2, MapJoined, NamesAre DEF TypeInv
  <2>8. QED
    BY <1>2, <2>3, <2>4, <2>5, <2>6, <2>7
<1>4. CASE ~CanAcquire(control[call[c].map])
  <2>1. Moves(c, "leased", "returned") /\ UNCHANGED <<control, holding>>
    BY <1>4
  <2>2. OnlyMoves(c, "leased", "returned")
    BY <2>1, Moved DEF CallSteps
  <2>3. TypeInv'
    BY <2>1, <2>2 DEF TypeInv
  <2>4. CallInv' /\ WaitInv'
    BY <1>1, <1>2, <2>1, <2>2 DEF CallInv, WaitInv, Due
  <2>5. CreateInv' /\ CloseInv'
    BY <2>1, Frames
  <2>6. MapCount'
    BY <2>1, <2>2, CountFrames DEF TypeInv
  <2>7. QED
    BY <1>2, <2>3, <2>4, <2>5, <2>6
<1>5. QED
  BY <1>3, <1>4

LEMMA AcquireRuntimeStep ==
  ASSUME IInv, NEW c \in Calls, AcquireRuntime(c), CallFrame PROVE IInv'
<1> USE DEF IInv, CountInv, OnlyMoves, CallRecords
<1> USE DEF AcquireRuntime, CallFrame, Elsewhere, runtime_vars, map_vars
<1>1. PICK to \in {"accepted", "unwinding"} :
        /\ Moves(c, "prepared", to)
        /\ to = "accepted" => /\ CanAcquire(runtime) /\ runtime' = Acquired(runtime)
                              /\ accepted' = accepted \union {c}
        /\ to = "unwinding" => UNCHANGED <<runtime, accepted>>
  OBVIOUS
<1>2. OnlyMoves(c, "prepared", to)
  BY <1>1, Moved DEF CallSteps
<1>3. c \notin accepted /\ c \in holding
  BY <1>2 DEF CallInv
<1>4. /\ OnceInv' /\ CloseInv' /\ Queued' = Queued
  BY Frames
<1>5. TypeInv'
  BY <1>1, <1>2, ControlsAre DEF TypeInv
<1>6. CallInv' /\ WaitInv'
  BY <1>1, <1>2, <1>3, <1>4 DEF CallInv, WaitInv, Due
<1>7. CreateInv'
  BY <1>1, <1>4, NamesAre DEF CreateInv, Due
<1>8. RuntimeInv'
  BY <1>1, <1>4, ControlsAre DEF RuntimeInv, Due, TypeInv
<1>9. MapCount' /\ ChildCount'
  BY <1>1, <1>2, CountFrames, ControlsAre DEF TypeInv
<1>10. SubmitCount'
  BY <1>1, <1>3, CountFrames, SubmitChanged, ControlsAre DEF TypeInv
<1>11. QED
  BY <1>4, <1>5, <1>6, <1>7, <1>8, <1>9, <1>10

LEMMA EnqueueCallStep ==
  ASSUME IInv, NEW c \in Calls, EnqueueCall(c), CallFrame PROVE IInv'
<1> USE DEF IInv, CountInv, TakesOnly, OnlyMoves, CallRecords
<1> USE DEF EnqueueCall, CallFrame, Elsewhere, runtime_vars, map_vars
<1>1. CASE /\ Moves(c, "accepted", "queued") /\ Enqueues("run", c)
           /\ UNCHANGED <<runtime, accepted, taken>>
  <2>1. OnlyMoves(c, "accepted", "queued")
    BY <1>1, Moved DEF CallSteps
  <2>2. c \in accepted /\ c \in holding /\ ~Due("run", c) /\ worker # Task("clear", c)
    BY <2>1 DEF CallInv
  <2>3. executor = "running" /\ Task("run", c) \in QueueTasks
    BY <2>2, StillRunning DEF QueueTasks, Task
  <2>4. /\ queue' \in Seq(QueueTasks) /\ Queued' = Queued \union {Task("run", c)}
        /\ \A i, j \in DOMAIN queue' : queue'[i] = queue'[j] => i = j
        /\ refused' = refused
    BY <1>1, <2>2, <2>3, Enqueued DEF Due
  <2>5. TypeInv'
    BY <1>1, <2>1, <2>4 DEF TypeInv
  <2>6. OnceInv'
    BY <1>1, <2>2, <2>4 DEF OnceInv, Due
  <2>7. CallInv' /\ WaitInv'
    BY <1>1, <2>1, <2>2, <2>4, TasksDiffer DEF CallInv, WaitInv, Due
  <2>8. CreateInv' /\ CloseInv' /\ RuntimeInv'
    BY <1>1, <2>4, TasksDiffer DEF CreateInv, CloseInv, RuntimeInv, Due
  <2>9. CountInv'
    BY <1>1, <2>1, CountFrames DEF TypeInv
  <2>10. QED
    BY <2>5, <2>6, <2>7, <2>8, <2>9
<1>2. CASE Moves(c, "accepted", "unwinding") /\ Resolves(c, "host") /\ UNCHANGED <<queue, refused>>
  <2>1. OnlyMoves(c, "accepted", "unwinding")
    BY <1>2, Moved DEF CallSteps
  <2>2. c \in accepted /\ c \in holding /\ Queued' = Queued
    BY <1>2, <2>1, Frames DEF CallInv
  <2>3. /\ accepted' = accepted \ {c} /\ SubmitCount'
        /\ runtime' \in Controls /\ runtime'.children = runtime.children
        /\ TakesOnly({"runtime"})
        /\ ~Due("retire", "runtime")
        /\ UNCHANGED <<registered, ending, executor, refused>> /\ ~Due("retire", "runtime")'
             => RuntimeInv'
    BY <1>2, <2>2, Delivered
  <2>4. TypeInv'
    BY <1>2, <2>1, <2>3 DEF TypeInv
  <2>5. OnceInv' /\ CloseInv'
    BY <1>2, <2>2, <2>3, NamesAre DEF OnceInv, CloseInv, Due
  <2>6. CallInv' /\ WaitInv'
    BY <1>2, <2>1, <2>2, <2>3 DEF CallInv, WaitInv, Due
  <2>7. CreateInv' /\ RuntimeInv'
    BY <1>2, <2>2, <2>3, NamesAre DEF CreateInv, Due
  <2>8. MapCount' /\ ChildCount'
    BY <1>2, <2>1, <2>3, CountFrames DEF TypeInv
  <2>9. QED
    BY <2>3, <2>4, <2>5, <2>6, <2>7, <2>8
<1>3. QED
  BY <1>1, <1>2

LEMMA UnwindCallStep ==
  ASSUME IInv, NEW c \in Calls, UnwindCall(c), CallFrame PROVE IInv'
<1> USE DEF IInv, CountInv, TakesOnly, OnlyMoves, CallRecords
<1> USE DEF UnwindCall, CallFrame, Elsewhere, runtime_vars, map_vars
<1>1. OnlyMoves(c, "unwinding", "returned")
  BY Moved DEF CallSteps
<1>2. c \in holding /\ MapOf(c) \in Maps /\ c \notin accepted /\ Queued' = Queued
  BY <1>1, NamesAre, Frames DEF CallInv
<1>3. /\ holding' = holding \ {c} /\ MapCount'
      /\ control' \in [Maps -> Controls]
      /\ TakesOnly(Maps)
      /\ /\ UNCHANGED <<closer, native>>
         /\ \A n \in Maps : /\ Due("begin", n)' => Due("begin", n)
                            /\ Due("finish", n)' => Due("finish", n)
        => CloseInv'
  BY <1>1, <1>2, LeaseDropped DEF TypeInv
<1>4. CloseInv'
  BY <1>2, <1>3 DEF Due
<1>5. TypeInv'
  BY <1>1, <1>3 DEF TypeInv
<1>6. OnceInv' /\ RuntimeInv'
  BY <1>2, <1>3, NamesAssumption DEF OnceInv, RuntimeInv, Due
<1>7. CallInv' /\ WaitInv'
  BY <1>1, <1>2, <1>3 DEF CallInv, WaitInv, Due
<1>8. CreateInv'
  BY <1>2, <1>3, NamesAre DEF CreateInv, Due
<1>9. SubmitCount' /\ ChildCount'
  BY CountFrames
<1>10. QED
  BY <1>3, <1>4, <1>5, <1>6, <1>7, <1>8, <1>9
-----------------------------------------------------------------------------
LEMMA CloseMapStep ==
  ASSUME IInv, NEW m \in Maps, CloseMap(m) \/ Attach(m) \/ DisposeSession(m), CloseFrame
  PROVE  IInv'
<1> USE DEF IInv, CountInv, None
<1> USE DEF CloseFrame, Elsewhere, runtime_vars
<1>1. CASE CloseMap(m)
  <2>1. /\ creator[m] = "submitted" /\ closer[m] = "open"
        /\ closer' = [closer EXCEPT ![m] = "closing"]
        /\ control' = [control EXCEPT ![m] = Closed(control[m])] /\ control[m] \in Controls
        /\ UNCHANGED <<runtime, session, queue, taken, refused>>
    BY <1>1 DEF CloseMap, Closes, TypeInv
  <2>2. /\ OnceInv' /\ CallInv' /\ WaitInv' /\ RuntimeInv' /\ Queued' = Queued /\ SubmitCount'
    BY <2>1, Frames, CountFrames
  <2>3. TypeInv'
    BY <2>1, ControlsAre DEF TypeInv, Closings
  <2>4. CreateInv'
    BY <2>1, <2>2 DEF CreateInv, Due, TypeInv
  <2>5. CloseInv'
    BY <2>1, <2>2, ControlsAre DEF CloseInv, Due, TypeInv
  <2>6. Keepers' = Keepers
    BY <2>1 DEF Keepers, HoldsRuntime, TypeInv
  <2>7. ChildCount' /\ MapCount'
    BY <2>1, <2>6, ControlsAre, CountFrames DEF TypeInv, MapOf
  <2>8. QED
    BY <2>2, <2>3, <2>4, <2>5, <2>7
<1>2. CASE Attach(m)
  <2>1. /\ closer[m] = "open" /\ session[m] = None /\ session' = [session EXCEPT ![m] = "attached"]
        /\ control' = [control EXCEPT ![m] = ChildRetained(control[m])] /\ control[m] \in Controls
        /\ ~control[m].closing
        /\ UNCHANGED <<runtime, closer, queue, taken, refused>>
    BY <1>2 DEF Attach, Becomes, MapDisposed, CanAcquire, TypeInv
  <2>2. /\ OnceInv' /\ CallInv' /\ WaitInv' /\ CreateInv' /\ RuntimeInv' /\ Queued' = Queued
        /\ SubmitCount' /\ ChildCount'
    BY <2>1, Frames, CountFrames
  <2>3. TypeInv'
    BY <2>1, ControlsAre DEF TypeInv
  <2>4. CloseInv'
    BY <2>1, <2>2, ControlsAre DEF CloseInv, Due, TypeInv
  <2>5. MapCount'
    <3>1. \A n \in Maps : Holders(n)' = Holders(n)
      BY DEF Holders, MapOf
    <3>2. QED
      BY <2>1, <3>1, ControlsAre DEF MapCount, TypeInv
  <2>6. QED
    BY <2>2, <2>3, <2>4, <2>5
<1>3. CASE DisposeSession(m)
  <2>1. /\ session[m] = "attached" /\ session' = [session EXCEPT ![m] = "disposed"]
        /\ UNCHANGED <<runtime, control, closer, queue, taken, refused>>
    BY <1>3 DEF DisposeSession, Becomes
  <2>2. /\ OnceInv' /\ CallInv' /\ WaitInv' /\ CreateInv' /\ CloseInv' /\ RuntimeInv'
        /\ SubmitCount' /\ ChildCount'
    BY <2>1, Frames, CountFrames
  <2>3. TypeInv'
    BY <2>1 DEF TypeInv
  <2>4. MapCount'
    <3>1. \A n \in Maps : Holders(n)' = Holders(n)
      BY DEF Holders, MapOf
    <3>2. QED
      BY <2>1, <3>1 DEF MapCount, TypeInv
  <2>5. QED
    BY <2>2, <2>3, <2>4
<1>4. QED
  BY <1>1, <1>2, <1>3

LEMMA DetachStep ==
  ASSUME IInv, NEW m \in Maps, Detach(m), CloseFrame PROVE IInv'
<1> USE DEF IInv, CountInv, None, TakesOnly
<1> USE DEF CloseFrame, Elsewhere, runtime_vars
<1>1. /\ closer' = closer /\ CallInv' /\ WaitInv' /\ CreateInv' /\ Queued' = Queued
      /\ SubmitCount' /\ ChildCount' /\ \A n \in Maps : Holders(n)' = Holders(n)
      /\ UNCHANGED <<runtime, queue, refused>>
  BY Frames, CountFrames DEF Detach, Holders, MapOf
<1>2. CASE /\ session[m] \in {"attached", "disposed"}
           /\ session' = [session EXCEPT ![m] = "detaching"]
           /\ UNCHANGED <<control, taken>>
  <2>1. TypeInv' /\ OnceInv' /\ CloseInv' /\ RuntimeInv'
    BY <1>1, <1>2, Frames DEF TypeInv
  <2>2. MapCount'
    BY <1>1, <1>2 DEF MapCount, TypeInv
  <2>3. QED
    BY <1>1, <2>1, <2>2
<1>3. CASE /\ session[m] = "detaching" /\ session' = [session EXCEPT ![m] = None]
           /\ DropsMap(m, TRUE, "host")
  <2>1. control[m].children = 1 /\ ~IsDrained(control[m])
    BY <1>3 DEF MapCount, IsDrained
  <2>2. /\ control' \in [Maps -> Controls]
        /\ TakesOnly({m})
        /\ \A n \in Maps \ {m} : control'[n] = control[n]
        /\ control'[m].submissions = control[m].submissions
        /\ control'[m].children = control[m].children - 1
        /\ /\ UNCHANGED <<closer, native>>
           /\ \A n \in Maps : /\ Due("begin", n)' => Due("begin", n)
                              /\ Due("finish", n)' => Due("finish", n)
          => CloseInv'
    BY <1>3, <2>1, MapParted
  <2>3. TypeInv'
    BY <1>1, <1>3, <2>2 DEF TypeInv
  <2>4. CloseInv'
    BY <1>1, <2>2 DEF Due
  <2>5. OnceInv' /\ RuntimeInv'
    BY <1>1, <2>2, NamesAre DEF OnceInv, RuntimeInv, Due
  <2>6. MapCount'
    BY <1>1, <1>3, <2>1, <2>2 DEF MapCount, TypeInv
  <2>7. QED
    BY <1>1, <2>3, <2>4, <2>5, <2>6
<1>4. QED
  BY <1>2, <1>3 DEF Detach, Becomes

LEMMA RetireMapStep ==
  ASSUME IInv, NEW m \in Maps, RetireMap(m), CloseFrame PROVE IInv'
<1> USE DEF IInv, CountInv, None, TakesOnly
<1> USE DEF CloseFrame, Elsewhere, runtime_vars, Closes
<1>1. /\ UNCHANGED <<control, session>> /\ SubmitCount /\ ChildCount /\ MapCount'
      /\ creator[m] = "submitted" /\ objects' = objects
  BY CountFrames DEF RetireMap, MapOf, CreateInv
<1>2. CASE Closes(m, "closing", "released") /\ ReleasesChild /\ UNCHANGED <<queue, refused>>
  <2>1. HoldsRuntime(m) /\ ~IsDrained(runtime) /\ runtime.children # 0 /\ Queued' = Queued
    BY <1>1, <1>2, HoldersWait, Frames DEF HoldsRuntime
  <2>2. Keepers' = Keepers \ {m}
    BY <1>1, <1>2 DEF Keepers, HoldsRuntime, TypeInv
  <2>3. DropsRuntime(TRUE, "host") /\ ChildCount'
    BY <1>2, <2>1, <2>2, ChildLeft
  <2>4. /\ runtime' \in Controls
        /\ TakesOnly({"runtime"})
        /\ runtime'.submissions = runtime.submissions
        /\ ~Due("retire", "runtime")
        /\ UNCHANGED <<registered, ending, executor, refused>> /\ ~Due("retire", "runtime")'
             => RuntimeInv'
    BY <2>1, <2>3, RuntimeLeft
  <2>5. TypeInv'
    BY <1>1, <1>2, <2>4 DEF TypeInv, Closings
  <2>6. OnceInv' /\ CallInv' /\ WaitInv'
    BY <1>2, <2>1, <2>4, Frames DEF OnceInv
  <2>7. CreateInv'
    BY <1>1, <1>2, <2>1 DEF CreateInv, Due, TypeInv
  <2>8. CloseInv'
    BY <1>1, <1>2, <2>1, <2>4, NamesAre DEF CloseInv, Due, TypeInv
  <2>9. RuntimeInv' /\ SubmitCount'
    BY <1>1, <1>2, <2>1, <2>4, CountFrames DEF Due
  <2>10. QED
    BY <1>1, <2>3, <2>5, <2>6, <2>7, <2>8, <2>9
<1>3. CASE Closes(m, "released", "retiring") /\ Enqueues("begin", m) /\ UNCHANGED <<runtime, taken>>
  <2>1. /\ m \in objects /\ ~Due("begin", m) /\ executor = "running"
        /\ Task("begin", m) \in QueueTasks
    BY <1>1, <1>3, StillRunning DEF CreateInv, CloseInv, QueueTasks, Task
  <2>2. /\ queue' \in Seq(QueueTasks) /\ Queued' = Queued \union {Task("begin", m)}
        /\ \A i, j \in DOMAIN queue' : queue'[i] = queue'[j] => i = j
        /\ refused' = refused
    BY <1>3, <2>1, Enqueued DEF Due
  <2>3. TypeInv'
    BY <1>1, <1>3, <2>2 DEF TypeInv, Closings
  <2>4. OnceInv'
    BY <1>3, <2>1, <2>2 DEF OnceInv, Due
  <2>5. CallInv' /\ WaitInv' /\ RuntimeInv'
    BY <1>3, <2>2, TasksDiffer DEF CallInv, WaitInv, RuntimeInv, Due
  <2>6. CreateInv'
    BY <1>1, <1>3, <2>2, TasksDiffer DEF CreateInv, Due, TypeInv
  <2>7. CloseInv'
    BY <1>1, <1>3, <2>2, TasksDiffer DEF CloseInv, Due, TypeInv
  <2>8. Keepers' = Keepers
    BY <1>3 DEF Keepers, HoldsRuntime, TypeInv
  <2>9. SubmitCount' /\ ChildCount'
    BY <1>3, <2>8, CountFrames
  <2>10. QED
    BY <1>1, <2>3, <2>4, <2>5, <2>6, <2>7, <2>9
<1>4. QED
  BY <1>2, <1>3 DEF RetireMap
-----------------------------------------------------------------------------
LEMMA RuntimeCloserStep ==
  ASSUME IInv, CloseRuntime \/ MarkRuntime \/ RetireRuntime, RuntimeFrame PROVE IInv'
<1> USE DEF IInv, CountInv
<1> USE DEF RuntimeFrame, map_vars
<1>1. /\ Queued' = Queued /\ CallInv' /\ WaitInv' /\ CreateInv' /\ MapCount'
      /\ runtime \in Controls /\ ending # "waiting"
  BY Frames, CountFrames DEF TypeInv, MapOf, CloseRuntime, MarkRuntime, RetireRuntime
<1>2. executor = "running" /\ ~Due("retire", "runtime") /\ \A t \in taken : t.of # "runtime"
  BY <1>1 DEF RuntimeInv, TypeInv
<1>3. CASE CloseRuntime
  <2>1. PICK kind \in {"dispose", "release"} :
          /\ CanClose(runtime, DefersChildren(kind)) /\ ending = "open" /\ ending' = kind
          /\ runtime' = Closed(runtime) /\ registered /\ UNCHANGED <<registered, taken>>
    BY <1>3 DEF CloseRuntime
  <2>2. TypeInv' /\ SubmitCount' /\ ChildCount'
    BY <1>1, <2>1, ControlsAre, CountFrames DEF TypeInv
  <2>3. OnceInv' /\ CloseInv'
    BY <2>1, Frames
  <2>4. RuntimeInv'
    BY <1>1, <1>2, <2>1, ControlsAre DEF RuntimeInv, Due, CanClose, DefersChildren
  <2>5. QED
    BY <1>1, <2>2, <2>3, <2>4
<1>4. CASE MarkRuntime
  <2>1. /\ ending \in {"dispose", "release"} /\ registered' = (ending = "dispose")
        /\ ending' = "marked" /\ UNCHANGED <<runtime, taken>>
    BY <1>4 DEF MarkRuntime
  <2>2. registered' \in BOOLEAN
    BY <2>1
  <2>3. TypeInv' /\ SubmitCount' /\ ChildCount'
    BY <2>1, <2>2, CountFrames DEF TypeInv
  <2>4. OnceInv' /\ CloseInv'
    BY <2>1, Frames
  <2>5. runtime.closing /\ ~runtime.armed /\ (ending = "release" => runtime.children = 0)
    BY <1>1, <2>1 DEF RuntimeInv, TypeInv
  <2>6. registered' <=> ending = "dispose"
    BY <2>1
  <2>7. RuntimeInv'
    BY <1>1, <1>2, <2>1, <2>5, <2>6 DEF RuntimeInv, Due
  <2>8. QED
    BY <1>1, <2>3, <2>4, <2>7
<1>5. CASE RetireRuntime
  <2>1. /\ ending = "marked" /\ ending' = "waiting" /\ runtime' = Notified(runtime)
        /\ taken' = IF IsDrained(runtime)
                    THEN taken \union {[of |-> "runtime", by |-> "host"]} ELSE taken
        /\ UNCHANGED registered /\ ~runtime.armed
    BY <1>1, <1>5 DEF RetireRuntime, RuntimeInv
  <2>2. taken' \subseteq Callbacks /\ \A t \in taken' : t \in taken \/ t.of = "runtime"
    BY <2>1 DEF Callbacks, TypeInv
  <2>3. TypeInv' /\ SubmitCount' /\ ChildCount'
    BY <1>1, <2>1, <2>2, ControlsAre, CountFrames DEF TypeInv
  <2>4. OnceInv'
    BY <1>1, <1>2, <2>1 DEF OnceInv
  <2>5. CloseInv'
    BY <1>1, <2>2, NamesAre DEF CloseInv, Due
  <2>6. \A t \in taken' : t.of = "runtime" => IsDrained(runtime)
    BY <1>2, <2>1
  <2>7. RuntimeInv'
    BY <1>1, <1>2, <2>1, <2>6, ControlsAre DEF RuntimeInv, Due
  <2>8. QED
    BY <1>1, <2>3, <2>4, <2>5, <2>7
<1>6. QED
  BY <1>3, <1>4, <1>5
-----------------------------------------------------------------------------
(* The tasks, and the submission that waits with a map.                    *)
LEMMA TasksAre ==
  /\ \A m \in Maps : Task("begin", m) \in QueueTasks /\ Task("finish", m) \in QueueTasks
  /\ \A c \in Calls : Task("complete", c) \in QueueTasks
  /\ \A x \in Maps \union Calls : Task("clear", x) \in WorkerTasks
  /\ Idle \in WorkerTasks /\ QueueTasks \subseteq WorkerTasks
  /\ \A t \in QueueTasks : t # Idle /\ \A x : t # Task("clear", x)
BY DEF QueueTasks, WorkerTasks, Task, Idle

LEMMA NotQueued ==
  ASSUME IInv
  PROVE  worker \notin Queued /\ Idle \notin Queued /\ \A x : Task("clear", x) \notin Queued
<1>1. \A t \in Queued : t \in QueueTasks
  BY DEF IInv, TypeInv, Queued
<1>2. QED
  BY <1>1, TasksAre DEF IInv, OnceInv

LEMMA StyleWaits ==
  ASSUME IInv, NEW m \in Maps, style[m] # None
  PROVE  /\ style[m] \in Calls /\ style[m] \in accepted
         /\ call[style[m]].map = m /\ call[style[m]].kind = "style"
         /\ ~Due("complete", style[m]) /\ ~Due("run", style[m])
         /\ call[style[m]].step = "returned" \/ worker = Task("clear", style[m])
         /\ call[style[m]].step # "accepted"
         /\ \A n \in Maps : style[n] = style[m] => n = m
<1>1. style[m] \in Calls
  BY DEF IInv, TypeInv
<1>2. /\ style[m] \in accepted
      /\ call[style[m]].map = m /\ call[style[m]].kind = "style"
      /\ ~Due("complete", style[m])
      /\ call[style[m]].step = "returned" \/ worker = Task("clear", style[m])
      /\ \A n \in Maps : style[n] = style[m] => n = m
  BY <1>1 DEF IInv, WaitInv
<1>3. call[style[m]].step \in {"returned", "queued"} /\ ~Due("run", style[m])
  BY <1>1, <1>2, TasksDiffer DEF IInv, CallInv, Due
<1>4. QED
  BY <1>1, <1>2, <1>3

LEMMA StillWaits ==
  ASSUME IInv, NEW m \in Maps, still[m] # None \/ StillPending(m)
  PROVE  /\ still[m] \in Calls /\ still[m] \in holding
         /\ MapOf(still[m]) = m /\ call[still[m]].map = m /\ call[still[m]].kind = "still"
         /\ call[still[m]].step = "returned" /\ Task("complete", still[m]) \notin Queued
         /\ \A n \in Maps : still[n] = still[m] => n = m
<1>1. still[m] \in Calls
  BY NamesAssumption DEF IInv, TypeInv, StillPending
<1>2. /\ still[m] \in holding
      /\ call[still[m]].map = m /\ call[still[m]].kind = "still"
      /\ call[still[m]].step = "returned"
      /\ \A n \in Maps : still[n] = still[m] => n = m
  BY <1>1 DEF IInv, WaitInv
<1>3. Task("complete", still[m]) \notin Queued
  BY <1>1, <1>2 DEF IInv, CallInv
<1>4. QED
  BY <1>1, <1>2, <1>3, NamesAre

LEMMA StyleLoadsStep ==
  ASSUME IInv, NEW m \in Maps, StyleLoads(m), WorkerFrame PROVE IInv'
<1> USE DEF IInv, CountInv
<1> USE DEF StyleLoads, WorkerFrame, runtime_vars, Sets
<1> DEFINE c == style[m]
<1>1. /\ c \in Calls /\ c \in accepted /\ call[c].kind = "style" /\ call[c].map = m
      /\ call[c].step = "returned" /\ ~Due("complete", c) /\ worker = Idle
      /\ \A n \in Maps : style[n] = c => n = m
      /\ Task("complete", c) \in QueueTasks /\ executor = "running"
  BY StyleWaits, StillRunning, TasksAre DEF Free, Idle, Task
<1> HIDE DEF c
<1>2. /\ queue' \in Seq(QueueTasks) /\ Queued' = Queued \union {Task("complete", c)}
      /\ \A i, j \in DOMAIN queue' : queue'[i] = queue'[j] => i = j
      /\ refused' = refused
  BY <1>1, Enqueued DEF Due, c
<1>3. TypeInv'
  BY <1>2 DEF TypeInv
<1>4. OnceInv'
  BY <1>1, <1>2 DEF OnceInv, Due
<1>5. CallInv'
  BY <1>1, <1>2, TasksDiffer DEF CallInv, Due
<1>6. WaitInv'
  <2>1. ASSUME NEW n \in Maps, NEW d \in Calls, style'[n] = d PROVE style[n] = d /\ d # c
    BY <1>1, <2>1, NamesAre DEF TypeInv, c
  <2>2. \A d \in Calls \ {c} : Due("complete", d)' <=> Due("complete", d)
    BY <1>2, TasksDiffer DEF Due
  <2>3. QED
    BY <2>1, <2>2 DEF WaitInv
<1>7. CreateInv' /\ CloseInv' /\ RuntimeInv'
  BY <1>2, TasksDiffer DEF CreateInv, CloseInv, RuntimeInv, Due
<1>8. CountInv'
  BY CountFrames DEF MapOf
<1>9. QED
  BY <1>3, <1>4, <1>5, <1>6, <1>7, <1>8

LEMMA StillFinishesStep ==
  ASSUME IInv, NEW m \in Maps, StillFinishes(m), WorkerFrame PROVE IInv'
<1> USE DEF IInv, CountInv, TakesOnly
<1> USE DEF StillFinishes, WorkerFrame, runtime_vars, Sets
<1> DEFINE c == still[m]
<1>1. /\ c \in Calls /\ c \in accepted /\ c \in holding /\ MapOf(c) = m
      /\ call[c].kind = "still" /\ call[c].step = "returned"
      /\ Task("complete", c) \notin Queued /\ worker = Idle
      /\ \A n \in Maps : still[n] = c => n = m
      /\ Task("complete", c) \in WorkerTasks /\ Queued' = Queued
  BY StillWaits, TasksAre, Frames DEF StillPending, Free
<1>2. ReleasesMap(c, "worker") /\ \A y \in holding : MapOf(y)' = MapOf(y)
  BY DEF MapOf
<1>3. worker' = Task("complete", c) /\ still' = [still EXCEPT ![m] = None]
  OBVIOUS
<1> HIDE DEF c
<1>4. /\ holding' = holding \ {c} /\ MapCount'
      /\ control' \in [Maps -> Controls]
      /\ TakesOnly(Maps)
      /\ /\ UNCHANGED <<closer, native>>
         /\ \A n \in Maps : /\ Due("begin", n)' => Due("begin", n)
                            /\ Due("finish", n)' => Due("finish", n)
        => CloseInv'
  BY <1>1, <1>2, LeaseDropped
<1>5. CloseInv'
  BY <1>1, <1>3, <1>4, TasksDiffer DEF Due
<1>6. TypeInv'
  BY <1>1, <1>3, <1>4 DEF TypeInv
<1>7. OnceInv' /\ RuntimeInv'
  BY <1>1, <1>3, <1>4, NamesAssumption, TasksDiffer DEF OnceInv, RuntimeInv, Due
<1>8. CallInv'
  BY <1>1, <1>3, <1>4, TasksDiffer DEF CallInv, Due, Idle
<1>9. WaitInv'
  <2>1. ASSUME NEW n \in Maps, NEW d \in Calls, still'[n] = d PROVE still[n] = d /\ d # c
    BY <1>1, <1>3, <2>1, NamesAre DEF TypeInv
  <2>2. ASSUME NEW n \in Maps, NEW d \in Calls, style[n] = d
        PROVE  d # c /\ ~Due("complete", d)'
    BY <1>1, <1>3, <2>2, TasksDiffer DEF WaitInv, Due
  <2>3. \A d : worker # Task("clear", d)
    BY <1>1, TasksDiffer DEF Idle
  <2>4. QED
    BY <1>4, <2>1, <2>2, <2>3 DEF WaitInv
<1>10. CreateInv'
  BY <1>1, <1>3, <1>4, NamesAre, TasksDiffer DEF CreateInv, Due, Idle
<1>11. SubmitCount' /\ ChildCount'
  BY CountFrames
<1>12. QED
  BY <1>4, <1>5, <1>6, <1>7, <1>8, <1>9, <1>10, <1>11
-----------------------------------------------------------------------------
LEMMA TakeTaskStep ==
  ASSUME IInv, TakeTask, WorkerFrame PROVE IInv'
<1> USE DEF IInv, CountInv
<1> USE DEF TakeTask, WorkerFrame, runtime_vars
<1>1. /\ queue' \in Seq(QueueTasks) /\ worker' \in Queued /\ worker' \in QueueTasks
      /\ Queued' = Queued \ {worker'}
      /\ \A i, j \in DOMAIN queue' : queue'[i] = queue'[j] => i = j
  BY HeadTaken DEF TypeInv
<1>2. \A kind, of : Due(kind, of)' => Due(kind, of)
  BY <1>1 DEF Due
<1>3. \A x : worker' # Task("clear", x) /\ worker # Task("clear", x)
  BY <1>1, TasksAre DEF Free, Idle, Task
<1>4. TypeInv' /\ OnceInv'
  BY <1>1, TasksAre DEF TypeInv, OnceInv
<1>5. CallInv' /\ WaitInv' /\ CreateInv'
  BY <1>1, <1>3 DEF CallInv, WaitInv, CreateInv, Due
<1>6. CloseInv' /\ RuntimeInv'
  BY <1>1 DEF CloseInv, RuntimeInv, Due
<1>7. CountInv'
  BY CountFrames DEF MapOf
<1>8. QED
  BY <1>4, <1>5, <1>6, <1>7

LEMMA ConstructStep ==
  ASSUME IInv, NEW m \in Maps, Construct(m), WorkerFrame PROVE IInv'
<1> USE DEF IInv, CountInv, None, TakesOnly
<1> USE DEF Construct, WorkerFrame, runtime_vars, Sets, Runs
<1>1. /\ creator[m] = "submitted" /\ m \in accepted /\ m \in holding /\ native[m] = None
      /\ worker = Task("construct", m) /\ worker' = Task("clear", m)
      /\ worker \notin Queued /\ worker' \notin Queued /\ worker' \in WorkerTasks
      /\ Queued' = Queued
  BY TasksAre, Frames, NotQueued DEF CreateInv, Due
<1>2. PICK result \in {"built", "failed"} : native' = [native EXCEPT ![m] = result]
  OBVIOUS
<1>3. /\ accepted' = accepted \ {m} /\ SubmitCount'
      /\ runtime' \in Controls /\ runtime'.children = runtime.children
      /\ TakesOnly({"runtime"})
      /\ ~Due("retire", "runtime")
      /\ UNCHANGED <<registered, ending, executor, refused>> /\ ~Due("retire", "runtime")'
           => RuntimeInv'
  BY <1>1, Delivered
<1>4. TypeInv'
  BY <1>1, <1>2, <1>3 DEF TypeInv
<1>5. OnceInv'
  BY <1>1, <1>3 DEF OnceInv
<1>6. CallInv' /\ WaitInv'
  BY <1>1, <1>3, NamesAre, TasksDiffer DEF CallInv, WaitInv, Due
<1>7. CreateInv'
  BY <1>1, <1>2, <1>3, TasksDiffer DEF CreateInv, Due, TypeInv
<1>8. CloseInv'
  BY <1>1, <1>2, <1>3, NamesAre, TasksDiffer DEF CloseInv, Due, TypeInv
<1>9. RuntimeInv'
  BY <1>1, <1>3, TasksDiffer DEF Due
<1>10. ChildCount' /\ MapCount'
  BY <1>3, CountFrames DEF MapOf
<1>11. QED
  BY <1>3, <1>4, <1>5, <1>6, <1>7, <1>8, <1>9, <1>10

(* run_runtime_command_task(), for what neither parks nor starts.          *)
LEMMA CommandStep ==
  ASSUME IInv, NEW c \in Calls, RunCommand(c) \/ RefuseStill(c), WorkerFrame PROVE IInv'
<1> USE DEF IInv, CountInv, TakesOnly
<1> USE DEF RunCommand, RefuseStill, WorkerFrame, runtime_vars, Runs
<1>1. /\ call[c].step = "queued" /\ c \in accepted
      /\ worker = Task("run", c) /\ worker' = Task("clear", c)
      /\ worker \notin Queued /\ worker' \notin Queued /\ worker' \in WorkerTasks
      /\ Queued' = Queued
      /\ UNCHANGED <<control, live, closer, native, style, still, call, holding, queue, refused>>
  BY TasksAre, Frames, NotQueued DEF Due, CallInv
<1>2. \A m \in Maps : style[m] # c
  BY <1>1 DEF WaitInv, Task
<1>3. CASE Resolves(c, "worker") /\ call[c].kind # "discarded"
  <2>1. /\ accepted' = accepted \ {c} /\ SubmitCount'
        /\ runtime' \in Controls /\ runtime'.children = runtime.children
        /\ TakesOnly({"runtime"})
        /\ ~Due("retire", "runtime")
        /\ UNCHANGED <<registered, ending, executor, refused>> /\ ~Due("retire", "runtime")'
             => RuntimeInv'
    BY <1>1, <1>3, Delivered
  <2>2. TypeInv'
    BY <1>1, <2>1 DEF TypeInv
  <2>3. OnceInv'
    BY <1>1, <2>1 DEF OnceInv
  <2>4. CallInv' /\ WaitInv'
    BY <1>1, <1>2, <1>3, <2>1, TasksDiffer DEF CallInv, WaitInv, Due
  <2>5. CreateInv' /\ CloseInv'
    BY <1>1, <2>1, NamesAre, TasksDiffer DEF CreateInv, CloseInv, Due
  <2>6. RuntimeInv'
    BY <1>1, <2>1, TasksDiffer DEF Due
  <2>7. ChildCount' /\ MapCount'
    BY <1>1, <2>1, CountFrames DEF MapOf
  <2>8. QED
    BY <2>1, <2>2, <2>3, <2>4, <2>5, <2>6, <2>7
<1>4. CASE call[c].kind = "discarded" /\ UNCHANGED <<runtime, accepted, taken>>
  <2>1. TypeInv' /\ OnceInv'
    BY <1>1, <1>4 DEF TypeInv, OnceInv
  <2>2. CallInv' /\ WaitInv'
    BY <1>1, <1>2, <1>4, TasksDiffer DEF CallInv, WaitInv, Due
  <2>3. CreateInv' /\ CloseInv' /\ RuntimeInv'
    BY <1>1, <1>4, NamesAre, TasksDiffer DEF CreateInv, CloseInv, RuntimeInv, Due
  <2>4. CountInv'
    BY <1>1, <1>4, CountFrames DEF MapOf
  <2>5. QED
    BY <2>1, <2>2, <2>3, <2>4
<1>5. QED
  BY <1>3, <1>4

LEMMA CompleteStep ==
  ASSUME IInv, NEW c \in Calls, Complete(c), WorkerFrame PROVE IInv'
<1> USE DEF IInv, CountInv, TakesOnly
<1> USE DEF Complete, WorkerFrame, runtime_vars, Runs
<1>1. /\ call[c].step = "returned" /\ c \in accepted
      /\ worker = Task("complete", c) /\ worker' = Idle
      /\ worker \notin Queued /\ worker' \notin Queued /\ worker' \in WorkerTasks
      /\ Queued' = Queued
  BY TasksAre, Frames, NotQueued DEF Due, CallInv
<1>2. \A m \in Maps : style[m] # c
  BY <1>1 DEF WaitInv, Due
<1>3. /\ accepted' = accepted \ {c} /\ SubmitCount'
      /\ runtime' \in Controls /\ runtime'.children = runtime.children
      /\ TakesOnly({"runtime"})
      /\ ~Due("retire", "runtime")
      /\ UNCHANGED <<registered, ending, executor, refused>> /\ ~Due("retire", "runtime")'
           => RuntimeInv'
  BY <1>1, Delivered
<1>4. TypeInv' /\ OnceInv'
  BY <1>1, <1>3 DEF TypeInv, OnceInv
<1>5. CallInv' /\ WaitInv'
  BY <1>1, <1>2, <1>3, TasksDiffer DEF CallInv, WaitInv, Due, Idle
<1>6. CreateInv' /\ CloseInv'
  BY <1>1, <1>3, NamesAre, TasksDiffer DEF CreateInv, CloseInv, Due, Idle
<1>7. RuntimeInv'
  BY <1>1, <1>3, TasksDiffer DEF Due, Idle
<1>8. ChildCount' /\ MapCount'
  BY <1>3, CountFrames DEF MapOf
<1>9. QED
  BY <1>3, <1>4, <1>5, <1>6, <1>7, <1>8

LEMMA ParkStyleStep ==
  ASSUME IInv, NEW c \in Calls, ParkStyle(c), WorkerFrame PROVE IInv'
<1> USE DEF IInv, CountInv
<1> USE DEF ParkStyle, WorkerFrame, runtime_vars, Runs, Sets
<1>1. /\ call[c].step = "queued" /\ c \in accepted /\ call[c].kind = "style"
      /\ call[c].map \in Maps /\ style[call[c].map] = None
      /\ style' = [style EXCEPT ![call[c].map] = c]
      /\ worker = Task("run", c) /\ worker' = Task("clear", c)
      /\ worker \notin Queued /\ worker' \notin Queued /\ worker' \in WorkerTasks
      /\ Queued' = Queued /\ ~Due("complete", c)
  BY TasksAre, Frames, NamesAre, NotQueued DEF Due, CallInv
<1>2. TypeInv' /\ OnceInv'
  <2>1. style' \in [Maps -> Calls \union {None}]
    BY <1>1 DEF TypeInv
  <2>2. TypeInv'
    BY <1>1, <2>1 DEF TypeInv
  <2>3. QED
    BY <1>1, <2>2 DEF OnceInv
<1>3. CallInv'
  BY <1>1, TasksDiffer DEF CallInv, Due
<1>4. WaitInv'
  <2>1. \A d \in Calls : Due("complete", d)' <=> Due("complete", d)
    BY <1>1, TasksDiffer DEF Due
  <2>2. \A d : worker # Task("clear", d)
    BY <1>1, TasksDiffer
  <2>3. ASSUME NEW m \in Maps, NEW d \in Calls, style'[m] = d
        PROVE  (m = call[c].map /\ d = c) \/ style[m] = d
    BY <1>1, <2>3 DEF TypeInv
  <2>4. QED
    BY <1>1, <2>1, <2>2, <2>3 DEF WaitInv
<1>5. CreateInv' /\ CloseInv' /\ RuntimeInv'
  BY <1>1, NamesAre, TasksDiffer DEF CreateInv, CloseInv, RuntimeInv, Due
<1>6. CountInv'
  BY CountFrames DEF MapOf
<1>7. QED
  BY <1>2, <1>3, <1>4, <1>5, <1>6
-----------------------------------------------------------------------------
LEMMA ClearWorkStep ==
  ASSUME IInv, NEW x \in Maps \union Calls, ClearWork(x), WorkerFrame PROVE IInv'
<1> USE DEF IInv, CountInv, TakesOnly, OnlyMoves, CallRecords
<1> USE DEF ClearWork, WorkerFrame, runtime_vars, Runs
<1>1. /\ worker = Task("clear", x) /\ Queued' = Queued /\ Idle \notin Queued
      /\ worker' # worker
  BY Frames, NotQueued, TasksDiffer DEF Idle
<1>2. CASE x \in Maps
  <2>1. /\ x \in holding /\ native[x] # None /\ MapOf(x) = x
        /\ worker' = Idle /\ UNCHANGED call /\ x \notin Calls
    BY <1>1, <1>2, NamesAre DEF CreateInv
  <2>2. /\ holding' = holding \ {x} /\ MapCount'
        /\ control' \in [Maps -> Controls]
        /\ TakesOnly(Maps)
        /\ /\ UNCHANGED <<closer, native>>
           /\ \A n \in Maps : /\ Due("begin", n)' => Due("begin", n)
                              /\ Due("finish", n)' => Due("finish", n)
          => CloseInv'
    BY <1>2, <2>1, LeaseDropped DEF MapOf
  <2>3. CloseInv'
    BY <1>1, <2>1, <2>2, TasksDiffer DEF Due, Idle
  <2>4. TypeInv'
    BY <2>1, <2>2, TasksAre DEF TypeInv
  <2>5. OnceInv' /\ RuntimeInv'
    BY <1>1, <2>1, <2>2, NamesAssumption, TasksDiffer DEF OnceInv, RuntimeInv, Due, Idle
  <2>6. CallInv' /\ WaitInv'
    BY <1>1, <2>1, <2>2, TasksDiffer DEF CallInv, WaitInv, Due, Idle
  <2>7. CreateInv'
    BY <1>1, <2>1, <2>2, TasksDiffer DEF CreateInv, Due, Idle
  <2>8. SubmitCount' /\ ChildCount'
    BY CountFrames
  <2>9. QED
    BY <2>2, <2>3, <2>4, <2>5, <2>6, <2>7, <2>8
<1>3. CASE x \in Calls
  <2>1. /\ x \in holding /\ MapOf(x) \in Maps /\ call[x].step = "queued"
        /\ Task("run", x) \notin Queued
        /\ call[x].kind = "discarded" => x \in accepted /\ Task("complete", x) \notin Queued
        /\ worker' = IF call[x].kind = "discarded" THEN Task("complete", x) ELSE Idle
        /\ Moves(x, "queued", "returned")
    BY <1>1, <1>3, NamesAre DEF CallInv, Moves
  <2>2. OnlyMoves(x, "queued", "returned")
    BY <1>3, <2>1, Moved DEF CallSteps
  <2>3. /\ holding' = holding \ {x} /\ MapCount'
        /\ control' \in [Maps -> Controls]
        /\ TakesOnly(Maps)
        /\ /\ UNCHANGED <<closer, native>>
           /\ \A n \in Maps : /\ Due("begin", n)' => Due("begin", n)
                              /\ Due("finish", n)' => Due("finish", n)
          => CloseInv'
    BY <2>1, <2>2, LeaseDropped DEF TypeInv
  <2>4. CloseInv'
    BY <1>1, <2>1, <2>3, TasksDiffer DEF Due, Idle
  <2>5. worker' \in WorkerTasks
    BY <1>3, <2>1, TasksAre
  <2>6. TypeInv'
    BY <2>2, <2>3, <2>5 DEF TypeInv
  <2>7. OnceInv' /\ RuntimeInv'
    BY <1>1, <2>1, <2>3, NamesAssumption, TasksDiffer DEF OnceInv, RuntimeInv, Due, Idle
  <2>8. CallInv'
    BY <1>1, <1>3, <2>1, <2>2, <2>3, TasksDiffer DEF CallInv, Due, Idle
  <2>9. WaitInv'
    <3>1. \A d \in Calls : worker' # Task("clear", d)
      BY <2>1, TasksDiffer DEF Idle
    <3>2. ASSUME NEW d \in Calls, Due("complete", d)', ~Due("complete", d)
          PROVE  d = x /\ call[x].kind = "discarded"
      BY <1>1, <2>1, <3>2, TasksDiffer DEF Due, Idle
    <3>3. ASSUME NEW m \in Maps, NEW d \in Calls, still[m] = d PROVE d # x
      BY <2>1, <3>3 DEF WaitInv
    <3>4. \A d \in Calls : worker = Task("clear", d) => d = x
      BY <1>1, TasksDiffer
    <3>5. QED
      BY <2>2, <2>3, <3>1, <3>2, <3>3, <3>4 DEF WaitInv
  <2>10. CreateInv'
    BY <1>1, <1>3, <2>1, <2>3, NamesAre, TasksDiffer DEF CreateInv, Due, Idle
  <2>11. SubmitCount' /\ ChildCount'
    BY CountFrames
  <2>12. QED
    BY <2>3, <2>4, <2>6, <2>7, <2>8, <2>9, <2>10, <2>11
<1>4. QED
  BY <1>2, <1>3

LEMMA CancelStyleStep ==
  ASSUME IInv, NEW m \in Maps, CancelStyle(m), WorkerFrame PROVE IInv'
<1> USE DEF IInv, CountInv, TakesOnly
<1> USE DEF CancelStyle, WorkerFrame, runtime_vars, Sets
<1> DEFINE c == style[m]
<1>1. /\ c \in Calls /\ c \in accepted /\ call[c].kind = "style"
      /\ ~Due("complete", c) /\ ~Due("run", c) /\ call[c].step # "accepted"
      /\ \A n \in Maps : style[n] = c => n = m
      /\ Queued' = Queued
  BY StyleWaits, Frames
<1>2. /\ style' = [style EXCEPT ![m] = None] /\ Resolves(c, "worker")
      /\ UNCHANGED <<control, live, closer, native, still, call, holding, queue, worker, refused>>
  OBVIOUS
<1>3. \A n \in Maps, d \in Calls : style'[n] = d => style[n] = d /\ d # c
  BY <1>1, <1>2, NamesAre DEF TypeInv
<1> HIDE DEF c, CancelStyle
<1>4. /\ accepted' = accepted \ {c} /\ SubmitCount'
      /\ runtime' \in Controls /\ runtime'.children = runtime.children
      /\ TakesOnly({"runtime"})
      /\ ~Due("retire", "runtime")
      /\ UNCHANGED <<registered, ending, executor, refused>> /\ ~Due("retire", "runtime")'
           => RuntimeInv'
  BY <1>1, <1>2, Delivered
<1>5. TypeInv' /\ OnceInv'
  BY <1>1, <1>2, <1>4 DEF TypeInv, OnceInv
<1>6. CallInv' /\ WaitInv'
  BY <1>1, <1>2, <1>3, <1>4 DEF CallInv, WaitInv, Due
<1>7. CreateInv' /\ CloseInv' /\ RuntimeInv'
  BY <1>1, <1>2, <1>4, NamesAre DEF CreateInv, CloseInv, Due
<1>8. ChildCount' /\ MapCount'
  BY <1>2, <1>4, CountFrames DEF MapOf
<1>9. QED
  BY <1>4, <1>5, <1>6, <1>7, <1>8

LEMMA CancelStillStep ==
  ASSUME IInv, NEW m \in Maps, CancelStill(m), WorkerFrame PROVE IInv'
<1> USE DEF IInv, CountInv, TakesOnly
<1> USE DEF CancelStill, WorkerFrame, runtime_vars, Runs
<1> DEFINE c == still[m]
<1>1. /\ c \in Calls /\ c \in accepted /\ call[c].kind = "still" /\ call[c].step = "returned"
      /\ Task("complete", c) \notin Queued /\ worker = Task("begin", m)
      /\ Resolves(c, "worker") /\ Queued' = Queued
  BY StillWaits, Frames DEF StillPending
<1> HIDE DEF c
<1>2. /\ accepted' = accepted \ {c} /\ SubmitCount'
      /\ runtime' \in Controls /\ runtime'.children = runtime.children
      /\ TakesOnly({"runtime"})
      /\ ~Due("retire", "runtime")
      /\ UNCHANGED <<registered, ending, executor, refused>> /\ ~Due("retire", "runtime")'
           => RuntimeInv'
  BY <1>1, Delivered
<1>3. TypeInv' /\ OnceInv'
  BY <1>1, <1>2 DEF TypeInv, OnceInv
<1>4. CallInv'
  BY <1>1, <1>2, TasksDiffer DEF CallInv, Due
<1>5. WaitInv'
  BY <1>1, <1>2 DEF WaitInv, Due
<1>6. CreateInv' /\ CloseInv' /\ RuntimeInv'
  BY <1>1, <1>2, NamesAre DEF CreateInv, CloseInv, Due
<1>7. ChildCount' /\ MapCount'
  BY <1>2, CountFrames DEF MapOf
<1>8. QED
  BY <1>2, <1>3, <1>4, <1>5, <1>6, <1>7

LEMMA DropStillStep ==
  ASSUME IInv, NEW m \in Maps, DropStill(m), WorkerFrame PROVE IInv'
<1> USE DEF IInv, CountInv, TakesOnly
<1> USE DEF DropStill, WorkerFrame, runtime_vars, Runs, Sets
<1> DEFINE c == still[m]
<1>1. /\ c \in Calls /\ c \in holding /\ MapOf(c) = m /\ call[c].step = "returned"
      /\ \A n \in Maps : still[n] = c => n = m
      /\ ReleasesMap(c, "worker") /\ Queued' = Queued
      /\ \A y \in holding : MapOf(y)' = MapOf(y)
  BY StillWaits, Frames DEF ReleasesStill, MapOf
<1>2. \A n \in Maps, d \in Calls : still'[n] = d => still[n] = d /\ d # c
  BY <1>1, NamesAre DEF TypeInv
<1> HIDE DEF c
<1>3. /\ holding' = holding \ {c} /\ MapCount'
      /\ control' \in [Maps -> Controls]
      /\ TakesOnly(Maps)
      /\ /\ UNCHANGED <<closer, native>>
         /\ \A n \in Maps : /\ Due("begin", n)' => Due("begin", n)
                            /\ Due("finish", n)' => Due("finish", n)
        => CloseInv'
  BY <1>1, LeaseDropped
<1>4. TypeInv'
  BY <1>1, <1>3 DEF TypeInv
<1>5. OnceInv' /\ CloseInv' /\ RuntimeInv'
  BY <1>1, <1>3, NamesAssumption DEF OnceInv, RuntimeInv, Due
<1>6. CallInv' /\ WaitInv'
  BY <1>1, <1>2, <1>3 DEF CallInv, WaitInv, Due
<1>7. CreateInv'
  BY <1>1, <1>3, NamesAre DEF CreateInv, Due
<1>8. SubmitCount' /\ ChildCount'
  BY CountFrames
<1>9. QED
  BY <1>3, <1>4, <1>5, <1>6, <1>7, <1>8
-----------------------------------------------------------------------------
LEMMA AwaitDrainStep ==
  ASSUME IInv, NEW m \in Maps, AwaitDrain(m), WorkerFrame PROVE IInv'
<1> USE DEF IInv, CountInv
<1> USE DEF AwaitDrain, WorkerFrame, runtime_vars, Runs, Closes, AwaitsLeases
<1>1. /\ worker = Task("begin", m) /\ worker' = Idle /\ worker \notin Queued
      /\ Idle \notin Queued /\ Idle \in WorkerTasks
      /\ Queued' = Queued /\ closer[m] = "retiring" /\ closer' = [closer EXCEPT ![m] = "waiting"]
      /\ control[m] \in Controls /\ control[m].closing /\ ~control[m].armed
      /\ ~Due("finish", m) /\ \A t \in taken : t.of # m
  BY TasksAre, NotQueued, Frames DEF CloseInv, TypeInv
<1>2. creator[m] = "submitted"
  BY <1>1 DEF CreateInv
<1>3. PICK c \in Controls :
        /\ control' = [control EXCEPT ![m] = c]
        /\ c.submissions = control[m].submissions /\ c.children = control[m].children
        /\ c.closing = control[m].closing /\ (c.armed => ~IsDrained(c))
        /\ IsDrained(c) <=> IsDrained(control[m])
        /\ taken' = IF IsDrained(c) THEN taken \union {[of |-> m, by |-> "worker"]} ELSE taken
  <2>1. CASE IsDrained(control[m])
    <3>1. control' = [control EXCEPT ![m] = control[m]]
      BY <2>1 DEF TypeInv
    <3>2. QED
      BY <1>1, <2>1, <3>1
  <2>2. CASE ~IsDrained(control[m])
    BY <1>1, <2>2, ControlsAre
  <2>3. QED
    BY <2>1, <2>2
<1>4. \A t \in taken' : t \in taken \/ (t = [of |-> m, by |-> "worker"] /\ IsDrained(control'[m]))
  BY <1>3 DEF TypeInv
<1>5. TypeInv'
  BY <1>1, <1>3, <1>4 DEF TypeInv, Closings, Callbacks
<1>6. OnceInv'
  BY <1>1, <1>3 DEF OnceInv
<1>7. CallInv' /\ WaitInv'
  BY <1>1, TasksDiffer DEF CallInv, WaitInv, Due, Idle
<1>8. CreateInv'
  BY <1>1, <1>2, TasksDiffer DEF CreateInv, Due, Idle, TypeInv
<1>9. CloseInv'
  <2>1. /\ ~Due("begin", m)' /\ ~Due("finish", m)'
        /\ \A n \in Maps : /\ Due("begin", n)' => Due("begin", n)
                           /\ Due("finish", n)' => Due("finish", n)
    BY <1>1, TasksDiffer DEF Due, Idle
  <2>2. /\ control'[m].closing /\ (control'[m].armed => ~IsDrained(control'[m]))
        /\ closer'[m] = "waiting" /\ (IsDrained(control'[m]) <=> IsDrained(control[m]))
        /\ \A n \in Maps \ {m} : control'[n] = control[n] /\ closer'[n] = closer[n]
    BY <1>1, <1>3 DEF TypeInv
  <2>3. \A n \in Maps \ {m} : \A t \in taken' : t.of = n => t \in taken
    BY <1>4
  <2>4. \A t \in taken' : t.of = m => IsDrained(control'[m])
    BY <1>1, <1>4
  <2>5. native[m] # "destroyed"
    BY <1>1 DEF CloseInv
  <2>6. QED
    BY <2>1, <2>2, <2>3, <2>4, <2>5 DEF CloseInv
<1>10. RuntimeInv'
  BY <1>1, <1>4, NamesAre, TasksDiffer DEF RuntimeInv, Due, Idle
<1>11. Keepers' = Keepers
  BY <1>1 DEF Keepers, HoldsRuntime, TypeInv
<1>12. SubmitCount' /\ ChildCount' /\ MapCount'
  BY <1>3, <1>11, CountFrames DEF MapOf, TypeInv
<1>13. QED
  BY <1>5, <1>6, <1>7, <1>8, <1>9, <1>10, <1>12

LEMMA FinishMapStep ==
  ASSUME IInv, NEW m \in Maps, FinishMap(m), WorkerFrame PROVE IInv'
<1> USE DEF IInv, CountInv
<1> USE DEF FinishMap, WorkerFrame, runtime_vars, Runs, Closes, Sets
<1>1. CASE live' = live \ {m} /\ UNCHANGED <<closer, native, worker>>
  <2>1. TypeInv'
    BY <1>1 DEF TypeInv
  <2>2. CountInv'
    BY <1>1, CountFrames DEF MapOf
  <2>3. QED
    BY <1>1, <2>1, <2>2, Frames
<1>2. CASE /\ closer[m] = "waiting" /\ closer' = [closer EXCEPT ![m] = "finished"]
           /\ native' = [native EXCEPT ![m] = "destroyed"] /\ worker' = Idle /\ UNCHANGED live
  <2>1. /\ worker = Task("finish", m) /\ worker \notin Queued
        /\ Idle \notin Queued /\ Idle \in WorkerTasks
        /\ Queued' = Queued /\ IsDrained(control[m]) /\ ~control[m].armed /\ control[m].closing
        /\ \A t \in taken : t.of # m
    BY TasksAre, NotQueued, Frames DEF CloseInv, Due
  <2>2. creator[m] = "submitted" /\ m \notin holding /\ ~Due("construct", m)
    BY <1>2, <2>1, MapEmpty, NamesAre DEF CreateInv, Holders
  <2>3. TypeInv' /\ OnceInv'
    BY <1>2, <2>1 DEF TypeInv, OnceInv, Closings
  <2>4. CallInv' /\ WaitInv'
    BY <1>2, <2>1, TasksDiffer DEF CallInv, WaitInv, Due, Idle
  <2>5. CreateInv'
    BY <1>2, <2>1, <2>2, TasksDiffer DEF CreateInv, Due, Idle, TypeInv, None
  <2>6. CloseInv'
    BY <1>2, <2>1, TasksDiffer DEF CloseInv, Due, Idle, TypeInv
  <2>7. RuntimeInv'
    BY <1>2, <2>1, TasksDiffer DEF RuntimeInv, Due, Idle
  <2>8. Keepers' = Keepers
    BY <1>2 DEF Keepers, HoldsRuntime, TypeInv
  <2>9. CountInv'
    BY <1>2, <2>8, CountFrames DEF MapOf
  <2>10. QED
    BY <2>3, <2>4, <2>5, <2>6, <2>7, <2>9
<1>3. QED
  BY <1>1, <1>2

LEMMA StartStillStep ==
  ASSUME IInv, NEW c \in Calls, StartStill(c), WorkerFrame PROVE IInv'
<1> USE DEF IInv, CountInv, TakesOnly, OnlyMoves, CallRecords
<1> USE DEF StartStill, WorkerFrame, runtime_vars, Runs, Sets
<1> DEFINE m == MapOf(c)
           d == still[m]
<1>1. /\ worker = Task("run", c) /\ call[c].step = "queued" /\ call[c].kind = "still"
      /\ c \in accepted /\ c \in holding /\ m = call[c].map /\ m \in Maps
      /\ worker' \in {Idle, Task("complete", c)} /\ worker' \in WorkerTasks
      /\ Task("run", c) \notin Queued /\ Task("complete", c) \notin Queued
      /\ Queued' = Queued /\ Idle \notin Queued
      /\ Moves(c, "queued", "returned") /\ still' = [still EXCEPT ![m] = c]
      /\ UNCHANGED <<runtime, live, closer, native, style, accepted, queue, refused>>
  BY TasksAre, NotQueued, Frames, NamesAre DEF CallInv, Due, Moves
<1>2. OnlyMoves(c, "queued", "returned")
  BY <1>1, Moved DEF CallSteps
<1>3. /\ holding' = holding \ {d} /\ MapCount'
      /\ control' \in [Maps -> Controls]
      /\ TakesOnly(Maps)
      /\ /\ UNCHANGED <<closer, native>>
         /\ \A n \in Maps : /\ Due("begin", n)' => Due("begin", n)
                            /\ Due("finish", n)' => Due("finish", n)
        => CloseInv'
      /\ c # d /\ \A n \in Maps : n # m => still[n] # d \/ still[n] = None
  <2>1. CASE d # None
    <3>1. d \in holding /\ MapOf(d) = m /\ c # d /\ \A n \in Maps : n # m => still[n] # d
      BY <1>1, <2>1, StillWaits
    <3>2. ReleasesMap(d, "worker")
      BY <2>1
    <3>3. QED
      BY <1>1, <1>2, <3>1, <3>2, LeaseDropped DEF TypeInv
  <2>2. CASE d = None
    <3>1. UNCHANGED <<control, holding, taken>> /\ d \notin holding /\ c # d
      BY <2>2, NamesAssumption DEF TypeInv
    <3>2. /\ UNCHANGED <<closer, native>>
          /\ \A n \in Maps : /\ Due("begin", n)' => Due("begin", n)
                             /\ Due("finish", n)' => Due("finish", n)
         => CloseInv'
      BY <3>1 DEF CloseInv
    <3>3. MapCount'
      BY <1>2, <3>1, CountFrames DEF TypeInv
    <3>4. QED
      BY <2>2, <3>1, <3>2, <3>3 DEF TypeInv, OnceInv
  <2>3. QED
    BY <2>1, <2>2
<1>4. d \notin Maps /\ (d \in Calls => call[d].step = "returned")
  BY <1>1, NamesAre, NamesAssumption DEF TypeInv, WaitInv
<1> HIDE DEF m, d, StartStill
<1>5. TypeInv'
  BY <1>1, <1>2, <1>3 DEF TypeInv
<1>6. OnceInv' /\ CloseInv' /\ RuntimeInv'
  BY <1>1, <1>3, NamesAssumption, TasksDiffer DEF OnceInv, RuntimeInv, Due, Idle
<1>7. CallInv'
  <2>1. \A e \in Calls : /\ Due("run", e)' => Due("run", e) /\ e # c
                         /\ Due("complete", e)' => Due("complete", e) \/ e = c
                         /\ worker' # Task("clear", e)
    BY <1>1, TasksDiffer DEF Due, Idle
  <2>2. QED
    BY <1>1, <1>2, <1>3, <1>4, <2>1 DEF CallInv
<1>8. WaitInv'
  <2>1. \A e \in Calls \ {c} : /\ Due("complete", e)' => Due("complete", e)
                               /\ worker # Task("clear", e)
    BY <1>1, TasksDiffer DEF Due, Idle
  <2>2. ASSUME NEW n \in Maps, NEW e \in Calls, still'[n] = e
        PROVE  (n = m /\ e = c) \/ (still[n] = e /\ e # d /\ e # c)
    BY <1>1, <1>3, <2>2, NamesAre DEF TypeInv, WaitInv
  <2>3. \A n \in Maps, e \in Calls : style[n] = e => e # c
    BY <1>1 DEF WaitInv
  <2>4. QED
    BY <1>1, <1>2, <1>3, <2>1, <2>2, <2>3 DEF WaitInv
<1>9. CreateInv'
  BY <1>1, <1>3, <1>4, TasksDiffer DEF CreateInv, Due, Idle
<1>10. SubmitCount' /\ ChildCount'
  BY <1>1, CountFrames
<1>11. QED
  BY <1>3, <1>5, <1>6, <1>7, <1>8, <1>9, <1>10
-----------------------------------------------------------------------------
LEMMA RetireExecutorStep ==
  ASSUME IInv, RetireExecutor,
         UNCHANGED <<runtime, ending, control, map_vars, call, accepted, holding, objects,
                     queue, taken, refused>>
  PROVE  IInv'
<1> USE DEF IInv, CountInv
<1> USE DEF RetireExecutor, map_vars, Runs
<1>1. /\ worker = Task("retire", "runtime") /\ worker' = Idle /\ worker \notin Queued
      /\ Idle \notin Queued /\ Idle \in WorkerTasks /\ Queued' = Queued
      /\ ending = "waiting" /\ IsDrained(runtime) /\ executor' = "stopping"
      /\ registered' = FALSE /\ \A t \in taken : t.of # "runtime"
  BY TasksAre, NotQueued, Frames DEF RuntimeInv, Due
<1>2. TypeInv' /\ OnceInv'
  BY <1>1 DEF TypeInv, OnceInv
<1>3. CallInv' /\ WaitInv' /\ CreateInv' /\ CloseInv'
  BY <1>1, TasksDiffer DEF CallInv, WaitInv, CreateInv, CloseInv, Due, Idle
<1>4. RuntimeInv'
  BY <1>1, TasksDiffer DEF RuntimeInv, Due, Idle, IsDrained
<1>5. CountInv'
  BY CountFrames DEF MapOf
<1>6. QED
  BY <1>2, <1>3, <1>4, <1>5

LEMMA RunCallbackStep ==
  ASSUME IInv, RunCallback, LaneFrame PROVE IInv'
<1> USE DEF IInv, CountInv
<1> USE DEF RunCallback, LaneFrame, runtime_vars
<1>1. PICK t \in taken :
        /\ taken' = taken \ {t}
        /\ Enqueues(IF t.of = "runtime" THEN "retire" ELSE "finish", t.of)
  OBVIOUS
<1> DEFINE kind == IF t.of = "runtime" THEN "retire" ELSE "finish"
<1>2. t.of \in Maps \union {"runtime"}
  BY DEF TypeInv, Callbacks
<1>3. executor = "running" /\ ~Due(kind, t.of) /\ Task(kind, t.of) \in QueueTasks
  <2>1. CASE t.of = "runtime"
    BY <2>1 DEF RuntimeInv, QueueTasks
  <2>2. CASE t.of \in Maps
    <3>1. closer[t.of] = "waiting" /\ ~Due("finish", t.of) /\ t.of # "runtime"
      BY <2>2, NamesAre DEF CloseInv
    <3>2. t.of \in objects
      BY <2>2, <3>1 DEF CreateInv
    <3>3. QED
      BY <2>2, <3>1, <3>2, StillRunning, TasksAre
  <2>3. QED
    BY <1>2, <2>1, <2>2
<1>4. /\ queue' \in Seq(QueueTasks) /\ Queued' = Queued \union {Task(kind, t.of)}
      /\ \A i, j \in DOMAIN queue' : queue'[i] = queue'[j] => i = j
      /\ refused' = refused
  BY <1>1, <1>3, Enqueued DEF Due
<1>5. \A u \in taken' : u \in taken /\ u.of # t.of
  BY <1>1 DEF OnceInv
<1>6. TypeInv'
  BY <1>4, <1>5 DEF TypeInv
<1>7. OnceInv'
  BY <1>3, <1>4, <1>5 DEF OnceInv, Due
<1>8. CallInv' /\ WaitInv' /\ CreateInv'
  BY <1>4, TasksDiffer DEF CallInv, WaitInv, CreateInv, Due
<1>9. CloseInv'
  BY <1>2, <1>4, <1>5, TasksDiffer DEF CloseInv, Due
<1>10. RuntimeInv'
  BY <1>2, <1>4, <1>5, TasksDiffer, NamesAre DEF RuntimeInv, Due
<1>11. CountInv'
  BY CountFrames DEF MapOf
<1>12. QED
  BY <1>6, <1>7, <1>8, <1>9, <1>10, <1>11

LEMMA DestroyMapStep ==
  ASSUME IInv, NEW m \in Maps, DestroyMap(m), LaneFrame PROVE IInv'
<1> USE DEF IInv, CountInv, TakesOnly
<1> USE DEF DestroyMap, LaneFrame, runtime_vars, MayDestroy
<1>1. /\ closer[m] = "finished" /\ closer' = [closer EXCEPT ![m] = "destroyed"]
      /\ creator[m] = "submitted" /\ m \in objects /\ Queued' = Queued
  BY Frames DEF CreateInv
<1>2. ~IsDrained(runtime)
  BY <1>1, HoldersWait
<1>3. /\ runtime' \in Controls
      /\ TakesOnly({"runtime"})
      /\ runtime'.submissions = runtime.submissions - 1
      /\ runtime'.children = runtime.children
      /\ ~Due("retire", "runtime")
      /\ UNCHANGED <<registered, ending, executor, refused>> /\ ~Due("retire", "runtime")'
           => RuntimeInv'
  BY <1>2, RuntimeLeft
<1>4. TypeInv' /\ OnceInv'
  BY <1>1, <1>3 DEF TypeInv, OnceInv, Closings
<1>5. CallInv' /\ WaitInv'
  BY Frames
<1>6. CreateInv'
  BY <1>1 DEF CreateInv, Due, TypeInv
<1>7. CloseInv'
  BY <1>1, <1>3, NamesAre DEF CloseInv, Due, TypeInv
<1>8. RuntimeInv'
  BY <1>1, <1>3 DEF Due
<1>9. Keepers' = Keepers
  BY <1>1 DEF Keepers, HoldsRuntime, TypeInv
<1>10. SubmitCount' /\ ChildCount' /\ MapCount'
  BY <1>1, <1>3, <1>9, SubmitChanged, CountFrames DEF MapOf
<1>11. QED
  BY <1>4, <1>5, <1>6, <1>7, <1>8, <1>10

LEMMA FinishRuntimeStep ==
  ASSUME IInv, FinishRuntime, LaneFrame PROVE IInv'
<1> USE DEF IInv, CountInv
<1> USE DEF FinishRuntime, LaneFrame, runtime_vars
<1>1. TypeInv' /\ OnceInv' /\ CallInv' /\ WaitInv' /\ CreateInv' /\ CloseInv' /\ Queued' = Queued
  BY Frames DEF TypeInv
<1>2. RuntimeInv'
  BY <1>1 DEF RuntimeInv, Due
<1>3. CountInv'
  BY CountFrames DEF MapOf
<1>4. QED
  BY <1>1, <1>2, <1>3
-----------------------------------------------------------------------------
LEMMA InitInvariant == Init => IInv
<1> SUFFICES ASSUME Init PROVE IInv
  OBVIOUS
<1> USE DEF Init, None
<1>1. Queued = {} /\ ~\E kind, of : worker = Task(kind, of) /\ kind # "idle"
  BY TasksDiffer DEF Queued, Idle
<1>2. TypeInv
  BY NewIs, TasksAre DEF TypeInv, Creations, Closings, CallRecords, CallSteps
<1>3. OnceInv /\ CallInv
  BY <1>1 DEF OnceInv, CallInv, Due
<1>4. WaitInv
  BY NamesAre DEF WaitInv
<1>5. CreateInv /\ CloseInv /\ RuntimeInv
  BY <1>1, NewIs DEF CreateInv, CloseInv, RuntimeInv, Due
<1>6. Cardinality({}) = 0 /\ IsFiniteSet({})
  BY FS_EmptySet
<1>7. Keepers = {} /\ \A m \in Maps : Holders(m) = {}
  BY DEF Keepers, HoldsRuntime, Holders
<1>8. CountInv
  <2>1. SubmitCount /\ ChildCount
    BY <1>6, <1>7, NewIs DEF SubmitCount, ChildCount
  <2>2. MapCount
    BY <1>6, <1>7, NewIs DEF MapCount
  <2>3. QED
    BY <2>1, <2>2 DEF CountInv
<1>9. QED
  BY <1>2, <1>3, <1>4, <1>5, <1>8 DEF IInv

LEMMA StutterInvariant == IInv /\ UNCHANGED vars => IInv'
<1> SUFFICES ASSUME IInv, UNCHANGED vars PROVE IInv'
  OBVIOUS
<1> USE DEF IInv, CountInv, vars, runtime_vars, map_vars
<1>1. TypeInv'
  BY DEF TypeInv
<1>2. CountInv'
  BY CountFrames DEF MapOf
<1>3. QED
  BY <1>1, <1>2, Frames

LEMMA InvariantStep == IInv /\ [Next]_vars => IInv'
<1> SUFFICES ASSUME IInv, [Next]_vars PROVE IInv'
  OBVIOUS
<1>1. CASE HostCreates
  BY <1>1, LeaseRuntimeStep DEF HostCreates
<1>2. CASE HostSubmits
  BY <1>2, LeaseMapStep DEF HostSubmits
<1>3. CASE HostCloses
  BY <1>3, CloseMapStep, RuntimeCloserStep DEF HostCloses
<1>4. CASE MapLibre
  BY <1>4, StyleLoadsStep, StillFinishesStep DEF MapLibre
<1>5. CASE CreatorStep
  BY <1>5, RetainRuntimeStep, BuildObjectStep, AcceptCreationStep, EnqueueCreationStep,
     UnwindCreationStep DEF CreatorStep
<1>6. CASE CallStep
  BY <1>6, AcquireMapStep, AcquireRuntimeStep, EnqueueCallStep, UnwindCallStep DEF CallStep
<1>7. CASE CloserStep
  BY <1>7, RetireMapStep, RuntimeCloserStep DEF CloserStep
<1>8. CASE WorkerStep
  BY <1>8, TakeTaskStep, ClearWorkStep, ConstructStep, CancelStyleStep, CancelStillStep,
     DropStillStep, AwaitDrainStep, FinishMapStep, CommandStep, CompleteStep, ParkStyleStep,
     StartStillStep, RetireExecutorStep DEF WorkerStep
<1>9. CASE LaneStep
  BY <1>9, RunCallbackStep, FinishRuntimeStep, DestroyMapStep DEF LaneStep
<1>10. CASE \E m \in Maps : SessionDetaches(m)
  BY <1>10, DetachStep DEF SessionDetaches
<1>11. CASE UNCHANGED vars
  BY <1>11, StutterInvariant
<1>12. QED
  BY <1>1, <1>2, <1>3, <1>4, <1>5, <1>6, <1>7, <1>8, <1>9, <1>10, <1>11 DEF Next, Thread

(* The invariant of every step that hosts, the worker, MapLibre and the    *)
(* lanes may take, in any order.                                           *)
THEOREM Invariance == Safety => []IInv
BY InitInvariant, InvariantStep, PTL DEF Safety

(* The controls of the runtime and of each map count who holds them, so    *)
(* that nobody's release is lost or made twice.                            *)
THEOREM ExactLeases == Safety => []LeasesAreExact
<1>1. IInv => LeasesAreExact
  BY DEF IInv, CountInv, SubmitCount, ChildCount, MapCount, Holders, Keepers, LeasesAreExact
<1>2. QED
  BY <1>1, Invariance, PTL

(* The executor stops when nobody is left to submit to it and all that was *)
(* submitted has run, and no enqueue finds it stopped.                     *)
THEOREM RetirementLast == Safety => []RetirementIsLast
<1>1. IInv => RetirementIsLast
  <2> SUFFICES ASSUME IInv PROVE RetirementIsLast
    OBVIOUS
  <2> USE DEF IInv
  <2>1. ASSUME executor # "running"
        PROVE  /\ accepted = {} /\ objects = {} /\ queue = <<>> /\ taken = {}
               /\ \A m \in Maps : /\ closer[m] \in {"open", "destroyed"}
                                  /\ creator[m] \in {None, "leased", "failed", "submitted"}
    <3>1. accepted = {} /\ objects = {} /\ \A m \in Maps : ~HoldsRuntime(m)
      BY <2>1, RuntimeEmpty DEF RuntimeInv
    <3>2. \A m \in Maps : /\ closer[m] \in {"open", "destroyed"}
                          /\ creator[m] \in {None, "leased", "failed", "submitted"}
      BY <3>1 DEF CreateInv, TypeInv, HoldsRuntime, Creations
    <3>3. taken = {}
      BY <2>1, <3>2 DEF TypeInv, Callbacks, CloseInv, RuntimeInv
    <3>4. Queued = {}
      <4>1. ASSUME NEW t \in Queued PROVE FALSE
        <5>1. t \in QueueTasks
          BY DEF TypeInv, Queued
        <5>2. CASE t \in [kind : {"construct", "begin", "finish"}, of : Maps]
          <6>1. t.of \in Maps /\ t.kind \in {"construct", "begin", "finish"} /\ Due(t.kind, t.of)
            BY <4>1, <5>2 DEF Due, Task
          <6>2. QED
            BY <3>1, <3>2, <6>1 DEF CreateInv, CloseInv
        <5>3. CASE t \in [kind : {"run", "complete"}, of : Calls]
          <6>1. t.of \in Calls /\ t.kind \in {"run", "complete"} /\ Due(t.kind, t.of)
            BY <4>1, <5>3 DEF Due, Task
          <6>2. QED
            BY <3>1, <6>1 DEF CallInv
        <5>4. CASE t = Task("retire", "runtime")
          BY <2>1, <4>1, <5>4 DEF Due, RuntimeInv
        <5>5. QED
          BY <5>1, <5>2, <5>3, <5>4 DEF QueueTasks
      <4>2. QED
        BY <4>1
    <3>5. queue = <<>>
      <4>1. queue \in Seq(QueueTasks) /\ \A i \in 1 .. Len(queue) : queue[i] \in Queued
        BY DEF TypeInv, Queued
      <4>2. Len(queue) = 0
        BY <3>4, <4>1
      <4>3. QED
        BY <4>1, <4>2
    <3>6. QED
      BY <3>1, <3>2, <3>3, <3>5
  <2>2. QED
    BY <2>1 DEF RetirementIsLast, RuntimeInv
<1>2. QED
  BY <1>1, Invariance, PTL

(* The mln::Map of a closed map is destroyed after its construction, after *)
(* every submission that acquired the map, and after its session.          *)
THEOREM MapFinishes == Safety => []MapFinishesAfterItsWork
<1>1. IInv => MapFinishesAfterItsWork
  <2> SUFFICES ASSUME IInv, NEW m \in Maps, native[m] = "destroyed" \/ Runs("finish", m)
               PROVE  /\ native[m] # None /\ session[m] = None /\ still[m] = None
                      /\ \A c \in Calls : call[c].map = m =>
                           call[c].step \in {"leased", "returned"} /\ c \notin holding
    BY DEF MapFinishesAfterItsWork
  <2> USE DEF IInv
  <2>1. IsDrained(control[m]) /\ closer[m] # "open"
    BY DEF CloseInv, Runs, Due
  <2>2. Holders(m) = {} /\ session[m] = None
    BY <2>1, MapEmpty
  <2>3. creator[m] = "submitted" /\ m \notin holding
    BY <2>1, <2>2, NamesAre DEF CreateInv, Holders
  <2>4. native[m] # None
    BY <2>3 DEF CreateInv
  <2>5. still[m] = None
    BY <2>2, StillWaits DEF Holders
  <2>6. ASSUME NEW c \in Calls, call[c].map = m
        PROVE  call[c].step \in {"leased", "returned"} /\ c \notin holding
    <3>1. c \notin holding
      BY <2>2, <2>6, NamesAre DEF Holders
    <3>2. call[c].step # "idle" /\ call[c].step \in CallSteps
      BY <2>6, NamesAre DEF CallInv, TypeInv, CallRecords
    <3>3. QED
      BY <3>1, <3>2 DEF CallInv, CallSteps
  <2>7. QED
    BY <2>2, <2>4, <2>5, <2>6
<1>2. QED
  BY <1>1, Invariance, PTL
=============================================================================
