--------------------------- MODULE RuntimeExecutor ---------------------------
(***************************************************************************)
(* The executor of a runtime (src/src/execution/runtime_executor.{hpp,cpp}):*)
(* one worker thread that turns a run loop, the tasks that any thread      *)
(* submits to it, the notices that the worker posts to itself, and the two *)
(* ways to end: stop(), and retire() on the worker followed by stop() on   *)
(* the shared finalizer lane.  Each section under the mutex is one action. *)
(*                                                                         *)
(* The run loop is MapLibre's: a first-in first-out queue of messages,     *)
(* some of them the executor's and some (mail) addressed to actors.  The   *)
(* message that is handled stays at the head until it has been.            *)
(***************************************************************************)
EXTENDS Naturals, Sequences, SequencesExt

CONSTANTS
  MaxTasks,     (* Bound: the tasks that are submitted.                     *)
  MaxNotices,   (* Bound: the notices that wait at a time.                  *)
  MaxMail       (* Bound: the messages in the loop when mail arrives.       *)

ASSUME BoundAssumption == {MaxTasks, MaxNotices, MaxMail} \subseteq Nat

VARIABLES
  starter,          (* Where the thread in start() is.                      *)
  worker,           (* Where the worker thread is.                          *)
  stopper,          (* Where the thread in stop() is.                       *)
  stopping,
  retired,          (* The runtime's control has drained.                   *)
  loop,             (* The run loop's messages.                             *)
  work_queue, burst, notices,
  work_scheduled, draining,
  current,          (* The task that the worker popped.                     *)
  accepted, ran     (* History: the tasks accepted; those started, in order. *)

task_vars   == <<work_queue, burst, work_scheduled, draining>>
thread_vars == <<starter, worker, stopper>>
vars == <<thread_vars, stopping, retired, loop, task_vars, notices, current,
          accepted, ran>>

NoTask == [kind |-> "none", id |-> 0]
Message(kind) == [kind |-> kind, after |-> accepted]

Init ==
  /\ starter = "idle" /\ worker = "none" /\ stopper = "idle"
  /\ stopping = FALSE /\ retired = FALSE
  /\ loop = <<>> /\ work_queue = <<>> /\ burst = <<>> /\ notices = <<>>
  /\ work_scheduled = FALSE /\ draining = FALSE
  /\ current = NoTask
  /\ accepted = 0 /\ ran = <<>>

(* run_loop_ is set while the worker has a loop to turn.                   *)
HasLoop == worker \notin {"none", "starting", "failed", "ended"}
Running == HasLoop /\ ~stopping
-----------------------------------------------------------------------------
(* start().  The thread may fail to start; so may its loop, and so may the *)
(* initializer that create_runtime() gave it.                              *)
Start ==
  /\ starter = "idle"
  /\ \/ starter' = "waiting" /\ worker' = "starting"
     \/ starter' = "failed" /\ UNCHANGED worker
  /\ UNCHANGED <<stopper, stopping, retired, loop, task_vars, notices, current,
                 accepted, ran>>

WorkerStarts ==
  /\ \/ worker = "starting" /\ worker' \in {"initializing", "failed"}
     \/ worker = "initializing" /\ worker' \in {"loop", "failed"}
  /\ UNCHANGED <<starter, stopper, stopping, retired, loop, task_vars, notices,
                 current, accepted, ran>>

(* start() waits for the report, and joins a worker that failed.           *)
StartReturns ==
  /\ starter = "waiting"
  /\ worker \notin {"starting", "initializing"}
  /\ starter' = IF worker = "failed" THEN "failed" ELSE "started"
  /\ UNCHANGED <<worker, stopper, stopping, retired, loop, task_vars, notices,
                 current, accepted, ran>>
-----------------------------------------------------------------------------
(* A mutant: a submission during a burst counts on the burst to see it.    *)
NeedsDrainWhenIdle(notice) == ~work_scheduled /\ ~draining

(* enqueue(): only a notice can rely on the drain that runs.               *)
NeedsDrain(notice) == ~work_scheduled /\ (notice => ~draining)

Schedule(notice) ==
  IF NeedsDrain(notice)
  THEN loop' = Append(loop, Message("drain")) /\ work_scheduled' = TRUE
  ELSE UNCHANGED <<loop, work_scheduled>>

Enqueue(kind) ==
  /\ starter = "started"
  /\ Running
  /\ accepted' = accepted + 1
  /\ work_queue' = Append(work_queue, [kind |-> kind, id |-> accepted'])
  /\ Schedule(FALSE)
  /\ UNCHANGED <<thread_vars, stopping, burst, draining, notices, current, ran>>

(* Any thread submits, the worker's own tasks included.                    *)
Submit ==
  /\ ~retired
  /\ accepted < MaxTasks
  /\ \E kind \in {"command", "operation"} : Enqueue(kind)
  /\ UNCHANGED retired

(* The control has drained: every task that held a lease has run, or runs  *)
(* now and has just dropped it.  The retirement is the last task.          *)
SubmitRetirement ==
  /\ ~retired /\ stopper = "idle"
  /\ Len(ran) = accepted
  /\ Enqueue("retirement")
  /\ retired' = TRUE

SendMail ==
  /\ HasLoop
  /\ Len(loop) < MaxMail
  /\ loop' = Append(loop, Message("mail"))
  /\ UNCHANGED <<thread_vars, stopping, retired, task_vars, notices, current,
                 accepted, ran>>

(* A map's frontend announces an update.  Only code on the worker does; if *)
(* the executor refuses, it announces at once.                             *)
PostNotice ==
  /\ worker \in {"task", "mail"}
  /\ Running
  /\ Len(notices) < MaxNotices
  /\ notices' = Append(notices, Len(ran))
  /\ Schedule(TRUE)
  /\ UNCHANGED <<thread_vars, stopping, retired, work_queue, burst, draining,
                 current, accepted, ran>>
-----------------------------------------------------------------------------
(* drain_work() takes the tasks that wait ...                              *)
Receives(kind) == worker = "loop" /\ loop # <<>> /\ Head(loop).kind = kind

(* A mutant: the drain that begins still counts as scheduled.              *)
MarksBegunLate == draining' = TRUE /\ UNCHANGED work_scheduled

MarksBegun == draining' = TRUE /\ work_scheduled' = FALSE

DrainBegin ==
  /\ Receives("drain") \/ Receives("stop drain")
  /\ burst' = work_queue /\ work_queue' = <<>>
  /\ MarksBegun
  /\ worker' = "next"
  /\ UNCHANGED <<loop, notices, current, ran>>

(* A mutant: no task waits for the notices.                                *)
FlushesBeforeNone(task) == FALSE

FlushesBefore(task) == task.kind # "command"

(* A mutant: the tasks of a burst run from its back.                       *)
PopsLast(task) == task = Last(burst) /\ burst' = Front(burst)

Pops(task) == task = Head(burst) /\ burst' = Tail(burst)

(* ... pops them one at a time ...                                         *)
NextTask ==
  /\ worker = "next"
  /\ IF burst = <<>>
     THEN worker' = "last flush" /\ UNCHANGED <<burst, current>>
     ELSE \E task \in ToSet(burst) :
            /\ Pops(task)
            /\ current' = task
            /\ worker' = IF FlushesBefore(task) THEN "flush" ELSE "run"
  /\ UNCHANGED <<loop, work_queue, work_scheduled, draining, notices, ran>>

(* ... delivers the notices before each that is not a command and after    *)
(* the last one (flush_notices()) ...                                      *)
Flush ==
  /\ worker \in {"flush", "last flush"}
  /\ IF notices # <<>>
     THEN notices' = Tail(notices) /\ UNCHANGED worker
     ELSE /\ worker' = IF worker = "flush" THEN "run" ELSE "unmark"
          /\ UNCHANGED notices
  /\ UNCHANGED <<loop, task_vars, current, ran>>

(* ... and runs them.                                                      *)
RunTask ==
  /\ worker = "run"
  /\ worker' = "task"
  /\ ran' = Append(ran, current.id)
  /\ UNCHANGED <<loop, task_vars, notices, current>>

TaskReturns ==
  /\ worker = "task"
  /\ current.kind = "retirement" => stopping
  /\ worker' = "next"
  /\ current' = NoTask
  /\ UNCHANGED <<loop, task_vars, notices, ran>>

MarksEnded == draining' = FALSE

(* The message of stop() also stops the loop.                              *)
DrainEnd ==
  /\ worker = "unmark"
  /\ MarksEnded
  /\ loop' = Tail(loop) \o [i \in 1 .. (IF Head(loop).kind = "stop drain" THEN 1 ELSE 0)
                              |-> Message("stop")]
  /\ worker' = "loop"
  /\ UNCHANGED <<work_queue, burst, work_scheduled, notices, current, ran>>

ReceiveMail ==
  /\ Receives("mail")
  /\ worker' = "mail"
  /\ UNCHANGED <<loop, task_vars, notices, current, ran>>

MailReturns ==
  /\ worker = "mail"
  /\ worker' = "loop"
  /\ loop' = Tail(loop)
  /\ UNCHANGED <<task_vars, notices, current, ran>>

LoopEnds ==
  /\ Receives("stop")
  /\ worker' = "ended"
  /\ UNCHANGED <<loop, task_vars, notices, current, ran>>
-----------------------------------------------------------------------------
(* A mutant: retire() leaves the loop turning.                             *)
StopsLoopNever == UNCHANGED loop

StopsLoop == loop' = Append(loop, Message("stop"))

(* retire(), by the retirement task: the worker stops its own loop, and    *)
(* the finalizer lane calls stop().                                        *)
Retire ==
  /\ worker = "task" /\ current.kind = "retirement"
  /\ ~stopping
  /\ stopping' = TRUE
  /\ StopsLoop
  /\ stopper' = "called"
  /\ UNCHANGED <<starter, worker, retired, task_vars, notices, current, accepted, ran>>

(* stop() is also called when a runtime's creation failed, by its guard.   *)
StopCreation ==
  /\ stopper = "idle" /\ ~retired
  /\ starter \in {"started", "failed"}
  /\ stopper' = "called"
  /\ UNCHANGED <<starter, worker, stopping, retired, loop, task_vars, notices,
                 current, accepted, ran>>

(* A mutant: stop() stops the loop ahead of a drain that is scheduled.     *)
StopsBeforeDrain == loop' = <<Message("stop")>> \o loop

StopsAfterDrain == loop' = Append(loop, Message("stop drain"))

StopLocked ==
  /\ stopper = "called"
  /\ stopper' = "joining"
  /\ IF Running
     THEN stopping' = TRUE /\ StopsAfterDrain
     ELSE UNCHANGED <<stopping, loop>>
  /\ UNCHANGED <<starter, worker, retired, task_vars, notices, current, accepted, ran>>

Joined ==
  /\ stopper = "joining"
  /\ worker \in {"none", "failed", "ended"}
  /\ stopper' = "done"
  /\ UNCHANGED <<starter, worker, stopping, retired, loop, task_vars, notices,
                 current, accepted, ran>>
-----------------------------------------------------------------------------
LoopStep ==
  /\ \/ DrainBegin \/ NextTask \/ Flush \/ RunTask \/ TaskReturns \/ DrainEnd
     \/ ReceiveMail \/ MailReturns \/ LoopEnds
  /\ UNCHANGED <<starter, stopper, stopping, retired, accepted>>

WorkerStep  == WorkerStarts \/ LoopStep \/ Retire
StopperStep == StopLocked \/ Joined

Next ==
  \/ Start \/ StartReturns \/ WorkerStep \/ StopperStep
  \/ Submit \/ SubmitRetirement \/ SendMail \/ PostNotice \/ StopCreation

(* Every thread that has begun goes on.  Nobody is obliged to submit.      *)
Fairness == WF_vars(StartReturns) /\ WF_vars(WorkerStep) /\ WF_vars(StopperStep)

Safety == Init /\ [][Next]_vars
Spec   == Safety /\ Fairness
-----------------------------------------------------------------------------
Task == [kind : {"command", "operation", "retirement"}, id : 1 .. accepted]
Draining == {"next", "flush", "run", "task", "last flush", "unmark"}

TypeOK ==
  /\ starter \in {"idle", "waiting", "started", "failed"}
  /\ worker \in Draining \union
       {"none", "starting", "initializing", "loop", "mail", "failed", "ended"}
  /\ stopper \in {"idle", "called", "joining", "done"}
  /\ {stopping, work_scheduled, draining, retired} \subseteq BOOLEAN
  /\ loop \in Seq([kind : {"drain", "stop drain", "stop", "mail"}, after : 0 .. accepted])
  /\ {work_queue, burst} \subseteq Seq(Task)
  /\ notices \in Seq(0 .. accepted)
  /\ current \in Task \union {NoTask}
  /\ accepted \in 0 .. MaxTasks + 1 /\ ran \in Seq(1 .. accepted)
  /\ draining <=> worker \in Draining

(* enqueue() and drain_work() trade work_scheduled_ and draining_ so that  *)
(* nothing waits unseen: a task waits only behind a drain in the loop, and *)
(* a notice behind one in the loop or one that still flushes.              *)
NothingWaitsUnseen ==
  LET unhandled == IF draining THEN Tail(loop) ELSE loop
      Comes(kind) == \E i \in DOMAIN unhandled : unhandled[i].kind = kind
  IN  /\ work_scheduled <=> Comes("drain")
      /\ work_queue # <<>> => Comes("drain") \/ Comes("stop drain")
      /\ notices # <<>> => Comes("drain") \/ (draining /\ worker # "unmark")

(* An operation observes what the commands before it did: when it runs,    *)
(* every notice that a task before it posted has been delivered.           *)
OperationsSeeNotices ==
  worker = "task" /\ current.kind # "command" =>
    \A i \in DOMAIN notices : notices[i] = current.id

(* drain_work(): a submission during a burst schedules the next drain at   *)
(* once, so mail sent after a submission is received after it has run.     *)
MailFollowsSubmissions ==
  worker = "mail" => Len(ran) >= Head(loop).after

(* retire() and stop() end the worker only after all it accepted has run,  *)
(* and stop() returns, so that the executor may be destroyed, only once    *)
(* the worker has ended.                                                   *)
NothingIsLostAtTheEnd ==
  /\ worker = "ended" => /\ Len(ran) = accepted
                         /\ work_queue = <<>> /\ burst = <<>> /\ notices = <<>>
  /\ stopper = "done" => ~HasLoop

(* The tasks of any threads run one at a time in the order of submission.  *)
Waiting ==
  (IF worker \in {"flush", "run"} THEN <<current>> ELSE <<>>) \o burst \o work_queue

Contract == INSTANCE DeliveryContract
            WITH pending   <- [i \in DOMAIN Waiting |-> Waiting[i].id],
                 delivered <- ran,
                 released  <- FALSE

ImplementsContract == Contract!Spec

(* Every accepted task runs, whatever ends the executor, and the thread    *)
(* that stops it gets to join its worker.                                  *)
EveryTaskRuns == \A n \in 1 .. MaxTasks + 1 : accepted >= n ~> Len(ran) >= n
StopReturns   == stopper = "called" ~> stopper = "done"
=============================================================================
