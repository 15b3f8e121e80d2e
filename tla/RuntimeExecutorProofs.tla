------------------------ MODULE RuntimeExecutorProofs ------------------------
(***************************************************************************)
(* Proofs about RuntimeExecutor, for any number of tasks, notices and      *)
(* messages.                                                               *)
(***************************************************************************)
EXTENDS RuntimeExecutor, TLAPS

Tasks    == [kind : {"command", "operation", "retirement"}, id : Nat]
Messages == [kind : {"drain", "stop drain", "stop", "mail"}, after : Nat]

(* The tasks that have left work_queue_: they ran, or the worker popped    *)
(* one and has the others of its burst.                                    *)
Popped == IF worker \in {"flush", "run"} THEN 1 ELSE 0
Taken  == Len(ran) + Popped + Len(burst)

(* First in, first out: the tasks that ran, the popped one, the burst and  *)
(* the queue are one row of numbers.                                       *)
TaskInv ==
  /\ accepted \in Nat /\ ran \in Seq(Nat)
  /\ work_queue \in Seq(Tasks) /\ burst \in Seq(Tasks)
  /\ current \in Tasks \union {NoTask}
  /\ draining \in BOOLEAN /\ (draining <=> worker \in Draining)
  /\ burst # <<>> => worker \in {"next", "flush", "run", "task"}
  /\ accepted = Taken + Len(work_queue)
  /\ \A i \in 1 .. Len(ran) : ran[i] = i
  /\ worker \in {"flush", "run"} => current.id = Len(ran) + 1
  /\ worker = "task" => current.id = Len(ran) /\ Len(ran) # 0
  /\ \A i \in 1 .. Len(burst) : burst[i].id = Len(ran) + Popped + i
  /\ \A i \in 1 .. Len(work_queue) : work_queue[i].id = Taken + i

(* The retirement is the last task.                                        *)
RetirementInv ==
  /\ current.kind = "retirement" => retired /\ current.id = accepted
  /\ \A i \in DOMAIN burst : burst[i].kind = "retirement" =>
       retired /\ burst[i].id = accepted
  /\ \A i \in DOMAIN work_queue : work_queue[i].kind = "retirement" =>
       retired /\ work_queue[i].id = accepted

(* The loop: the message that the worker handles is its head, one drain at *)
(* most is yet to be handled, and none comes after the drain of stop().    *)
LoopInv ==
  /\ loop \in Seq(Messages)
  /\ draining => loop # <<>> /\ loop[1].kind \in {"drain", "stop drain"}
  /\ worker = "mail" => loop # <<>> /\ loop[1].kind = "mail"
  /\ \A i, j \in DOMAIN loop : i < j /\ loop[j].kind = "drain" =>
       /\ loop[i].kind # "stop drain"
       /\ loop[i].kind = "drain" => i = 1 /\ draining

(* What is ahead of the worker.                                            *)
Unhandled   == {i \in DOMAIN loop : draining => i # 1}
Comes(kind) == \E i \in Unhandled : loop[i].kind = kind

SeenInv ==
  /\ work_scheduled \in BOOLEAN /\ notices \in Seq(Nat)
  /\ work_scheduled <=> Comes("drain")
  /\ work_queue # <<>> => Comes("drain") \/ Comes("stop drain")
  /\ notices # <<>> => Comes("drain") \/ (draining /\ worker # "unmark")
  /\ worker = "run" /\ current.kind # "command" => notices = <<>>
  /\ OperationsSeeNotices

(* Mail that was sent when a task was in the queue has a drain before it.  *)
MailInv ==
  \A i \in DOMAIN loop :
    /\ loop[i].after <= accepted
    /\ loop[i].kind = "mail" /\ loop[i].after > Taken =>
         \E j \in Unhandled : j < i /\ loop[j].kind \in {"drain", "stop drain"}

(* The end: nothing is accepted once stop() or retire() has the mutex, and *)
(* the message that ends the loop is behind all that was.                  *)
Stopped == worker = "ended" \/ \E i \in DOMAIN loop : loop[i].kind = "stop"

EndInv ==
  /\ stopping \in BOOLEAN
  /\ \A i \in DOMAIN loop : loop[i].kind = "stop drain" => stopping
  /\ draining /\ loop[1].kind = "stop drain" => work_queue = <<>>
  /\ worker = "unmark" => notices = <<>>
  /\ Stopped => /\ stopping
                /\ Len(ran) = accepted
                /\ notices # <<>> => draining

(* start() and stop().                                                     *)
ThreadInv ==
  /\ starter \in {"idle", "waiting", "started", "failed"}
  /\ starter = "idle" <=> worker = "none" /\ starter # "failed"
  /\ starter = "started" => worker \notin {"starting", "initializing", "failed"}
  /\ starter = "failed" => worker \in {"none", "failed"}
  /\ accepted # 0 => starter = "started"
  /\ stopper # "idle" => starter \in {"started", "failed"}
  /\ stopper = "done" => worker \in {"none", "failed", "ended"}

IInv == TaskInv /\ RetirementInv /\ LoopInv /\ SeenInv /\ MailInv /\ EndInv /\ ThreadInv
-----------------------------------------------------------------------------
(* Numbers, and sequences at the two ends.                                 *)
LEMMA Successor == \A n \in Nat \ {0} : n + 1 # 1
OBVIOUS

LEMMA Before == \A i, j \in Nat : j < i + 1 => j - 1 < i
OBVIOUS

LEMMA AddNothing == \A n \in Nat : n + 0 = n
OBVIOUS

LEMMA Shifted == \A a, b \in Nat : \A i \in Int : a + b + (i - b) = a + i
OBVIOUS

LEMMA TwoParts ==
  \A a, b \in Nat : \A i \in 1 .. a + b : i \in 1 .. a \/ i \in a + 1 .. a + b
OBVIOUS

LEMMA OneElement ==
  ASSUME NEW s \in Seq(Nat), 1 \in 1 .. Len(s)
  PROVE  SubSeq(s, 1, 1) = <<s[1]>>
<1> DEFINE t == SubSeq(s, 1, 1)
<1>1. t \in Seq(Nat) /\ Len(t) = 1 /\ t[1] = s[1]
  OBVIOUS
<1> HIDE DEF t
<1>2. t = <<s[1]>>
  BY <1>1
<1>3. QED
  BY <1>2 DEF t

LEMMA Appends ==
  ASSUME NEW S, NEW s \in Seq(S), NEW x \in S
  PROVE  /\ Append(s, x) \in Seq(S) /\ Append(s, x) # <<>>
         /\ Len(s) \in Nat /\ Len(Append(s, x)) = Len(s) + 1
         /\ DOMAIN s = 1 .. Len(s) /\ DOMAIN Append(s, x) = 1 .. Len(s) + 1
         /\ \A i \in 1 .. Len(s) : Append(s, x)[i] = s[i]
         /\ Append(s, x)[Len(s) + 1] = x
OBVIOUS

LEMMA Tails ==
  ASSUME NEW S, NEW s \in Seq(S), s # <<>>
  PROVE  /\ Head(s) \in S /\ Head(s) = s[1] /\ Tail(s) \in Seq(S)
         /\ Len(s) \in Nat \ {0} /\ Len(Tail(s)) = Len(s) - 1
         /\ DOMAIN s = 1 .. Len(s) /\ DOMAIN Tail(s) = 1 .. Len(s) - 1
         /\ \A i \in 1 .. Len(s) - 1 : Tail(s)[i] = s[i + 1]
OBVIOUS

LEMMA Empties == /\ \A S : <<>> \in Seq(S)
                 /\ Len(<<>>) = 0 /\ DOMAIN <<>> = {}
OBVIOUS

LEMMA TaskStep == TaskInv /\ ThreadInv /\ [Next]_vars => TaskInv'
<1> SUFFICES ASSUME TaskInv, ThreadInv, [Next]_vars PROVE TaskInv'
  OBVIOUS
<1>0. /\ accepted \in Nat /\ ran \in Seq(Nat) /\ Len(ran) \in Nat /\ Len(burst) \in Nat
      /\ Len(work_queue) \in Nat /\ Popped \in {0, 1} /\ Taken \in Nat
      /\ work_queue \in Seq(Tasks) /\ burst \in Seq(Tasks)
  BY DEF TaskInv, Taken, Popped
<1>1. ASSUME NEW kind \in {"command", "operation", "retirement"}, Enqueue(kind)
      PROVE  TaskInv'
  <2> DEFINE task == [kind |-> kind, id |-> accepted + 1]
  <2>1. /\ accepted' = accepted + 1 /\ work_queue' = Append(work_queue, task)
        /\ UNCHANGED <<ran, burst, current, draining, worker>>
    BY <1>1 DEF Enqueue, thread_vars
  <2>2. task \in Tasks /\ task.id = accepted + 1
    BY <1>0 DEF Tasks
  <2> HIDE DEF task
  <2>3. /\ work_queue' \in Seq(Tasks) /\ Len(work_queue') = Len(work_queue) + 1
        /\ \A i \in 1 .. Len(work_queue) : work_queue'[i] = work_queue[i]
        /\ work_queue'[Len(work_queue) + 1] = task
    BY <1>0, <2>1, <2>2, Appends
  <2>4. Popped' = Popped /\ Taken' = Taken
    BY <2>1 DEF Popped, Taken
  <2>5. accepted' = Taken' + Len(work_queue')
    BY <1>0, <2>1, <2>3, <2>4 DEF TaskInv
  <2>6. \A i \in 1 .. Len(work_queue') : work_queue'[i].id = Taken' + i
    <3>1. Taken' + (Len(work_queue) + 1) = task.id
      BY <1>0, <2>1, <2>2, <2>3, <2>5
    <3>2. \A i \in 1 .. Len(work_queue) : work_queue'[i].id = Taken' + i
      BY <2>3, <2>4 DEF TaskInv
    <3>3. \A i \in 1 .. Len(work_queue') : i \in 1 .. Len(work_queue) \/ i = Len(work_queue) + 1
      BY <1>0, <2>3
    <3>4. QED
      BY <2>3, <3>1, <3>2, <3>3
  <2>7. accepted' \in Nat
    BY <1>0, <2>1
  <2>8. Popped' = Popped /\ UNCHANGED <<ran, burst, current, draining, worker>>
    BY <2>1, <2>4
  <2> HIDE DEF Taken, Popped
  <2>9. QED
    BY <2>3, <2>5, <2>6, <2>7, <2>8 DEF TaskInv
<1>2. ASSUME UNCHANGED <<accepted, ran, work_queue, burst, current, draining>>,
             draining <=> worker' \in Draining,
             worker' \in {"flush", "run"} <=> worker \in {"flush", "run"},
             worker' = "task" => worker = "task",
             burst # <<>> => worker' \in {"next", "flush", "run", "task"}
      PROVE  TaskInv'
  <2>1. Popped' = Popped /\ Taken' = Taken
    BY <1>2 DEF Popped, Taken
  <2>2. QED
    BY <1>2, <2>1 DEF TaskInv
<1>3. CASE LoopStep /\ DrainBegin
  <2>1. /\ burst' = work_queue /\ work_queue' = <<>> /\ draining' = TRUE
        /\ worker = "loop" /\ worker' = "next"
        /\ UNCHANGED <<ran, current, accepted>>
    BY <1>3 DEF LoopStep, DrainBegin, Receives, MarksBegun
  <2>2. burst = <<>> /\ Popped = 0 /\ Popped' = 0
    BY <2>1 DEF TaskInv, Popped
  <2>3. Taken = Len(ran) /\ Taken' = Len(ran) + Len(work_queue)
    BY <1>0, <2>1, <2>2, Empties DEF Taken
  <2>4. QED
    BY <1>0, <2>1, <2>2, <2>3, Empties DEF TaskInv, Draining
<1>4. CASE LoopStep /\ NextTask
  <2>1. /\ worker = "next"
        /\ UNCHANGED <<ran, work_queue, draining, accepted>>
        /\ Popped = 0
    BY <1>4 DEF LoopStep, NextTask, Popped
  <2>2. CASE burst = <<>> /\ worker' = "last flush" /\ UNCHANGED <<burst, current>>
    BY <1>2, <2>1, <2>2 DEF TaskInv, Draining
  <2>3. CASE /\ burst # <<>> /\ current' = Head(burst) /\ burst' = Tail(burst)
             /\ worker' \in {"flush", "run"}
    <3>1. /\ Head(burst) \in Tasks /\ Head(burst) = burst[1] /\ burst' \in Seq(Tasks)
          /\ Len(burst) \in Nat \ {0} /\ Len(burst') = Len(burst) - 1
          /\ \A i \in 1 .. Len(burst) - 1 : burst'[i] = burst[i + 1]
      BY <1>0, <2>3, Tails
    <3>2. Popped' = 1 /\ Taken' = Taken
      BY <1>0, <2>1, <2>3, <3>1 DEF Popped, Taken
    <3>3. current'.id = Len(ran) + 1
      BY <1>0, <2>1, <2>3, <3>1 DEF TaskInv
    <3>4. ASSUME NEW i \in 1 .. Len(burst') PROVE burst'[i].id = Len(ran) + 1 + i
      <4>1. i \in Nat /\ i \in 1 .. Len(burst) - 1 /\ i + 1 \in 1 .. Len(burst)
        BY <3>1
      <4>2. burst[i + 1].id = Len(ran) + Popped + (i + 1)
        BY <4>1 DEF TaskInv
      <4>3. QED
        BY <1>0, <2>1, <3>1, <4>1, <4>2
    <3>5. QED
      BY <1>0, <2>1, <2>3, <3>1, <3>2, <3>3, <3>4 DEF TaskInv, Draining
  <2>4. QED
    BY <1>4, <2>2, <2>3 DEF NextTask, Pops
<1>5. CASE LoopStep /\ RunTask
  <2>1. /\ worker = "run" /\ worker' = "task" /\ ran' = Append(ran, current.id)
        /\ UNCHANGED <<work_queue, burst, draining, accepted, current>>
        /\ Popped = 1 /\ Popped' = 0
    BY <1>5 DEF LoopStep, RunTask, Popped, task_vars
  <2>2. current.id = Len(ran) + 1 /\ current.id \in Nat
    BY <1>0, <2>1 DEF TaskInv
  <2>3. /\ ran' \in Seq(Nat) /\ Len(ran') = Len(ran) + 1
        /\ \A i \in 1 .. Len(ran) : ran'[i] = ran[i]
        /\ ran'[Len(ran) + 1] = Len(ran) + 1
    BY <1>0, <2>1, <2>2, Appends
  <2>4. Taken' = Taken
    BY <1>0, <2>1, <2>3 DEF Taken
  <2>5. \A i \in 1 .. Len(ran') : ran'[i] = i
    <3>1. \A i \in 1 .. Len(ran) : ran'[i] = i
      BY <2>3 DEF TaskInv
    <3>2. \A i \in 1 .. Len(ran') : i \in 1 .. Len(ran) \/ i = Len(ran) + 1
      BY <1>0, <2>3
    <3>3. QED
      BY <2>3, <3>1, <3>2
  <2>6. \A i \in 1 .. Len(burst) : Len(ran') + 0 + i = Len(ran) + 1 + i
    BY <1>0, <2>3
  <2>7. QED
    BY <1>0, <2>1, <2>2, <2>3, <2>4, <2>5, <2>6 DEF TaskInv, Draining
<1>6. CASE LoopStep /\ TaskReturns
  <2>1. /\ worker = "task" /\ worker' = "next" /\ current' = NoTask
        /\ UNCHANGED <<ran, work_queue, burst, draining, accepted>>
        /\ Popped = 0 /\ Popped' = 0
    BY <1>6 DEF LoopStep, TaskReturns, Popped, task_vars
  <2>2. Taken' = Taken
    BY <2>1 DEF Taken
  <2>3. QED
    BY <1>0, <2>1, <2>2 DEF TaskInv, Draining
<1>7. CASE LoopStep /\ DrainEnd
  <2>1. /\ worker = "unmark" /\ worker' = "loop" /\ draining' = FALSE
        /\ UNCHANGED <<ran, work_queue, burst, current, accepted>>
        /\ Popped = 0 /\ Popped' = 0
    BY <1>7 DEF LoopStep, DrainEnd, MarksEnded, Popped
  <2>2. Taken' = Taken
    BY <2>1 DEF Taken
  <2>3. QED
    BY <1>0, <2>1, <2>2 DEF TaskInv, Draining
<1>8. CASE LoopStep /\ (Flush \/ ReceiveMail \/ MailReturns \/ LoopEnds)
  <2>1. UNCHANGED <<accepted, ran, work_queue, burst, current, draining>>
    BY <1>8 DEF LoopStep, Flush, ReceiveMail, MailReturns, LoopEnds, task_vars
  <2>2. \/ UNCHANGED worker
        \/ worker = "flush" /\ worker' = "run"
        \/ worker = "last flush" /\ worker' = "unmark"
        \/ worker \in {"loop", "mail"} /\ worker' \in {"mail", "loop", "ended"}
    BY <1>8 DEF Flush, ReceiveMail, MailReturns, LoopEnds, Receives
  <2>3. QED
    BY <1>2, <2>1, <2>2 DEF TaskInv, Draining
<1>9. CASE Start \/ WorkerStarts
  <2>1. UNCHANGED <<accepted, ran, work_queue, burst, current, draining>>
    BY <1>9 DEF Start, WorkerStarts, task_vars
  <2>2. \/ UNCHANGED worker
        \/ /\ worker \in {"none", "starting", "initializing"}
           /\ worker' \in {"starting", "initializing", "failed", "loop"}
    BY <1>9 DEF Start, WorkerStarts, ThreadInv
  <2>3. QED
    BY <1>2, <2>1, <2>2 DEF TaskInv, Draining
<1>10. CASE UNCHANGED <<accepted, ran, work_queue, burst, current, draining, worker>>
  BY <1>2, <1>10 DEF TaskInv
<1>11. CASE Submit \/ SubmitRetirement
  BY <1>1, <1>11 DEF Submit, SubmitRetirement
<1>12. CASE \/ StartReturns \/ Retire \/ StopperStep \/ SendMail \/ PostNotice
            \/ StopCreation \/ UNCHANGED vars
  BY <1>10, <1>12 DEF StartReturns, Retire, StopperStep, StopLocked, Joined, SendMail,
     PostNotice, StopCreation, vars, task_vars, thread_vars
<1>13. QED
  BY <1>3, <1>4, <1>5, <1>6, <1>7, <1>8, <1>9, <1>11, <1>12
  DEF Next, WorkerStep, LoopStep

(* The threads of start() and stop(), and the place of the retirement.     *)
LEMMA ThreadStep == ThreadInv /\ TaskInv /\ [Next]_vars => ThreadInv'
<1> SUFFICES ASSUME ThreadInv, TaskInv, [Next]_vars PROVE ThreadInv'
  OBVIOUS
<1> USE DEF ThreadInv
<1>1. CASE Start
  BY <1>1 DEF Start
<1>2. CASE WorkerStarts
  BY <1>2 DEF WorkerStarts
<1>3. CASE StartReturns
  BY <1>3 DEF StartReturns
<1>4. CASE LoopStep
  <2>1. /\ worker \in {"loop", "mail"} \union Draining
        /\ worker' \in {"loop", "mail", "ended"} \union Draining
    BY <1>4 DEF LoopStep, DrainBegin, NextTask, Flush, RunTask, TaskReturns, DrainEnd,
                ReceiveMail, MailReturns, LoopEnds, Receives, Draining
  <2>2. UNCHANGED <<starter, stopper, accepted>>
    BY <1>4 DEF LoopStep
  <2>3. QED
    BY <2>1, <2>2 DEF Draining
<1>5. CASE Submit \/ SubmitRetirement
  BY <1>5 DEF Submit, SubmitRetirement, Enqueue, thread_vars
<1>6. CASE Retire
  <2>1. /\ Len(ran) \in Nat \ {0} /\ Popped \in Nat /\ Len(burst) \in Nat
        /\ Len(work_queue) \in Nat /\ accepted = Taken + Len(work_queue)
    BY <1>6 DEF Retire, TaskInv, Popped
  <2>2. starter = "started"
    BY <2>1 DEF Taken
  <2>3. QED
    BY <1>6, <2>2 DEF Retire
<1>7. CASE StopCreation
  BY <1>7 DEF StopCreation
<1>8. CASE StopLocked
  BY <1>8 DEF StopLocked
<1>9. CASE Joined
  BY <1>9 DEF Joined
<1>10. CASE SendMail \/ PostNotice \/ UNCHANGED vars
  BY <1>10 DEF SendMail, PostNotice, vars, thread_vars
<1>11. QED
  BY <1>1, <1>2, <1>3, <1>4, <1>5, <1>6, <1>7, <1>8, <1>9, <1>10
  DEF Next, WorkerStep, StopperStep

LEMMA RetirementStep == RetirementInv /\ TaskInv /\ [Next]_vars => RetirementInv'
<1> SUFFICES ASSUME RetirementInv, TaskInv, [Next]_vars PROVE RetirementInv'
  OBVIOUS
<1>0. /\ accepted \in Nat /\ work_queue \in Seq(Tasks) /\ burst \in Seq(Tasks)
      /\ current \in Tasks \union {NoTask}
  BY DEF TaskInv
<1>1. ASSUME NEW kind \in {"command", "operation", "retirement"}, Enqueue(kind),
             ~retired, kind = "retirement" => retired'
      PROVE  RetirementInv'
  <2> DEFINE task == [kind |-> kind, id |-> accepted + 1]
  <2>1. /\ accepted' = accepted + 1 /\ work_queue' = Append(work_queue, task)
        /\ UNCHANGED <<burst, current>>
    BY <1>1 DEF Enqueue, thread_vars
  <2>2. task \in Tasks /\ task.id = accepted + 1 /\ task.kind = kind
    BY <1>0 DEF Tasks
  <2> HIDE DEF task
  <2>3. /\ DOMAIN work_queue' = 1 .. Len(work_queue) + 1 /\ Len(work_queue) \in Nat
        /\ \A i \in 1 .. Len(work_queue) : work_queue'[i] = work_queue[i]
        /\ work_queue'[Len(work_queue) + 1] = task
        /\ DOMAIN work_queue = 1 .. Len(work_queue)
    BY <1>0, <2>1, <2>2, Appends
  <2>4. \A i \in DOMAIN work_queue' : i \in DOMAIN work_queue \/ i = Len(work_queue) + 1
    BY <2>3
  <2>5. QED
    BY <1>1, <2>1, <2>2, <2>3, <2>4 DEF RetirementInv
<1>2. CASE Submit \/ SubmitRetirement
  BY <1>1, <1>2 DEF Submit, SubmitRetirement
<1>3. CASE LoopStep /\ DrainBegin
  BY <1>3, Empties DEF LoopStep, DrainBegin, RetirementInv
<1>4. CASE LoopStep /\ NextTask
  <2>1. UNCHANGED <<work_queue, accepted, retired>>
    BY <1>4 DEF LoopStep, NextTask
  <2>2. CASE UNCHANGED <<burst, current>>
    BY <2>1, <2>2 DEF RetirementInv
  <2>3. CASE burst # <<>> /\ current' = Head(burst) /\ burst' = Tail(burst)
    <3>1. /\ Head(burst) = burst[1] /\ 1 \in DOMAIN burst
          /\ \A i \in DOMAIN burst' : i + 1 \in DOMAIN burst /\ burst'[i] = burst[i + 1]
      BY <1>0, <2>3, Tails
    <3>2. QED
      BY <2>1, <2>3, <3>1 DEF RetirementInv
  <2>4. QED
    BY <1>4, <2>2, <2>3 DEF NextTask, Pops
<1>5. CASE LoopStep /\ TaskReturns
  BY <1>5 DEF LoopStep, TaskReturns, NoTask, RetirementInv, task_vars
<1>6. CASE UNCHANGED <<work_queue, burst, current, retired, accepted>>
  BY <1>6 DEF RetirementInv
<1>7. CASE LoopStep /\ (Flush \/ RunTask \/ DrainEnd \/ ReceiveMail \/ MailReturns \/ LoopEnds)
  BY <1>6, <1>7 DEF LoopStep, Flush, RunTask, DrainEnd, ReceiveMail, MailReturns, LoopEnds,
     task_vars
<1>8. CASE \/ Start \/ StartReturns \/ WorkerStarts \/ Retire \/ StopperStep \/ SendMail
           \/ PostNotice \/ StopCreation \/ UNCHANGED vars
  BY <1>6, <1>8 DEF Start, StartReturns, WorkerStarts, Retire, StopperStep, StopLocked,
     Joined, SendMail, PostNotice, StopCreation, vars, task_vars
<1>9. QED
  BY <1>2, <1>3, <1>4, <1>5, <1>7, <1>8 DEF Next, WorkerStep, LoopStep

(* The loop when a message is posted, and when its head has been handled.  *)
LEMMA LoopGrows ==
  ASSUME LoopInv, NEW m \in Messages, loop' = Append(loop, m), UNCHANGED draining
  PROVE  /\ loop' \in Seq(Messages) /\ loop' # <<>>
         /\ loop # <<>> => loop'[1] = loop[1]
         /\ DOMAIN loop' = DOMAIN loop \union {Len(loop) + 1}
         /\ loop'[Len(loop) + 1] = m /\ Len(loop) \in Nat
         /\ \A i \in DOMAIN loop : i \in Nat /\ i < Len(loop) + 1 /\ loop'[i] = loop[i]
         /\ Unhandled' = Unhandled \union {Len(loop) + 1}
         /\ \A kind : Comes(kind)' <=> Comes(kind) \/ m.kind = kind
<1>1. /\ loop \in Seq(Messages) /\ (draining => loop # <<>>)
  BY DEF LoopInv
<1>2. /\ loop' \in Seq(Messages) /\ loop' # <<>>
      /\ DOMAIN loop' = 1 .. Len(loop) + 1 /\ DOMAIN loop = 1 .. Len(loop)
      /\ loop'[Len(loop) + 1] = m /\ Len(loop) \in Nat
      /\ \A i \in DOMAIN loop : loop'[i] = loop[i]
  BY <1>1, Appends
<1>3. loop # <<>> => 1 \in DOMAIN loop
  BY <1>1
<1>4. Unhandled' = Unhandled \union {Len(loop) + 1}
  BY <1>1, <1>2, <1>3 DEF Unhandled
<1>5. ASSUME NEW kind PROVE Comes(kind)' <=> Comes(kind) \/ m.kind = kind
  <2>1. Unhandled \subseteq DOMAIN loop
    BY DEF Unhandled
  <2>2. QED
    BY <1>2, <1>4, <2>1 DEF Comes
<1>6. QED
  BY <1>2, <1>3, <1>4, <1>5

LEMMA LoopTurns ==
  ASSUME LoopInv, loop # <<>>, ~draining', draining \/ loop[1].kind = "mail",
         NEW m \in Messages, m.kind = "stop",
         loop' = Tail(loop) \/ loop' = Append(Tail(loop), m)
  PROVE  /\ loop' \in Seq(Messages)
         /\ \A i \in DOMAIN loop' :
              \/ i \in Nat \ {0} /\ i + 1 \in DOMAIN loop /\ loop'[i] = loop[i + 1]
              \/ loop'[i] = m /\ loop' = Append(Tail(loop), m)
         /\ \A i \in DOMAIN loop : i # 1 =>
              i \in Nat \ {0} /\ i - 1 \in DOMAIN loop' /\ loop'[i - 1] = loop[i]
         /\ Unhandled' = DOMAIN loop'
         /\ \A kind \in {"drain", "stop drain"} : Comes(kind)' <=> Comes(kind)
         /\ \A i, j \in DOMAIN loop' : i < j /\ loop'[j].kind = "drain" =>
              loop'[i].kind \notin {"drain", "stop drain"}
<1> DEFINE t == Tail(loop)
<1>1. /\ loop \in Seq(Messages)
      /\ \A i, j \in DOMAIN loop : i < j /\ loop[j].kind = "drain" =>
           /\ loop[i].kind # "stop drain"
           /\ loop[i].kind = "drain" => i = 1 /\ draining
  BY DEF LoopInv
<1>2. /\ t \in Seq(Messages) /\ Len(loop) \in Nat \ {0} /\ Len(t) = Len(loop) - 1
      /\ DOMAIN loop = 1 .. Len(loop) /\ DOMAIN t = 1 .. Len(loop) - 1
      /\ \A i \in 1 .. Len(loop) - 1 : t[i] = loop[i + 1]
  BY <1>1, Tails
<1> HIDE DEF t
<1>3. /\ loop' \in Seq(Messages) /\ DOMAIN t \subseteq DOMAIN loop'
      /\ \A i \in DOMAIN t : loop'[i] = t[i]
      /\ \A i \in DOMAIN loop' : i \in DOMAIN t \/ (loop'[i] = m /\ loop' = Append(t, m))
  <2>1. CASE loop' = t
    BY <1>2, <2>1
  <2>2. CASE loop' = Append(t, m)
    <3>1. /\ Append(t, m) \in Seq(Messages)
          /\ DOMAIN Append(t, m) = 1 .. Len(t) + 1
          /\ \A i \in 1 .. Len(t) : Append(t, m)[i] = t[i]
          /\ Append(t, m)[Len(t) + 1] = m
          /\ DOMAIN t = 1 .. Len(t) /\ Len(t) \in Nat
      BY <1>2, Appends
    <3>2. \A i \in 1 .. Len(t) + 1 : i \in 1 .. Len(t) \/ i = Len(t) + 1
      BY <3>1
    <3>3. QED
      BY <2>2, <3>1, <3>2
  <2>3. QED
    BY <2>1, <2>2 DEF t
<1>4. \A i \in DOMAIN t : i \in Nat \ {0} /\ i + 1 \in DOMAIN loop /\ t[i] = loop[i + 1]
  BY <1>2
<1>5. \A i \in DOMAIN loop : i # 1 =>
        i \in Nat \ {0} /\ i - 1 \in DOMAIN t /\ t[i - 1] = loop[i]
  BY <1>2
<1>6. Unhandled' = DOMAIN loop'
  BY DEF Unhandled
<1>7. ASSUME NEW kind \in {"drain", "stop drain"} PROVE Comes(kind)' <=> Comes(kind)
  <2>1. Comes(kind) => \E i \in DOMAIN loop : i # 1 /\ loop[i].kind = kind
    BY DEF Comes, Unhandled
  <2>2. \A i \in DOMAIN loop : i # 1 => i \in Unhandled
    BY DEF Unhandled
  <2>3. Comes(kind) => Comes(kind)'
    <3> SUFFICES ASSUME NEW i \in DOMAIN loop, i # 1, loop[i].kind = kind
                 PROVE  Comes(kind)'
      BY <2>1
    <3>1. i - 1 \in DOMAIN loop' /\ loop'[i - 1] = loop[i]
      BY <1>3, <1>5
    <3>2. QED
      BY <1>6, <3>1 DEF Comes
  <2>4. Comes(kind)' => Comes(kind)
    <3> SUFFICES ASSUME NEW i \in DOMAIN loop', loop'[i].kind = kind PROVE Comes(kind)
      BY <1>6 DEF Comes
    <3>1. i \in DOMAIN t
      BY <1>3
    <3>2. i \in Nat \ {0} /\ i + 1 \in DOMAIN loop /\ loop'[i] = loop[i + 1]
      BY <1>3, <1>4, <3>1
    <3>3. i + 1 \in Unhandled
      BY <2>2, <3>2, Successor
    <3>4. QED
      BY <3>2, <3>3 DEF Comes
  <2>5. QED
    BY <2>3, <2>4
<1>8. ASSUME NEW i \in DOMAIN loop', NEW j \in DOMAIN loop', i < j, loop'[j].kind = "drain"
      PROVE  loop'[i].kind \notin {"drain", "stop drain"}
  <2>1. j \in DOMAIN t
    BY <1>3, <1>8
  <2>2. CASE i \in DOMAIN t
    <3>1. /\ i + 1 \in DOMAIN loop /\ j + 1 \in DOMAIN loop /\ i + 1 < j + 1 /\ i + 1 # 1
          /\ loop[j + 1].kind = "drain" /\ loop'[i] = loop[i + 1]
      BY <1>3, <1>4, <1>8, <2>1, <2>2
    <3>2. QED
      BY <1>1, <3>1
  <2>3. CASE i \notin DOMAIN t
    BY <1>3, <2>3
  <2>4. QED
    BY <2>2, <2>3
<1>9. QED
  BY <1>3, <1>4, <1>5, <1>6, <1>7, <1>8 DEF t

LoopInvs == LoopInv /\ SeenInv /\ MailInv /\ EndInv

LEMMA TakenIs ==
  ASSUME TaskInv
  PROVE  /\ accepted \in Nat /\ Len(ran) \in Nat /\ Len(burst) \in Nat
         /\ Len(work_queue) \in Nat /\ Popped \in {0, 1} /\ Taken \in Nat
         /\ Taken = Len(ran) + Popped + Len(burst)
         /\ accepted = Taken + Len(work_queue)
BY DEF TaskInv, Taken, Popped

LEMMA TakenWillBe ==
  ASSUME TaskInv'
  PROVE  /\ Len(work_queue') \in Nat /\ Taken' \in Nat
         /\ accepted' = Taken' + Len(work_queue')
BY DEF TaskInv, Taken, Popped

(* Steps that neither post a message nor end one.                          *)
LEMMA LoopKept ==
  ASSUME LoopInvs, TaskInv, TaskInv',
         UNCHANGED <<loop, draining, work_scheduled, work_queue, accepted, stopping>>,
         notices' \in Seq(Nat), notices' # <<>> => notices # <<>>,
         worker' = "mail" => loop # <<>> /\ loop[1].kind = "mail",
         worker' = "unmark" => notices' = <<>>,
         worker' = "ended" => Stopped,
         Stopped => UNCHANGED ran,
         worker' = "run" /\ current'.kind # "command" => notices' = <<>>,
         OperationsSeeNotices'
  PROVE  LoopInvs'
<1>1. LoopInv /\ SeenInv /\ MailInv /\ EndInv
  BY DEF LoopInvs
<1>2. Unhandled' = Unhandled /\ \A kind : Comes(kind)' <=> Comes(kind)
  BY DEF Unhandled, Comes
<1>3. Taken' = Taken
  <2>1. Taken \in Nat /\ Len(work_queue) \in Nat /\ accepted = Taken + Len(work_queue)
    BY TakenIs
  <2>2. Taken' \in Nat /\ accepted = Taken' + Len(work_queue)
    BY TakenWillBe
  <2>3. QED
    BY <2>1, <2>2
<1>4. LoopInv'
  BY <1>1 DEF LoopInv
<1>5. SeenInv'
  BY <1>1, <1>2 DEF SeenInv
<1>6. MailInv'
  BY <1>1, <1>2, <1>3 DEF MailInv
<1>7. EndInv'
  BY <1>1 DEF EndInv, Stopped
<1>8. QED
  BY <1>4, <1>5, <1>6, <1>7 DEF LoopInvs

LEMMA MessagesAre ==
  ASSUME LoopInv
  PROVE  /\ \A i \in DOMAIN loop : loop[i].after \in Nat /\ i \in Nat \ {0}
         /\ MailInv => \A i \in DOMAIN loop : loop[i].after <= accepted
         /\ loop # <<>> => 1 \in DOMAIN loop /\ Head(loop) = loop[1]
         /\ draining => 1 \in DOMAIN loop
<1>1. loop \in Seq(Messages) /\ (draining => loop # <<>>)
  BY DEF LoopInv
<1>2. \A i \in DOMAIN loop : loop[i] \in Messages /\ i \in Nat \ {0}
  BY <1>1
<1>3. loop # <<>> => 1 \in DOMAIN loop /\ Head(loop) = loop[1]
  BY <1>1
<1>4. QED
  BY <1>1, <1>2, <1>3 DEF Messages, MailInv

(* enqueue(): a drain is posted unless one comes anyway.                   *)
LEMMA ScheduleStep ==
  ASSUME LoopInvs, TaskInv, NEW notice \in BOOLEAN, Schedule(notice), ~stopping, ~Stopped,
         UNCHANGED <<worker, draining, stopping, ran, burst, current>>,
         notices' \in Seq(Nat), accepted' \in Nat, accepted' >= accepted,
         notices' # <<>> => notices # <<>> \/ notice,
         notice => UNCHANGED work_queue,
         worker # "unmark" \/ UNCHANGED notices,
         worker \notin {"run", "unmark"} \/ UNCHANGED notices,
         OperationsSeeNotices'
  PROVE  LoopInvs'
<1>1. LoopInv /\ SeenInv /\ MailInv /\ EndInv
  BY DEF LoopInvs
<1>2. Taken' = Taken /\ draining \in BOOLEAN
  BY DEF Taken, Popped, TaskInv
<1>a. \A i \in DOMAIN loop : loop[i].after \in Nat /\ loop[i].after <= accepted
  BY <1>1, MessagesAre
<1>b. \A i \in DOMAIN loop : loop[i].after <= accepted'
  BY <1>a DEF TaskInv
<1>c. /\ \A i \in DOMAIN loop : loop[i].kind # "stop drain"
      /\ draining => loop[1].kind # "stop drain"
  <2>1. \A i \in DOMAIN loop : loop[i].kind # "stop drain"
    BY <1>1 DEF EndInv
  <2>2. draining => 1 \in DOMAIN loop
    BY <1>1, MessagesAre
  <2>3. QED
    BY <2>1, <2>2
<1> DEFINE m == Message("drain")
<1>3. m \in Messages /\ m.kind = "drain" /\ m.after = accepted /\ accepted \in Nat
  BY DEF Message, Messages, TaskInv
<1> HIDE DEF m
<1>4. CASE NeedsDrain(notice) /\ loop' = Append(loop, m) /\ work_scheduled' = TRUE
  <2>1. /\ loop' \in Seq(Messages) /\ loop' # <<>>
        /\ loop # <<>> => loop'[1] = loop[1]
        /\ DOMAIN loop' = DOMAIN loop \union {Len(loop) + 1}
        /\ loop'[Len(loop) + 1] = m /\ Len(loop) \in Nat
        /\ \A i \in DOMAIN loop : i \in Nat /\ i < Len(loop) + 1 /\ loop'[i] = loop[i]
        /\ Unhandled' = Unhandled \union {Len(loop) + 1}
        /\ \A kind : Comes(kind)' <=> Comes(kind) \/ m.kind = kind
    BY <1>1, <1>3, <1>4, LoopGrows
  <2>2. Comes("drain")' /\ ~Comes("drain")
    BY <1>1, <1>3, <1>4, <2>1 DEF NeedsDrain, SeenInv
  <2>3. LoopInv'
    <3>1. ASSUME NEW i \in DOMAIN loop', NEW j \in DOMAIN loop', i < j,
                 loop'[j].kind = "drain"
          PROVE  /\ loop'[i].kind # "stop drain"
                 /\ loop'[i].kind = "drain" => i = 1 /\ draining'
      <4>1. i \in DOMAIN loop
        BY <2>1, <3>1
      <4>2. CASE j \in DOMAIN loop
        BY <1>1, <2>1, <3>1, <4>1, <4>2 DEF LoopInv
      <4>3. CASE j = Len(loop) + 1
        <5>1. loop[i].kind # "stop drain"
          BY <1>1, <4>1 DEF EndInv
        <5>2. loop[i].kind = "drain" => i = 1 /\ draining
          BY <2>2, <4>1 DEF Comes, Unhandled
        <5>3. QED
          BY <2>1, <4>1, <5>1, <5>2
      <4>4. QED
        BY <2>1, <3>1, <4>2, <4>3
    <3>2. QED
      BY <1>1, <2>1, <3>1 DEF LoopInv
  <2>4. SeenInv'
    <3>1. work_scheduled' \in BOOLEAN /\ (work_scheduled' <=> Comes("drain")')
      BY <1>4, <2>2
    <3>2. QED
      BY <1>1, <2>2, <3>1 DEF SeenInv
  <2>5. MailInv'
    <3>1. ASSUME NEW i \in DOMAIN loop'
          PROVE  /\ loop'[i].after <= accepted'
                 /\ loop'[i].kind = "mail" /\ loop'[i].after > Taken' =>
                      \E j \in Unhandled' : j < i /\ loop'[j].kind \in {"drain", "stop drain"}
      <4>1. CASE i \in DOMAIN loop
        <5>1. loop'[i] = loop[i] /\ loop[i].after \in Nat
          BY <1>a, <2>1, <4>1
        <5>2. loop[i].after <= accepted'
          BY <1>b, <4>1
        <5>3. ASSUME loop[i].kind = "mail", loop[i].after > Taken
              PROVE  \E j \in Unhandled' : j < i /\ loop'[j].kind \in {"drain", "stop drain"}
          <6>1. PICK j \in Unhandled : j < i /\ loop[j].kind \in {"drain", "stop drain"}
            BY <1>1, <4>1, <5>3 DEF MailInv
          <6>2. j \in DOMAIN loop /\ j \in Unhandled'
            BY <2>1 DEF Unhandled
          <6>3. QED
            BY <2>1, <6>1, <6>2
        <5>4. QED
          BY <1>2, <5>1, <5>2, <5>3
      <4>2. CASE i = Len(loop) + 1
        BY <1>3, <2>1, <4>2
      <4>3. QED
        BY <2>1, <4>1, <4>2
    <3>2. QED
      BY <3>1 DEF MailInv
  <2>6. EndInv'
    <3>1. ~Stopped'
      BY <1>3, <2>1 DEF Stopped
    <3>2. /\ \A i \in DOMAIN loop' : loop'[i].kind # "stop drain"
          /\ draining => loop'[1].kind # "stop drain"
      <4>1. \A i \in DOMAIN loop' : loop'[i].kind # "stop drain"
        BY <1>1, <1>3, <2>1 DEF EndInv
      <4>2. draining => 1 \in DOMAIN loop'
        BY <2>1
      <4>3. QED
        BY <4>1, <4>2
    <3>3. QED
      BY <1>1, <1>2, <3>1, <3>2 DEF EndInv
  <2>7. QED
    BY <2>3, <2>4, <2>5, <2>6 DEF LoopInvs
<1>5. CASE ~NeedsDrain(notice) /\ UNCHANGED <<loop, work_scheduled>>
  <2>1. Unhandled' = Unhandled /\ \A kind : Comes(kind)' <=> Comes(kind)
    BY <1>5 DEF Unhandled, Comes
  <2>2. Comes("drain") \/ (notice /\ draining)
    BY <1>1, <1>5 DEF NeedsDrain, SeenInv
  <2>3. LoopInv'
    BY <1>1, <1>5 DEF LoopInv
  <2>4. SeenInv'
    BY <1>1, <1>5, <2>1, <2>2 DEF SeenInv
  <2>5. MailInv'
    BY <1>1, <1>2, <1>5, <1>b, <2>1 DEF MailInv
  <2>6. EndInv'
    BY <1>1, <1>2, <1>5, <1>c DEF EndInv, Stopped
  <2>7. QED
    BY <2>3, <2>4, <2>5, <2>6 DEF LoopInvs
<1>6. QED
  BY <1>4, <1>5 DEF Schedule, m

(* Mail, and the messages that end the loop.                               *)
LEMMA PostStep ==
  ASSUME LoopInvs, TaskInv, NEW m \in Messages, loop' = Append(loop, m),
         m.after = accepted, m.kind # "drain",
         UNCHANGED <<worker, draining, ran, burst, current, work_queue, work_scheduled,
                     notices, accepted>>,
         stopping' \in BOOLEAN, stopping \/ m.kind # "mail" => stopping',
         m.kind = "stop" => Len(ran) = accepted /\ draining
  PROVE  LoopInvs'
<1>1. LoopInv /\ SeenInv /\ MailInv /\ EndInv
  BY DEF LoopInvs
<1>2. Taken' = Taken
  BY DEF Taken, Popped
<1>3. /\ loop' \in Seq(Messages) /\ loop' # <<>>
      /\ loop # <<>> => loop'[1] = loop[1]
      /\ DOMAIN loop' = DOMAIN loop \union {Len(loop) + 1}
      /\ loop'[Len(loop) + 1] = m /\ Len(loop) \in Nat
      /\ \A i \in DOMAIN loop : i \in Nat /\ i < Len(loop) + 1 /\ loop'[i] = loop[i]
      /\ Unhandled' = Unhandled \union {Len(loop) + 1}
      /\ \A kind : Comes(kind)' <=> Comes(kind) \/ m.kind = kind
  BY <1>1, LoopGrows
<1>4. (draining => loop # <<>>) /\ (worker = "mail" => loop # <<>>)
  BY <1>1 DEF LoopInv
<1>5. LoopInv'
  <2>1. ASSUME NEW i \in DOMAIN loop', NEW j \in DOMAIN loop', i < j, loop'[j].kind = "drain"
        PROVE  /\ loop'[i].kind # "stop drain"
               /\ loop'[i].kind = "drain" => i = 1 /\ draining'
    <3>1. j \in DOMAIN loop
      BY <1>3, <2>1
    <3>2. i \in DOMAIN loop
      <4>1. j < Len(loop) + 1 /\ j \in Nat /\ i # Len(loop) + 1
        BY <1>3, <2>1, <3>1
      <4>2. QED
        BY <1>3, <4>1
    <3>3. QED
      BY <1>1, <1>3, <2>1, <3>1, <3>2 DEF LoopInv
  <2>2. draining => loop'[1] = loop[1] /\ loop[1].kind \in {"drain", "stop drain"}
    BY <1>1, <1>3 DEF LoopInv
  <2>3. worker = "mail" => loop'[1] = loop[1] /\ loop[1].kind = "mail"
    BY <1>1, <1>3 DEF LoopInv
  <2>4. QED
    BY <1>3, <2>1, <2>2, <2>3 DEF LoopInv
<1>6. SeenInv'
  BY <1>1, <1>3 DEF SeenInv, OperationsSeeNotices
<1>7. MailInv'
  <2>1. ASSUME NEW i \in DOMAIN loop'
        PROVE  /\ loop'[i].after <= accepted
               /\ loop'[i].kind = "mail" /\ loop'[i].after > Taken =>
                    \E j \in Unhandled' : j < i /\ loop'[j].kind \in {"drain", "stop drain"}
    <3>0. \A j \in Unhandled : j \in DOMAIN loop /\ j \in Unhandled' /\ loop'[j] = loop[j]
      BY <1>3 DEF Unhandled
    <3>1. CASE i \in DOMAIN loop
      <4>1. loop'[i] = loop[i]
        BY <1>3, <3>1
      <4>2. QED
        BY <1>1, <3>0, <3>1, <4>1 DEF MailInv
    <3>2. CASE i = Len(loop) + 1
      <4>1. loop'[i].after = accepted /\ accepted <= accepted
        BY <1>3, <3>2 DEF TaskInv
      <4>2. ASSUME accepted > Taken
            PROVE  \E j \in Unhandled' : j < i /\ loop'[j].kind \in {"drain", "stop drain"}
        <5>1. work_queue # <<>>
          <6>1. Taken \in Nat /\ accepted = Taken + Len(work_queue)
            BY DEF TaskInv, Taken, Popped
          <6>2. Len(work_queue) # 0
            BY <4>2, <6>1
          <6>3. QED
            BY <6>2, Empties
        <5>2. PICK j \in Unhandled : loop[j].kind \in {"drain", "stop drain"}
          BY <1>1, <5>1 DEF SeenInv, Comes
        <5>3. QED
          BY <1>3, <3>0, <3>2, <5>2
      <4>3. QED
        BY <4>1, <4>2
    <3>3. QED
      BY <1>3, <3>1, <3>2
  <2>2. QED
    BY <1>2, <2>1 DEF MailInv
<1>8. EndInv'
  <2>1. Stopped' => Stopped \/ m.kind = "stop"
    BY <1>3 DEF Stopped
  <2>2. \A i \in DOMAIN loop' : loop'[i].kind = "stop drain" => stopping'
    BY <1>1, <1>3 DEF EndInv
  <2>3. draining => loop'[1] = loop[1]
    BY <1>3, <1>4
  <2>4. Stopped' => /\ stopping'
                    /\ Len(ran) = accepted
                    /\ notices # <<>> => draining
    BY <1>1, <2>1 DEF EndInv
  <2>5. QED
    BY <1>1, <2>2, <2>3, <2>4 DEF EndInv
<1>9. QED
  BY <1>5, <1>6, <1>7, <1>8 DEF LoopInvs

(* drain_work() begins: what waits is in its burst.                        *)
LEMMA BeginStep ==
  ASSUME LoopInvs, TaskInv, TaskInv', LoopStep, DrainBegin
  PROVE  LoopInvs'
<1>1. LoopInv /\ SeenInv /\ MailInv /\ EndInv
  BY DEF LoopInvs
<1>2. /\ worker = "loop" /\ loop # <<>> /\ Head(loop).kind \in {"drain", "stop drain"}
      /\ worker' = "next" /\ draining' = TRUE /\ work_scheduled' = FALSE
      /\ work_queue' = <<>>
      /\ UNCHANGED <<loop, notices, current, ran, accepted, stopping>>
  BY DEF LoopStep, DrainBegin, Receives, MarksBegun
<1>3. 1 \in DOMAIN loop /\ loop[1].kind \in {"drain", "stop drain"} /\ ~draining
  BY <1>1, <1>2, MessagesAre DEF TaskInv, Draining
<1>4. \A j \in DOMAIN loop : j # 1 => loop[j].kind # "drain"
  <2>1. \A j \in DOMAIN loop : j # 1 => 1 < j
    BY <1>1, MessagesAre
  <2>2. QED
    BY <1>1, <1>3, <2>1 DEF LoopInv
<1>5. ~Comes("drain")'
  BY <1>2, <1>4 DEF Comes, Unhandled
<1>6. LoopInv'
  <2>1. loop' # <<>> /\ loop'[1].kind \in {"drain", "stop drain"} /\ worker' # "mail"
    BY <1>2, <1>3
  <2>2. \A i, j \in DOMAIN loop : i < j /\ loop[j].kind = "drain" => j = 1 /\ ~(i < 1)
    BY <1>1, <1>4, MessagesAre
  <2>3. QED
    BY <1>1, <1>2, <2>1, <2>2 DEF LoopInv
<1>7. SeenInv'
  BY <1>1, <1>2, <1>5 DEF SeenInv, OperationsSeeNotices
<1>8. MailInv'
  <2>1. Taken' = accepted
    <3>1. Taken' \in Nat /\ accepted = Taken' + 0
      BY <1>2, TakenWillBe, Empties
    <3>2. QED
      BY <3>1, AddNothing
  <2>2. \A i \in DOMAIN loop : /\ loop[i].after <= accepted
                               /\ ~(loop[i].after > accepted)
    <3>1. accepted \in Nat
      BY DEF TaskInv
    <3>2. \A i \in DOMAIN loop : loop[i].after \in Nat /\ loop[i].after <= accepted
      BY <1>1, MessagesAre
    <3>3. \A n, k \in Nat : n <= k => ~(n > k)
      OBVIOUS
    <3>4. QED
      BY <3>1, <3>2, <3>3
  <2>3. QED
    BY <1>2, <2>1, <2>2 DEF MailInv
<1>9. EndInv'
  BY <1>1, <1>2 DEF EndInv, Stopped
<1>10. QED
  BY <1>6, <1>7, <1>8, <1>9 DEF LoopInvs

(* The loop turns: a drain ends, or mail has been received.                *)
LEMMA TurnStep ==
  ASSUME LoopInvs, TaskInv, TaskInv', LoopStep, DrainEnd \/ MailReturns
  PROVE  LoopInvs'
<1>1. LoopInv /\ SeenInv /\ MailInv /\ EndInv
  BY DEF LoopInvs
<1> DEFINE m == Message("stop")
<1>2. /\ worker' = "loop" /\ draining' = FALSE /\ loop # <<>>
      /\ draining \/ loop[1].kind = "mail"
      /\ UNCHANGED <<work_queue, work_scheduled, burst, notices, current, ran, accepted, stopping>>
      /\ draining => worker = "unmark"
      /\ \/ loop' = Tail(loop)
         \/ draining /\ loop[1].kind = "stop drain" /\ loop' = Append(Tail(loop), m)
  <2>1. CASE DrainEnd
    <3>1. worker = "unmark" /\ draining /\ loop # <<>> /\ Head(loop) = loop[1]
      BY <1>1, <2>1, MessagesAre DEF DrainEnd, TaskInv, Draining, LoopInv
    <3>2. /\ [i \in 1 .. 1 |-> m] = <<m>> /\ [i \in 1 .. 0 |-> m] = <<>>
      OBVIOUS
    <3>3. Tail(loop) \in Seq(Messages) /\ m \in Messages
      <4>1. loop \in Seq(Messages)
        BY <1>1 DEF LoopInv
      <4>2. QED
        BY <3>1, <4>1, Tails DEF Message, Messages, TaskInv
    <3>4. /\ Tail(loop) \o <<m>> = Append(Tail(loop), m)
          /\ Tail(loop) \o <<>> = Tail(loop)
      BY <3>3
    <3>5. \/ loop[1].kind = "stop drain" /\ loop' = Tail(loop) \o [i \in 1 .. 1 |-> m]
          \/ loop[1].kind # "stop drain" /\ loop' = Tail(loop) \o [i \in 1 .. 0 |-> m]
      BY <2>1, <3>1 DEF DrainEnd
    <3>6. QED
      BY <2>1, <3>1, <3>2, <3>4, <3>5 DEF DrainEnd, LoopStep, MarksEnded
  <2>2. CASE MailReturns
    BY <1>1, <2>2 DEF MailReturns, LoopStep, task_vars, LoopInv, TaskInv, Draining
  <2>3. QED
    BY <2>1, <2>2
<1>3. m \in Messages /\ m.kind = "stop" /\ m.after = accepted
  BY DEF Message, Messages, TaskInv
<1> HIDE DEF m
<1>4. /\ loop' \in Seq(Messages)
      /\ \A i \in DOMAIN loop' :
           \/ i \in Nat \ {0} /\ i + 1 \in DOMAIN loop /\ loop'[i] = loop[i + 1]
           \/ loop'[i] = m /\ loop' = Append(Tail(loop), m)
      /\ \A i \in DOMAIN loop : i # 1 =>
           i \in Nat \ {0} /\ i - 1 \in DOMAIN loop' /\ loop'[i - 1] = loop[i]
      /\ Unhandled' = DOMAIN loop'
      /\ \A kind \in {"drain", "stop drain"} : Comes(kind)' <=> Comes(kind)
      /\ \A i, j \in DOMAIN loop' : i < j /\ loop'[j].kind = "drain" =>
           loop'[i].kind \notin {"drain", "stop drain"}
  BY <1>1, <1>2, <1>3, LoopTurns
<1>5. Taken' = Taken
  <2>1. /\ Taken \in Nat /\ Taken' \in Nat /\ Len(work_queue) \in Nat
        /\ accepted = Taken + Len(work_queue) /\ accepted = Taken' + Len(work_queue)
    BY <1>2, TakenIs, TakenWillBe
  <2>2. QED
    BY <2>1
<1>6. LoopInv'
  BY <1>2, <1>4 DEF LoopInv
<1>7. SeenInv'
  BY <1>1, <1>2, <1>4 DEF SeenInv, EndInv, OperationsSeeNotices
<1>8. MailInv'
  <2>1. ASSUME NEW i \in DOMAIN loop'
        PROVE  /\ loop'[i].after <= accepted
               /\ loop'[i].kind = "mail" /\ loop'[i].after > Taken =>
                    \E j \in Unhandled' : j < i /\ loop'[j].kind \in {"drain", "stop drain"}
    <3>1. CASE loop'[i] = m
      <4>1. m.after <= accepted /\ m.kind # "mail"
        BY <1>3, TakenIs
      <4>2. QED
        BY <3>1, <4>1
    <3>2. CASE i \in Nat \ {0} /\ i + 1 \in DOMAIN loop /\ loop'[i] = loop[i + 1]
      <4>1. loop[i + 1].after <= accepted
        BY <1>1, <3>2, MessagesAre
      <4>2. ASSUME loop[i + 1].kind = "mail", loop[i + 1].after > Taken
            PROVE  \E j \in Unhandled' : j < i /\ loop'[j].kind \in {"drain", "stop drain"}
        <5>1. PICK j \in Unhandled : j < i + 1 /\ loop[j].kind \in {"drain", "stop drain"}
          BY <1>1, <3>2, <4>2 DEF MailInv
        <5>2. j \in DOMAIN loop /\ j # 1
          BY <1>2, <5>1 DEF Unhandled
        <5>3. j \in Nat \ {0} /\ j - 1 \in Unhandled' /\ loop'[j - 1] = loop[j]
          BY <1>4, <5>2
        <5>4. j - 1 < i
          BY <3>2, <5>1, <5>3, Before
        <5>5. QED
          BY <5>1, <5>3, <5>4
      <4>3. QED
        BY <3>2, <4>1, <4>2
    <3>3. QED
      BY <1>4, <3>1, <3>2
  <2>2. QED
    BY <1>2, <1>5, <2>1 DEF MailInv
<1>9. EndInv'
  <2>1. \A i \in DOMAIN loop' : loop'[i].kind = "stop drain" => stopping
    BY <1>1, <1>3, <1>4 DEF EndInv
  <2>2. notices # <<>> => ~draining
    BY <1>1, <1>2 DEF EndInv
  <2>3. CASE loop' = Tail(loop) /\ loop' # Append(Tail(loop), m)
    <3>1. Stopped' => Stopped
      BY <1>2, <1>4, <2>3 DEF Stopped
    <3>2. Stopped => stopping /\ Len(ran) = accepted /\ notices = <<>>
      BY <1>1, <2>2 DEF EndInv
    <3>3. QED
      BY <1>1, <1>2, <2>1, <3>1, <3>2 DEF EndInv
  <2>4. CASE loop' = Append(Tail(loop), m)
    <3>1. draining /\ loop[1].kind = "stop drain"
      <4>1. loop' # Tail(loop)
        <5>1. loop \in Seq(Messages)
          BY <1>1 DEF LoopInv
        <5>2. Tail(loop) \in Seq(Messages)
          BY <1>2, <5>1, Tails
        <5>3. Len(loop') = Len(Tail(loop)) + 1 /\ Len(Tail(loop)) \in Nat
          BY <1>3, <2>4, <5>2, Appends
        <5>4. \A n \in Nat : n + 1 # n
          OBVIOUS
        <5>5. QED
          BY <5>3, <5>4
      <4>2. QED
        BY <1>2, <4>1
    <3>2. stopping /\ work_queue = <<>> /\ notices = <<>>
      BY <1>1, <1>2, <3>1, MessagesAre DEF EndInv
    <3>3. Len(ran) = accepted
      <4>1. burst = <<>> /\ Popped = 0
        BY <1>2, <3>1 DEF TaskInv, Popped
      <4>2. Len(ran) \in Nat /\ accepted = Len(ran) + 0 + 0 + 0
        BY <3>2, <4>1, TakenIs, Empties
      <4>3. QED
        BY <4>2
    <3>4. QED
      BY <1>1, <1>2, <2>1, <3>2, <3>3 DEF EndInv
  <2>5. QED
    BY <1>2, <2>3, <2>4
<1>10. QED
  BY <1>6, <1>7, <1>8, <1>9 DEF LoopInvs

(* The worker between two messages.                                        *)
LEMMA WorkerSettles ==
  ASSUME LoopInvs, TaskInv, TaskInv', RetirementInv, LoopStep
  PROVE  LoopInvs'
<1>1. LoopInv /\ SeenInv /\ MailInv /\ EndInv
  BY DEF LoopInvs
<1>2. UNCHANGED <<stopping, accepted>> /\ notices \in Seq(Nat)
  BY <1>1 DEF LoopStep, SeenInv
<1>3. CASE NextTask
  <2>1. /\ UNCHANGED <<loop, draining, work_scheduled, work_queue, ran, notices>>
        /\ \/ worker' = "last flush"
           \/ worker' = "flush"
           \/ worker' = "run" /\ current'.kind = "command"
    BY <1>3 DEF NextTask, FlushesBefore
  <2>2. QED
    BY <1>2, <2>1, LoopKept DEF OperationsSeeNotices
<1>4. CASE Flush
  <2>1. UNCHANGED <<loop, draining, work_scheduled, work_queue, ran, current>>
    BY <1>4 DEF Flush, task_vars
  <2>2. CASE notices # <<>> /\ notices' = Tail(notices) /\ UNCHANGED worker
    <3>1. worker \in {"flush", "last flush"} /\ notices' \in Seq(Nat)
      BY <1>2, <1>4, <2>2, Tails DEF Flush
    <3>2. QED
      BY <1>2, <2>1, <2>2, <3>1, LoopKept DEF OperationsSeeNotices
  <2>3. CASE notices = <<>> /\ UNCHANGED notices /\ worker' \in {"run", "unmark"}
    BY <1>2, <2>1, <2>3, LoopKept DEF OperationsSeeNotices
  <2>4. QED
    BY <1>4, <2>2, <2>3 DEF Flush
<1>5. CASE RunTask
  <2>1. /\ UNCHANGED <<loop, draining, work_scheduled, work_queue, notices, current>>
        /\ worker = "run" /\ worker' = "task"
    BY <1>5 DEF RunTask, task_vars
  <2>2. OperationsSeeNotices'
    <3>1. current.kind # "command" => notices = <<>>
      BY <1>1, <2>1 DEF SeenInv
    <3>2. QED
      BY <2>1, <3>1, Empties DEF OperationsSeeNotices
  <2>3. ~Stopped
    <3>1. Popped = 1
      BY <2>1 DEF Popped
    <3>2. Len(ran) # accepted
      BY <3>1, TakenIs
    <3>3. QED
      BY <1>1, <3>2 DEF EndInv
  <2>4. QED
    BY <1>2, <2>1, <2>2, <2>3, LoopKept
<1>6. CASE TaskReturns
  <2>1. /\ UNCHANGED <<loop, draining, work_scheduled, work_queue, notices, ran>>
        /\ worker' = "next"
    BY <1>6 DEF TaskReturns, task_vars
  <2>2. QED
    BY <1>2, <2>1, LoopKept DEF OperationsSeeNotices
<1>7. CASE ReceiveMail \/ LoopEnds
  <2>1. /\ UNCHANGED <<loop, draining, work_scheduled, work_queue, notices, ran, current>>
        /\ worker = "loop" /\ loop # <<>>
    BY <1>7 DEF ReceiveMail, LoopEnds, Receives, task_vars
  <2>2. 1 \in DOMAIN loop /\ Head(loop) = loop[1]
    BY <1>1, <2>1, MessagesAre
  <2>3. \/ worker' = "mail" /\ loop[1].kind = "mail"
        \/ worker' = "ended" /\ Stopped
    BY <1>7, <2>2 DEF ReceiveMail, LoopEnds, Receives, Stopped
  <2>4. QED
    BY <1>2, <2>1, <2>3, LoopKept DEF OperationsSeeNotices
<1>8. QED
  BY <1>3, <1>4, <1>5, <1>6, <1>7, BeginStep, TurnStep DEF LoopStep

LEMMA LoopInvsStep ==
  ASSUME LoopInvs, TaskInv, TaskInv', RetirementInv, ThreadInv, [Next]_vars
  PROVE  LoopInvs'
<1>1. LoopInv /\ SeenInv /\ MailInv /\ EndInv
  BY DEF LoopInvs
<1>2. notices \in Seq(Nat) /\ stopping \in BOOLEAN
  BY <1>1 DEF SeenInv, EndInv
<1>3. ~stopping => ~Stopped
  BY <1>1 DEF EndInv
<1>4. CASE Submit \/ SubmitRetirement
  <2>1. PICK kind : Enqueue(kind)
    BY <1>4 DEF Submit, SubmitRetirement
  <2>2. /\ ~stopping /\ Schedule(FALSE) /\ accepted' = accepted + 1
        /\ UNCHANGED <<worker, draining, stopping, ran, burst, current, notices>>
    BY <2>1 DEF Enqueue, Running, thread_vars
  <2>3. accepted' \in Nat /\ accepted' >= accepted
    BY <2>2, TakenIs
  <2>4. OperationsSeeNotices'
    BY <1>1, <2>2 DEF SeenInv, OperationsSeeNotices
  <2>5. QED
    BY <1>2, <1>3, <2>2, <2>3, <2>4, ScheduleStep
<1>5. CASE PostNotice
  <2>1. /\ ~stopping /\ Schedule(TRUE) /\ notices' = Append(notices, Len(ran))
        /\ worker \in {"task", "mail"}
        /\ UNCHANGED <<worker, draining, stopping, ran, burst, current, accepted, work_queue>>
    BY <1>5 DEF PostNotice, Running, thread_vars
  <2>2. /\ notices' \in Seq(Nat)
        /\ \A i \in DOMAIN notices' : notices'[i] = Len(ran) \/
             (i \in DOMAIN notices /\ notices'[i] = notices[i])
    <3>1. Len(ran) \in Nat
      BY TakenIs
    <3>2. /\ Len(notices) \in Nat /\ notices' \in Seq(Nat)
          /\ DOMAIN notices' = 1 .. Len(notices) + 1 /\ DOMAIN notices = 1 .. Len(notices)
          /\ \A i \in 1 .. Len(notices) : notices'[i] = notices[i]
          /\ notices'[Len(notices) + 1] = Len(ran)
      BY <1>2, <2>1, <3>1, Appends
    <3>3. \A i \in DOMAIN notices' : i \in DOMAIN notices \/ i = Len(notices) + 1
      BY <3>2
    <3>4. QED
      BY <3>2, <3>3
  <2>3. worker = "task" => current.id = Len(ran)
    BY DEF TaskInv
  <2>4. OperationsSeeNotices'
    BY <1>1, <2>1, <2>2, <2>3 DEF SeenInv, OperationsSeeNotices
  <2>5. accepted' \in Nat /\ accepted' >= accepted
    BY <2>1, TakenIs
  <2>6. QED
    BY <1>3, <2>1, <2>2, <2>4, <2>5, ScheduleStep
<1>6. ASSUME NEW kind \in {"mail", "stop", "stop drain"}
      PROVE  /\ Message(kind) \in Messages /\ Message(kind).kind = kind
             /\ Message(kind).after = accepted
  BY DEF Message, Messages, TaskInv
<1>7. CASE SendMail
  <2>1. /\ loop' = Append(loop, Message("mail"))
        /\ UNCHANGED <<worker, draining, ran, burst, current, work_queue, work_scheduled,
                       notices, accepted, stopping>>
    BY <1>7 DEF SendMail, thread_vars, task_vars
  <2>2. QED
    BY <1>2, <1>6, <2>1, PostStep
<1>8. CASE Retire
  <2>1. /\ loop' = Append(loop, Message("stop")) /\ stopping' = TRUE
        /\ worker = "task" /\ current.kind = "retirement"
        /\ UNCHANGED <<worker, draining, ran, burst, current, work_queue, work_scheduled,
                       notices, accepted>>
    BY <1>8 DEF Retire, StopsLoop, task_vars
  <2>2. Len(ran) = accepted /\ draining
    BY <2>1 DEF TaskInv, RetirementInv, Draining
  <2>3. QED
    BY <1>6, <2>1, <2>2, PostStep
<1>9. CASE StopLocked
  <2>1. UNCHANGED <<worker, draining, ran, burst, current, work_queue, work_scheduled,
                    notices, accepted>>
    BY <1>9 DEF StopLocked, task_vars
  <2>2. CASE loop' = Append(loop, Message("stop drain")) /\ stopping' = TRUE
    BY <1>6, <2>1, <2>2, PostStep
  <2>3. CASE UNCHANGED <<loop, stopping>>
    BY <1>1, <1>2, <2>1, <2>3, LoopKept DEF LoopInv, SeenInv, EndInv, Stopped, OperationsSeeNotices
  <2>4. QED
    BY <1>9, <2>2, <2>3 DEF StopLocked, StopsAfterDrain
<1>10. ASSUME UNCHANGED <<draining, ran, current, work_queue, work_scheduled, notices,
                          accepted, loop, stopping>>,
              worker' \notin {"mail", "unmark", "ended", "run", "task"} \/ UNCHANGED worker
       PROVE  LoopInvs'
  <2>1. CASE UNCHANGED worker
    BY <1>1, <1>2, <1>10, <2>1, LoopKept DEF LoopInv, SeenInv, EndInv, Stopped, OperationsSeeNotices
  <2>2. CASE worker' \notin {"mail", "unmark", "ended", "run", "task"}
    BY <1>2, <1>10, <2>2, LoopKept DEF OperationsSeeNotices
  <2>3. QED
    BY <1>10, <2>1, <2>2
<1>11. CASE Start \/ WorkerStarts
  BY <1>10, <1>11 DEF Start, WorkerStarts, task_vars
<1>12. CASE StartReturns \/ Joined \/ StopCreation \/ UNCHANGED vars
  BY <1>10, <1>12 DEF StartReturns, Joined, StopCreation, vars, task_vars, thread_vars
<1>13. QED
  BY <1>4, <1>5, <1>7, <1>8, <1>9, <1>11, <1>12, WorkerSettles
  DEF Next, WorkerStep, StopperStep

LEMMA InitInvariant == Init => IInv
<1> SUFFICES ASSUME Init PROVE IInv
  OBVIOUS
<1>1. TaskInv
  <2>1. /\ Popped = 0 /\ ran = <<>> /\ burst = <<>> /\ work_queue = <<>> /\ accepted = 0
        /\ worker = "none" /\ draining = FALSE /\ current = NoTask
    BY DEF Init, Popped
  <2>2. Taken = 0 + 0 + 0
    BY <2>1, Empties DEF Taken
  <2>3. accepted = Taken + Len(work_queue)
    BY <2>1, <2>2, Empties
  <2>4. \A i \in 1 .. 0 : FALSE
    OBVIOUS
  <2>5. /\ \A i \in 1 .. Len(ran) : FALSE
        /\ \A i \in 1 .. Len(burst) : FALSE
        /\ \A i \in 1 .. Len(work_queue) : FALSE
    BY <2>1, <2>4, Empties
  <2>6. /\ ran \in Seq(Nat) /\ work_queue \in Seq(Tasks) /\ burst \in Seq(Tasks)
        /\ accepted \in Nat
    BY <2>1, Empties
  <2>7. QED
    BY <2>1, <2>3, <2>5, <2>6 DEF TaskInv, Draining
<1>2. RetirementInv
  BY Empties DEF Init, RetirementInv, NoTask
<1>3. LoopInv
  BY Empties DEF Init, LoopInv
<1>4. Unhandled = {} /\ \A kind : ~Comes(kind)
  BY Empties DEF Init, Unhandled, Comes
<1>5. SeenInv
  BY <1>4, Empties DEF Init, SeenInv, OperationsSeeNotices
<1>6. MailInv
  BY Empties DEF Init, MailInv
<1>7. EndInv
  BY Empties DEF Init, EndInv, Stopped
<1>8. ThreadInv
  BY DEF Init, ThreadInv
<1>9. QED
  BY <1>1, <1>2, <1>3, <1>5, <1>6, <1>7, <1>8 DEF IInv

LEMMA InvariantStep == IInv /\ [Next]_vars => IInv'
<1> SUFFICES ASSUME IInv, [Next]_vars PROVE IInv'
  OBVIOUS
<1>1. TaskInv' /\ RetirementInv' /\ ThreadInv'
  BY TaskStep, RetirementStep, ThreadStep DEF IInv
<1>2. LoopInvs'
  BY <1>1, LoopInvsStep DEF IInv, LoopInvs
<1>3. QED
  BY <1>1, <1>2 DEF IInv, LoopInvs
-----------------------------------------------------------------------------
(* Every reachable state of the executor satisfies the invariants above,   *)
(* with no fairness assumed.                                               *)
THEOREM Invariance == Safety => []IInv
BY InitInvariant, InvariantStep, PTL DEF Safety

(* enqueue() and drain_work(): a task waits only behind a drain in the     *)
(* loop, and a notice behind one in the loop or one that still flushes.    *)
THEOREM NothingUnseen == Safety => []NothingWaitsUnseen
<1>1. IInv => NothingWaitsUnseen
  <2> SUFFICES ASSUME IInv PROVE NothingWaitsUnseen
    OBVIOUS
  <2> DEFINE unhandled == IF draining THEN Tail(loop) ELSE loop
             Ahead(kind) == \E i \in DOMAIN unhandled : unhandled[i].kind = kind
  <2>1. loop \in Seq(Messages) /\ (draining => loop # <<>>) /\ draining \in BOOLEAN
    BY DEF IInv, LoopInv, TaskInv
  <2>2. \A kind : Ahead(kind) <=> Comes(kind)
    <3>1. CASE draining
      <4>1. /\ DOMAIN loop = 1 .. Len(loop) /\ DOMAIN unhandled = 1 .. Len(loop) - 1
            /\ Len(loop) \in Nat
            /\ \A i \in 1 .. Len(loop) - 1 : unhandled[i] = loop[i + 1]
        BY <2>1, <3>1, Tails
      <4> HIDE DEF unhandled
      <4>2. \A i \in DOMAIN unhandled : i + 1 \in Unhandled /\ unhandled[i] = loop[i + 1]
        BY <4>1 DEF Unhandled
      <4>3. \A i \in Unhandled : i - 1 \in DOMAIN unhandled /\ unhandled[i - 1] = loop[i]
        BY <3>1, <4>1 DEF Unhandled
      <4>4. QED
        BY <4>2, <4>3 DEF Comes
    <3>2. CASE ~draining
      BY <3>2 DEF Comes, Unhandled
    <3>3. QED
      BY <2>1, <3>1, <3>2
  <2> HIDE DEF unhandled
  <2>3. /\ work_scheduled <=> Ahead("drain")
        /\ work_queue # <<>> => Ahead("drain") \/ Ahead("stop drain")
        /\ notices # <<>> => Ahead("drain") \/ (draining /\ worker # "unmark")
    BY <2>2 DEF IInv, SeenInv
  <2>4. QED
    BY <2>3 DEF NothingWaitsUnseen, unhandled
<1>2. QED
  BY <1>1, Invariance, PTL

(* flush_notices(): an operation observes what the commands before it did. *)
THEOREM OperationsObserve == Safety => []OperationsSeeNotices
<1>1. IInv => OperationsSeeNotices
  BY DEF IInv, SeenInv
<1>2. QED
  BY <1>1, Invariance, PTL

(* drain_work(): mail that was sent after a submission is received after   *)
(* the submitted task has run.                                             *)
THEOREM MailFollows == Safety => []MailFollowsSubmissions
<1>1. IInv => MailFollowsSubmissions
  <2> SUFFICES ASSUME IInv, worker = "mail" PROVE Len(ran) >= Head(loop).after
    BY DEF MailFollowsSubmissions
  <2>1. TaskInv /\ LoopInv /\ MailInv
    BY DEF IInv
  <2>2. loop # <<>> /\ loop[1].kind = "mail"
    BY <2>1 DEF LoopInv
  <2>3. /\ 1 \in DOMAIN loop /\ Head(loop) = loop[1] /\ loop[1].after \in Nat
        /\ \A j \in Unhandled : ~(j < 1)
    BY <2>1, <2>2, MessagesAre DEF Unhandled
  <2>4. ~(loop[1].after > Taken)
    BY <2>1, <2>2, <2>3 DEF MailInv
  <2>5. Taken = Len(ran) /\ Len(ran) \in Nat
    <3>1. burst = <<>> /\ Popped = 0
      BY <2>1 DEF TaskInv, Popped
    <3>2. Taken = Len(ran) + 0 + 0 /\ Len(ran) \in Nat
      BY <2>1, <3>1, TakenIs, Empties
    <3>3. QED
      BY <3>2, AddNothing
  <2>6. QED
    BY <2>3, <2>4, <2>5
<1>2. QED
  BY <1>1, Invariance, PTL

(* retire() and stop(): the worker ends only after all that was accepted   *)
(* has run, and stop() returns only once the worker has ended.             *)
THEOREM NothingLost == Safety => []NothingIsLostAtTheEnd
<1>1. IInv => NothingIsLostAtTheEnd
  <2> SUFFICES ASSUME IInv PROVE NothingIsLostAtTheEnd
    OBVIOUS
  <2>1. TaskInv /\ EndInv /\ ThreadInv
    BY DEF IInv
  <2>2. ASSUME worker = "ended"
        PROVE  Len(ran) = accepted /\ work_queue = <<>> /\ burst = <<>> /\ notices = <<>>
    <3>1. burst = <<>> /\ Popped = 0 /\ ~draining
      BY <2>1, <2>2 DEF TaskInv, Popped, Draining
    <3>2. Len(ran) = accepted /\ notices = <<>>
      BY <2>1, <2>2, <3>1 DEF EndInv, Stopped
    <3>3. Len(work_queue) = 0
      <4>1. /\ accepted \in Nat /\ Len(work_queue) \in Nat
            /\ accepted = accepted + 0 + 0 + Len(work_queue)
        BY <2>1, <3>1, <3>2, TakenIs, Empties
      <4>2. QED
        BY <4>1
    <3>4. work_queue = <<>>
      <4>1. work_queue \in Seq(Tasks)
        BY <2>1 DEF TaskInv
      <4>2. QED
        BY <3>3, <4>1
    <3>5. QED
      BY <3>1, <3>2, <3>4
  <2>3. stopper = "done" => ~HasLoop
    BY <2>1 DEF ThreadInv, HasLoop
  <2>4. QED
    BY <2>2, <2>3 DEF NothingIsLostAtTheEnd
<1>2. QED
  BY <1>1, Invariance, PTL
-----------------------------------------------------------------------------
(* The executor as a channel: what waits is the row of the numbers that    *)
(* have been accepted and have not run.                                    *)
Row(n, m) == [i \in 1 .. m - n |-> n + i]
Pending   == [i \in DOMAIN Waiting |-> Waiting[i].id]

LEMMA RowIs == TaskInv => Pending = Row(Len(ran), accepted)
<1> SUFFICES ASSUME TaskInv PROVE Pending = Row(Len(ran), accepted)
  OBVIOUS
<1> DEFINE front == IF worker \in {"flush", "run"} THEN <<current>> ELSE <<>>
           rest  == front \o burst
<1>1. /\ accepted \in Nat /\ Len(ran) \in Nat /\ Len(burst) \in Nat
      /\ Len(work_queue) \in Nat /\ Popped \in {0, 1} /\ Taken \in Nat
      /\ Taken = Len(ran) + Popped + Len(burst)
      /\ accepted = Taken + Len(work_queue)
      /\ burst \in Seq(Tasks) /\ work_queue \in Seq(Tasks)
      /\ \A i \in 1 .. Len(burst) : burst[i].id = Len(ran) + Popped + i
      /\ \A i \in 1 .. Len(work_queue) : work_queue[i].id = Taken + i
  BY TakenIs DEF TaskInv
<1>2. /\ front \in Seq(Tasks \union {NoTask}) /\ Len(front) = Popped
      /\ \A i \in 1 .. Popped : front[i].id = Len(ran) + i
  <2>1. CASE worker \in {"flush", "run"}
    <3>1. Popped = 1 /\ front = <<current>> /\ current \in Tasks \union {NoTask}
          /\ current.id = Len(ran) + 1
      BY <2>1 DEF Popped, TaskInv
    <3>2. /\ <<current>> \in Seq(Tasks \union {NoTask}) /\ Len(<<current>>) = 1
          /\ <<current>>[1] = current
      BY <3>1
    <3>3. \A i \in 1 .. 1 : i = 1
      OBVIOUS
    <3>4. QED
      BY <3>1, <3>2, <3>3
  <2>2. CASE worker \notin {"flush", "run"}
    <3>1. \A i \in 1 .. 0 : FALSE
      OBVIOUS
    <3>2. QED
      BY <2>2, <3>1, Empties DEF Popped
  <2>3. QED
    BY <2>1, <2>2
<1> HIDE DEF front
<1> DEFINE S == Tasks \union {NoTask}
<1>3. burst \in Seq(S) /\ work_queue \in Seq(S) /\ front \in Seq(S)
  BY <1>1, <1>2
<1> HIDE DEF S
<1>4. /\ rest \in Seq(S) /\ Len(rest) = Popped + Len(burst)
      /\ \A i \in 1 .. Popped : rest[i] = front[i]
      /\ \A i \in Popped + 1 .. Popped + Len(burst) : rest[i] = burst[i - Popped]
  BY <1>1, <1>2, <1>3
<1>5. \A i \in 1 .. Len(rest) : rest[i].id = Len(ran) + i
  <2> SUFFICES ASSUME NEW i \in 1 .. Popped + Len(burst) PROVE rest[i].id = Len(ran) + i
    BY <1>4
  <2>1. CASE i \in 1 .. Popped
    BY <1>2, <1>4, <2>1
  <2>2. CASE i \in Popped + 1 .. Popped + Len(burst)
    <3>1. i - Popped \in 1 .. Len(burst)
      BY <1>1, <2>2
    <3>2. burst[i - Popped].id = Len(ran) + Popped + (i - Popped)
      BY <1>1, <3>1
    <3>3. Len(ran) + Popped + (i - Popped) = Len(ran) + i
      BY <1>1, Shifted
    <3>4. QED
      BY <1>4, <2>2, <3>2, <3>3
  <2>3. QED
    BY <1>1, <2>1, <2>2, TwoParts
<1> HIDE DEF rest
<1>6. /\ Waiting = rest \o work_queue
      /\ DOMAIN Waiting = 1 .. Len(rest) + Len(work_queue)
      /\ \A i \in 1 .. Len(rest) : Waiting[i] = rest[i]
      /\ \A i \in Len(rest) + 1 .. Len(rest) + Len(work_queue) :
           Waiting[i] = work_queue[i - Len(rest)]
  <2>1. Waiting = rest \o work_queue
    BY DEF Waiting, rest, front
  <2>2. QED
    BY <1>3, <1>4, <2>1
<1>7. Len(rest) \in Nat /\ Taken = Len(ran) + Len(rest)
      /\ Len(rest) + Len(work_queue) = accepted - Len(ran)
  BY <1>1, <1>4
<1>8. \A i \in 1 .. accepted - Len(ran) : Waiting[i].id = Len(ran) + i
  <2> SUFFICES ASSUME NEW i \in 1 .. Len(rest) + Len(work_queue)
               PROVE  Waiting[i].id = Len(ran) + i
    BY <1>7
  <2>1. CASE i \in 1 .. Len(rest)
    BY <1>5, <1>6, <2>1
  <2>2. CASE i \in Len(rest) + 1 .. Len(rest) + Len(work_queue)
    <3>1. i - Len(rest) \in 1 .. Len(work_queue)
      BY <1>1, <1>7, <2>2
    <3>2. work_queue[i - Len(rest)].id = Taken + (i - Len(rest))
      BY <1>1, <3>1
    <3>3. i \in Int /\ Len(ran) + Len(rest) + (i - Len(rest)) = Len(ran) + i
      BY <1>1, <1>7, Shifted
    <3>4. QED
      BY <1>6, <1>7, <2>2, <3>2, <3>3
  <2>3. QED
    BY <1>1, <1>7, <2>1, <2>2, TwoParts
<1>9. QED
  BY <1>6, <1>7, <1>8 DEF Pending, Row

LEMMA RowWillBe == TaskInv' => Pending' = Row(Len(ran'), accepted')
<1>1. TaskInv' => (Pending = Row(Len(ran), accepted))'
  BY RowIs, PTL
<1>2. QED
  BY <1>1 DEF Row

LEMMA Rows ==
  ASSUME NEW n \in Nat, NEW m \in Nat, n <= m
  PROVE  /\ Row(n, m) \in Seq(Nat) /\ Len(Row(n, m)) = m - n
         /\ Len(Row(n, m + 1)) = Len(Row(n, m)) + 1
         /\ IsPrefix(Row(n, m), Row(n, m + 1))
         /\ n < m => /\ 1 \in 1 .. Len(Row(n, m))
                     /\ SubSeq(Row(n, m), 1, 1) = <<n + 1>>
                     /\ SubSeq(Row(n, m), 2, Len(Row(n, m))) = Row(n + 1, m)
<1>1. /\ Row(n, m) \in Seq(Nat) /\ Len(Row(n, m)) = m - n
      /\ Row(n, m + 1) \in Seq(Nat) /\ Len(Row(n, m + 1)) = (m - n) + 1
      /\ \A i \in 1 .. m - n : Row(n, m)[i] = n + i /\ Row(n, m + 1)[i] = n + i
  BY DEF Row
<1>2. SubSeq(Row(n, m), 1, m - n) = SubSeq(Row(n, m + 1), 1, m - n)
  BY <1>1
<1>3. ASSUME n < m
      PROVE  /\ 1 \in 1 .. m - n
             /\ SubSeq(Row(n, m), 1, 1) = <<n + 1>>
             /\ SubSeq(Row(n, m), 2, m - n) = Row(n + 1, m)
  <2>1. 1 \in 1 .. m - n /\ Row(n, m)[1] = n + 1
    BY <1>1, <1>3
  <2>2. SubSeq(Row(n, m), 1, 1) = <<n + 1>>
    BY <1>1, <2>1, OneElement
  <2>3. SubSeq(Row(n, m), 2, m - n) = [i \in 1 .. m - n - 1 |-> Row(n, m)[i + 1]]
    BY <1>1, <1>3
  <2>4. \A i \in 1 .. m - n - 1 : Row(n, m)[i + 1] = (n + 1) + i
    BY <1>1, <1>3
  <2>5. m - (n + 1) = m - n - 1
    OBVIOUS
  <2>6. QED
    BY <2>1, <2>2, <2>3, <2>4, <2>5 DEF Row
<1>4. QED
  BY <1>1, <1>2, <1>3 DEF IsPrefix

(* Seen from outside, the executor is a first-in first-out channel: each   *)
(* step accepts a task at its back, starts the one at its front, or        *)
(* changes neither.                                                        *)
THEOREM Implementation == Safety => ImplementsContract
<1> DEFINE pending == [i \in DOMAIN Waiting |-> Waiting[i].id]
<1>1. Init => Contract!Init
  <2> SUFFICES ASSUME Init PROVE pending = <<>> /\ ran = <<>>
    BY DEF Contract!Init
  <2>1. Waiting = <<>>
    <3>1. Waiting = (<<>> \o <<>>) \o <<>>
      BY DEF Init, Waiting
    <3>2. (<<>> \o <<>>) \o <<>> = <<>>
      OBVIOUS
    <3>3. QED
      BY <3>1, <3>2
  <2>2. pending = [i \in DOMAIN <<>> |-> <<>>[i].id]
    BY <2>1
  <2>3. QED
    BY <2>2 DEF Init
<1>2. IInv /\ [Next]_vars => [Contract!Next]_Contract!vars
  <2> SUFFICES ASSUME IInv, [Next]_vars
               PROVE  Contract!Next \/ UNCHANGED <<pending, ran>>
    BY DEF Contract!vars
  <2>1. /\ TaskInv /\ TaskInv'
        /\ pending = Row(Len(ran), accepted) /\ pending' = Row(Len(ran'), accepted')
    BY InvariantStep, RowIs, RowWillBe DEF IInv, Pending
  <2>2. /\ Len(ran) \in Nat /\ accepted \in Nat /\ Len(ran) <= accepted
    BY <2>1, TakenIs
  <2> HIDE DEF pending
  <2>3. CASE Submit \/ SubmitRetirement
    <3>1. accepted' = accepted + 1 /\ UNCHANGED ran
      BY <2>3 DEF Submit, SubmitRetirement, Enqueue
    <3>2. Len(pending') = Len(pending) + 1 /\ IsPrefix(pending, pending')
      BY <2>1, <2>2, <3>1, Rows
    <3>3. Contract!Accept
      <4>1. UNCHANGED <<ran, FALSE>>
        BY <3>1
      <4>2. QED
        BY <3>2, <4>1, Zenon DEF Contract!Accept, Contract!IsPrefix, IsPrefix, pending
    <3>4. QED
      BY <3>3 DEF Contract!Next
  <2>4. CASE LoopStep /\ RunTask
    <3>1. /\ ran' = Append(ran, Len(ran) + 1) /\ UNCHANGED accepted
          /\ Len(ran) < accepted
      <4>1. worker = "run" /\ ran' = Append(ran, current.id) /\ UNCHANGED accepted
        BY <2>4 DEF LoopStep, RunTask
      <4>2. current.id = Len(ran) + 1 /\ Popped = 1
        BY <2>1, <4>1 DEF TaskInv, Popped
      <4>3. Len(ran) < accepted
        BY <2>1, <4>2, TakenIs
      <4>4. QED
        BY <4>1, <4>2, <4>3
    <3>2. ran \in Seq(Nat) /\ Len(ran') = Len(ran) + 1
          /\ ran' = ran \o <<Len(ran) + 1>>
      <4>1. ran \in Seq(Nat)
        BY <2>1 DEF TaskInv
      <4>2. QED
        BY <2>2, <3>1, <4>1
    <3>3. /\ 1 \in 1 .. Len(pending)
          /\ SubSeq(pending, 1, 1) = <<Len(ran) + 1>>
          /\ SubSeq(pending, 2, Len(pending)) = pending'
      BY <2>1, <2>2, <3>1, <3>2, Rows
    <3>4. /\ ran' = ran \o SubSeq(pending, 1, 1)
          /\ pending' = SubSeq(pending, 1 + 1, Len(pending))
      <4>1. 1 + 1 = 2
        OBVIOUS
      <4>2. QED
        BY <3>2, <3>3, <4>1
    <3>5. Contract!Deliver
      BY <3>3, <3>4 DEF Contract!Deliver, pending
    <3>6. QED
      BY <3>5 DEF Contract!Next
  <2>5. CASE UNCHANGED <<ran, accepted>>
    BY <2>1, <2>5 DEF Row
  <2>6. CASE LoopStep /\ ~RunTask
    BY <2>5, <2>6 DEF LoopStep, DrainBegin, NextTask, Flush, TaskReturns, DrainEnd,
       ReceiveMail, MailReturns, LoopEnds
  <2>7. CASE \/ Start \/ StartReturns \/ WorkerStarts \/ Retire \/ StopperStep
             \/ SendMail \/ PostNotice \/ StopCreation \/ UNCHANGED vars
    BY <2>5, <2>7 DEF Start, StartReturns, WorkerStarts, Retire, StopperStep, StopLocked,
       Joined, SendMail, PostNotice, StopCreation, vars
  <2>8. QED
    BY <2>3, <2>4, <2>6, <2>7 DEF Next, WorkerStep
<1>3. QED
  BY <1>1, <1>2, Invariance, PTL DEF Safety, ImplementsContract, Contract!Spec
=============================================================================
