------------------------- MODULE ResourceRequestProofs -------------------------
(***************************************************************************)
(* Proofs about ResourceRequest, for any number of threads of the host     *)
(* that answer, hand back, watch and release one request at once.          *)
(***************************************************************************)
EXTENDS ResourceRequest, TLAPS

(* A thread in retire_request() has the handle's retirement behind it, and *)
(* one that owes the handler's user data still has to release it.          *)
HasRetired(t) == call[t].step \in {"wait", "settle", "remove"}
Releasing(t)  == call[t].step \in {"retire", "retiring"} \/ HasRetired(t)
Owes(t)       == call[t].step = "settle" /\ call[t].owes

CancelPlaces == {"cancelling", "cancel callback", "unmarking", "removing", "destroyed"}
CallSteps == {"idle", "leased", "failed", "retire", "retiring", "wait", "settle", "remove"}
Calls == [op : Ops \union {"none"}, step : CallSteps, owes : BOOLEAN]

(* The life of the handle: only a retired request leaves the table, and no *)
(* thread gets past its retirement while the callback runs.                *)
LifeInv ==
  /\ call \in [Threads -> Calls]
  /\ {live, running, stored, retired} \subseteq BOOLEAN
  /\ loop \in {"start", "created", "callback", "failing", "waiting"} \union CancelPlaces
  /\ loop \in {"start", "created"} =>
       ~registered /\ ~retired /\ \A t \in Threads : call[t] = NoCall
  /\ running <=> loop \in {"cancel callback", "unmarking"}
  /\ loop # "start" /\ ~retired => live
  /\ loop = "removing" \/ remove_after => retired
  /\ \A t \in Threads : HasRetired(t) => retired
  /\ running => /\ live /\ registered /\ ~stored
                /\ \A t \in Threads : call[t].step \notin {"settle", "remove"}
  /\ stored => registered /\ ~retired
  /\ \A t \in Threads : call[t].owes => call[t].step \in {"settle", "remove"}

(* The decision: whoever releases the request has answered it, found it    *)
(* destroyed, or left a note for the provider's return.                    *)
AnswerInv ==
  /\ completed => answers = 1
  /\ ~completed => answers = 0
  /\ completed \in BOOLEAN /\ cancelled \in BOOLEAN
  /\ cancelled <=> loop \in CancelPlaces
  /\ pending # "none" \/ mail \/ native => loop \in {"callback", "failing", "waiting"}
  /\ loop \in {"start", "created"} => ~claimed
  /\ loop = "callback" => deciding /\ ~claimed
  /\ loop = "waiting" => claimed \/ completed
  /\ retired \/ (\E t \in Threads : Releasing(t)) =>
       \/ completed \/ cancelled \/ loop = "failing"
       \/ loop = "callback" /\ released_while_deciding

(* The cancel handler: from its registration on, its user data is at one   *)
(* place, which is the request, the caller, a thread that owes it, the     *)
(* callback, or nowhere because it has been released.                      *)
HandlerInv ==
  /\ stored => ~told /\ ran = 0 /\ released = 0
  /\ told => registered /\ ran = 0 /\ released = 0
  /\ ran = 0 \/ (ran = 1 /\ registered /\ ~completed /\ cancelled)
  /\ released = 0 \/ (released = 1 /\ registered)
  /\ loop = "cancel callback" => ran = 1 /\ released = 0
  /\ ran = 1 /\ loop # "cancel callback" => released = 1
  /\ \A t \in Threads : Owes(t) => /\ registered /\ ~stored /\ ~told
                                   /\ ran = 0 /\ released = 0
  /\ \A t, u \in Threads : Owes(t) /\ Owes(u) => t = u
  /\ registered => \/ stored \/ told \/ released = 1 \/ loop = "cancel callback"
                   \/ \E t \in Threads : Owes(t)
  /\ loop = "destroyed" /\ stored => completed

IInv == LifeInv /\ AnswerInv /\ HandlerInv

(* How a call's record changes when its thread goes on, and when it begins *)
(* or ends.                                                                *)
LEMMA GoesOn ==
  ASSUME call \in [Threads -> Calls], NEW t \in Threads, NEW step \in CallSteps,
         Goes(t, step)
  PROVE  /\ call' \in [Threads -> Calls]
         /\ call'[t].step = step /\ call'[t].op = call[t].op
         /\ call'[t].owes = call[t].owes
         /\ \A u \in Threads \ {t} : call'[u] = call[u]
<1>1. /\ call[t] \in Calls
      /\ call' = [call EXCEPT ![t] = [call[t] EXCEPT !.step = step]]
  BY DEF Goes
<1>2. /\ [call[t] EXCEPT !.step = step] \in Calls
      /\ [call[t] EXCEPT !.step = step].step = step
      /\ [call[t] EXCEPT !.step = step].op = call[t].op
      /\ [call[t] EXCEPT !.step = step].owes = call[t].owes
  BY <1>1 DEF Calls
<1>3. QED
  BY <1>1, <1>2

LEMMA Enters ==
  ASSUME call \in [Threads -> Calls], NEW t \in Threads, NEW c \in Calls,
         call' = [call EXCEPT ![t] = c]
  PROVE  /\ call' \in [Threads -> Calls] /\ call'[t] = c
         /\ \A u \in Threads \ {t} : call'[u] = call[u]
OBVIOUS

LEMMA CallBegins ==
  ASSUME call \in [Threads -> Calls], NEW t \in Threads,
         NEW op \in Ops, NEW step \in CallSteps,
         call' = [call EXCEPT ![t] = InCall(op, step)]
  PROVE  /\ call' \in [Threads -> Calls]
         /\ call'[t].step = step /\ call'[t].op = op /\ call'[t].owes = FALSE
         /\ \A u \in Threads \ {t} : call'[u] = call[u]
<1>1. InCall(op, step) \in Calls
  BY DEF InCall, Calls
<1>2. QED
  BY <1>1, Enters DEF InCall

LEMMA NoCallIsCall ==
  NoCall \in Calls /\ NoCall.step = "idle" /\ NoCall.owes = FALSE
BY DEF NoCall, InCall, Calls, CallSteps

LEMMA GoesOrReturns ==
  ASSUME call \in [Threads -> Calls], NEW t \in Threads, NEW step \in CallSteps,
         Goes(t, step) \/ Returns(t)
  PROVE  /\ call' \in [Threads -> Calls]
         /\ call'[t].step \in {"idle", step} /\ call'[t].owes \in BOOLEAN
         /\ ~call[t].owes => ~call'[t].owes
         /\ \A u \in Threads \ {t} : call'[u] = call[u]
<1>1. CASE Goes(t, step)
  <2>1. call[t].owes \in BOOLEAN
    BY DEF Calls
  <2>2. QED
    BY <1>1, <2>1, GoesOn
<1>2. CASE Returns(t)
  BY <1>2, NoCallIsCall, Enters DEF Returns
<1>3. QED
  BY <1>1, <1>2

(* The two ways in which a retirement goes on.                             *)
LEMMA RetireMoves ==
  ASSUME call \in [Threads -> Calls], NEW t \in Threads, Retire(t), stored \in BOOLEAN
  PROVE  /\ call' \in [Threads -> Calls]
         /\ \A u \in Threads \ {t} : call'[u] = call[u]
         /\ IF running /\ t = Loop
            THEN call'[t] = NoCall
            ELSE /\ call'[t].step = IF Waits(t) THEN "wait" ELSE "settle"
                 /\ call'[t].owes = stored
<1>1. CASE running /\ t = Loop /\ ~Waits(t)
  BY <1>1, NoCallIsCall, Enters DEF Retire, Returns, Waits
<1>2. CASE ~(running /\ t = Loop /\ ~Waits(t))
  <2> DEFINE c == [op |-> call[t].op, step |-> IF Waits(t) THEN "wait" ELSE "settle",
                   owes |-> stored]
  <2>1. call[t] \in Calls
    OBVIOUS
  <2>2. c \in Calls
    BY <2>1 DEF Calls, CallSteps
  <2>3. call' = [call EXCEPT ![t] = c]
    BY <1>2 DEF Retire
  <2>4. c.step = (IF Waits(t) THEN "wait" ELSE "settle") /\ c.owes = stored
    OBVIOUS
  <2> HIDE DEF c
  <2>5. QED
    BY <1>2, <2>2, <2>3, <2>4, Enters DEF Waits
<1>3. QED
  BY <1>1, <1>2

LEMMA LifeStep == LifeInv /\ [Next]_vars => LifeInv'
<1> SUFFICES ASSUME LifeInv, [Next]_vars PROVE LifeInv'
  OBVIOUS
<1> USE ThreadAssumption DEF LifeInv, HasRetired, Threads, At, CancelPlaces, life_vars, handler_vars
<1>1. ASSUME NEW t \in Threads, Call(t), UNCHANGED loop PROVE LifeInv'
  <2>1. PICK op \in Ops : call' = [call EXCEPT ![t] = InCall(op, "leased")]
    BY <1>1 DEF Call
  <2>2. QED
    BY <1>1, <2>1, CallBegins, NoCallIsCall DEF Call, InCallback, CallSteps
<1>2. ASSUME NEW t \in Threads, Answer(t), UNCHANGED loop PROVE LifeInv'
  <2>1. Goes(t, "retire") \/ call' = [call EXCEPT ![t] = InCall("release", "failed")]
    BY <1>2 DEF Answer
  <2>2. UNCHANGED <<loop, live, retired, registered, stored, running, remove_after>>
    BY <1>2 DEF Answer
  <2>6. call[t].step = "leased"
    BY <1>2 DEF Answer
  <2>3. CASE Goes(t, "retire")
    <3>1. /\ call' \in [Threads -> Calls]
          /\ call'[t].step = "retire" /\ call'[t].owes = call[t].owes
          /\ \A u \in Threads \ {t} : call'[u] = call[u]
      BY <2>3, GoesOn DEF CallSteps
    <3>2. QED
      BY <2>2, <2>6, <3>1, NoCallIsCall
  <2>4. CASE call' = [call EXCEPT ![t] = InCall("release", "failed")]
    <3>1. /\ call' \in [Threads -> Calls]
          /\ call'[t].step = "failed" /\ call'[t].owes = FALSE
          /\ \A u \in Threads \ {t} : call'[u] = call[u]
      BY <2>4, CallBegins DEF CallSteps, Ops
    <3>2. QED
      BY <2>2, <2>6, <3>1, NoCallIsCall
  <2>5. QED
    BY <2>1, <2>3, <2>4
<1>3. ASSUME NEW t \in Threads, LeaseAgain(t), UNCHANGED loop PROVE LifeInv'
  <2>1. /\ call' \in [Threads -> Calls]
        /\ call'[t].step \in {"idle", "leased"} /\ ~call'[t].owes
        /\ \A u \in Threads \ {t} : call'[u] = call[u]
    BY <1>3, GoesOrReturns DEF LeaseAgain, CallSteps
  <2>2. /\ call[t].step = "failed" /\ ~call[t].owes
        /\ UNCHANGED <<loop, live, running, stored, retired, registered, remove_after>>
    BY <1>3 DEF LeaseAgain
  <2>3. QED
    BY <2>1, <2>2, NoCallIsCall
<1>4. ASSUME NEW t \in Threads, SetHandler(t), UNCHANGED loop PROVE LifeInv'
  BY <1>4, NoCallIsCall, Enters DEF SetHandler, Returns
<1>5. ASSUME NEW t \in Threads, Release(t), UNCHANGED loop PROVE LifeInv'
  BY <1>5, GoesOn, NoCallIsCall DEF Release, FailLocked, Schedule, CallSteps
<1>6. ASSUME NEW t \in Threads, LeaseToRetire(t), UNCHANGED loop PROVE LifeInv'
  <2>1. /\ call' \in [Threads -> Calls]
        /\ call'[t].step \in {"idle", "retiring"} /\ ~call'[t].owes
        /\ \A u \in Threads \ {t} : call'[u] = call[u]
    BY <1>6, GoesOrReturns DEF LeaseToRetire, CallSteps
  <2>2. /\ call[t].step = "retire" /\ ~call[t].owes
        /\ UNCHANGED <<loop, live, running, stored, retired, registered, remove_after>>
    BY <1>6 DEF LeaseToRetire
  <2>3. QED
    BY <2>1, <2>2, NoCallIsCall
<1>7. ASSUME NEW t \in Threads, Retire(t), UNCHANGED loop PROVE LifeInv'
  <2>1. /\ retired' = TRUE /\ stored' = FALSE
        /\ UNCHANGED <<loop, live, registered, running>>
        /\ call' \in [Threads -> Calls]
        /\ \A u \in Threads \ {t} : call'[u] = call[u]
    BY <1>7, RetireMoves DEF Retire
  <2>2. \/ call'[t].step = "idle" /\ ~call'[t].owes
        \/ running /\ call'[t].step = "wait" /\ ~call'[t].owes
        \/ ~running /\ call'[t].step = "settle"
    BY <1>7, RetireMoves, NoCallIsCall DEF Waits
  <2>3. loop \notin {"start", "created"}
    BY <1>7, NoCallIsCall DEF Retire
  <2>4. QED
    BY <2>1, <2>2, <2>3
<1>8. ASSUME NEW t \in Threads, Settle(t), UNCHANGED loop PROVE LifeInv'
  <2>1. /\ call' \in [Threads -> Calls] /\ call'[t].step = "remove"
        /\ call'[t].owes = call[t].owes
        /\ \A u \in Threads \ {t} : call'[u] = call[u]
    BY <1>8, GoesOn DEF Settle, CallSteps
  <2>2. QED
    BY <1>8, <2>1 DEF Settle
<1>9. ASSUME NEW t \in Threads, Remove(t), UNCHANGED loop PROVE LifeInv'
  BY <1>9, NoCallIsCall, Enters DEF Remove, Returns
<1>10. CASE FailRequest
  BY <1>10, CallBegins, NoCallIsCall DEF FailRequest, EndsDeciding, FailLocked, Schedule, Free,
     LoopGoes, CallSteps, Ops
<1>11. CASE Create
  BY <1>11 DEF Create, Free, LoopGoes
<1>12. CASE Invoke
  BY <1>12 DEF Invoke, Free, LoopGoes
<1>13. CASE Decided
  BY <1>13 DEF Decided, EndsDeciding, FailLocked, Schedule, Free, LoopGoes
<1>14. CASE Drain
  BY <1>14 DEF Drain, Free, LoopGoes
<1>15. CASE RunCancel
  BY <1>15 DEF RunCancel, RunsCallback, Free, LoopGoes
<1>16. CASE CancelReturns
  BY <1>16 DEF CancelReturns, Free, LoopGoes
<1>17. CASE Unmark
  BY <1>17 DEF Unmark, Free, LoopGoes
<1>18. CASE CancelRemoves
  BY <1>18 DEF CancelRemoves, Free, LoopGoes
<1>19. CASE Deliver
  BY <1>19 DEF Deliver, Free, LoopGoes
<1>20. CASE Destroy
  BY <1>20 DEF Destroy, Free, LoopGoes
<1>21. CASE UNCHANGED vars
  BY <1>21 DEF vars
<1>22. QED
  BY <1>1, <1>2, <1>3, <1>4, <1>5, <1>6, <1>7, <1>8, <1>9, <1>10, <1>11, <1>12,
     <1>13, <1>14, <1>15, <1>16, <1>17, <1>18, <1>19, <1>20, <1>21
  DEF Next, CallStep, LoopStep

(* fail_locked() decides a request that is neither decided nor destroyed.  *)
LEMMA FailsOnce ==
  ASSUME AnswerInv, FailLocked
  PROVE  /\ completed' \/ cancelled
         /\ completed' \in BOOLEAN
         /\ completed' => answers' = 1
         /\ ~completed' => answers' = 0
         /\ pending' # "none" => pending # "none" \/ ~cancelled
<1>1. CASE completed \/ cancelled
  BY <1>1 DEF AnswerInv, FailLocked
<1>2. CASE ~completed /\ ~cancelled
  <2>1. answers = 0 /\ answers' = answers + 1 /\ completed' = TRUE
    BY <1>2 DEF AnswerInv, FailLocked, Schedule
  <2>2. answers' = 1
    BY <2>1
  <2>3. QED
    BY <1>2, <2>1, <2>2
<1>3. QED
  BY <1>1, <1>2

LEMMA AnswerStep == LifeInv /\ AnswerInv /\ [Next]_vars => AnswerInv'
<1> SUFFICES ASSUME LifeInv, AnswerInv, [Next]_vars PROVE AnswerInv'
  OBVIOUS
<1>0. call \in [Threads -> Calls]
  BY DEF LifeInv
<1>a. CancelPlaces \intersect {"start", "created", "callback", "failing", "waiting"} = {}
  BY DEF CancelPlaces
<1>b. {"cancelling", "cancel callback", "unmarking", "removing", "destroyed"} \subseteq CancelPlaces
  BY DEF CancelPlaces
<1> USE DEF AnswerInv, Releasing, HasRetired, At, life_vars, decide_vars, loader_vars
<1>1. ASSUME NEW t \in Threads, Call(t), UNCHANGED loop PROVE AnswerInv'
  <2>1. PICK op \in Ops : call' = [call EXCEPT ![t] = InCall(op, "leased")]
    BY <1>1 DEF Call
  <2>2. call'[t].step = "leased" /\ \A u \in Threads \ {t} : call'[u] = call[u]
    BY <1>0, <2>1, CallBegins DEF CallSteps
  <2>3. QED
    BY <1>1, <2>2 DEF Call
<1>2. ASSUME NEW t \in Threads, Answer(t), UNCHANGED loop PROVE AnswerInv'
  <2>1. /\ loop \notin {"start", "created"} /\ UNCHANGED <<loop, cancelled, retired, claimed,
                                                           deciding, released_while_deciding, native>>
    BY <1>2, NoCallIsCall DEF Answer, LifeInv
  <2>2. CASE TakesAnswer /\ Goes(t, "retire") /\ answers' = answers + 1 /\ completed' = TRUE
    <3>1. call'[t].step = "retire" /\ \A u \in Threads \ {t} : call'[u] = call[u]
      BY <1>0, <2>2, GoesOn DEF CallSteps
    <3>2. answers = 0 /\ loop \in {"callback", "failing", "waiting"}
      BY <1>2, <2>1, <2>2 DEF TakesAnswer, LifeInv
    <3>3. QED
      BY <2>1, <2>2, <3>1, <3>2
  <2>3. CASE /\ call' = [call EXCEPT ![t] = InCall("release", "failed")]
             /\ UNCHANGED <<mail, pending, completed, answers>>
    <3>1. call'[t].step = "failed" /\ \A u \in Threads \ {t} : call'[u] = call[u]
      BY <1>0, <2>3, CallBegins DEF CallSteps, Ops
    <3>2. QED
      BY <2>1, <2>3, <3>1
  <2>4. QED
    BY <1>2, <2>2, <2>3 DEF Answer, Schedule
<1>3. ASSUME NEW t \in Threads, LeaseAgain(t), UNCHANGED loop PROVE AnswerInv'
  <2>1. /\ call'[t].step \in {"leased", "idle"}
        /\ \A u \in Threads \ {t} : call'[u] = call[u]
    BY <1>0, <1>3, GoesOrReturns DEF LeaseAgain, CallSteps
  <2>2. QED
    BY <1>3, <2>1 DEF LeaseAgain
<1>4. ASSUME NEW t \in Threads, SetHandler(t), UNCHANGED loop PROVE AnswerInv'
  <2>1. call'[t].step = "idle" /\ \A u \in Threads \ {t} : call'[u] = call[u]
    BY <1>0, <1>4, NoCallIsCall, Enters DEF SetHandler, Returns
  <2>2. QED
    BY <1>4, <2>1 DEF SetHandler
<1>5. ASSUME NEW t \in Threads, Release(t), UNCHANGED loop PROVE AnswerInv'
  <2>1. call'[t].step = "retire" /\ \A u \in Threads \ {t} : call'[u] = call[u]
    BY <1>0, <1>5, GoesOn DEF Release, CallSteps
  <2>2. loop \notin {"start", "created"}
    BY <1>5, NoCallIsCall DEF Release, LifeInv
  <2>3. /\ UNCHANGED <<loop, cancelled, retired, deciding, claimed, mail, native>>
        /\ loop \in {"callback", "failing", "waiting"} \union CancelPlaces
    BY <1>5, <2>2 DEF Release, LifeInv
  <2>4. CASE ~retired /\ claimed /\ FailLocked
    BY <1>5, <1>a, <2>1, <2>3, <2>4, FailsOnce
  <2>5. CASE /\ retired \/ ~claimed
             /\ released_while_deciding' =
                  (released_while_deciding \/ (~retired /\ NotesRelease))
             /\ UNCHANGED <<pending, completed, answers>>
    BY <1>a, <2>1, <2>3, <2>5 DEF NotesRelease
  <2>6. QED
    BY <1>5, <2>4, <2>5 DEF Release
<1>6. ASSUME NEW t \in Threads, LeaseToRetire(t), UNCHANGED loop PROVE AnswerInv'
  <2>1. /\ Releasing(t)
        /\ \A u \in Threads \ {t} : call'[u] = call[u]
    BY <1>0, <1>6, GoesOrReturns DEF LeaseToRetire, CallSteps
  <2>2. QED
    BY <1>6, <2>1 DEF LeaseToRetire
<1>7. ASSUME NEW t \in Threads, Retire(t), UNCHANGED loop PROVE AnswerInv'
  BY <1>7 DEF Retire
<1>8. ASSUME NEW t \in Threads, Settle(t), UNCHANGED loop PROVE AnswerInv'
  BY <1>8 DEF Settle
<1>9. ASSUME NEW t \in Threads, Remove(t), UNCHANGED loop PROVE AnswerInv'
  BY <1>9 DEF Remove
<1>10. CASE FailRequest
  BY <1>10, <1>a, FailsOnce DEF FailRequest, EndsDeciding, Free, LoopGoes
<1>11. CASE Create
  BY <1>a, <1>b, <1>11, NoCallIsCall DEF Create, LifeInv, Free, LoopGoes
<1>12. CASE Invoke
  BY <1>a, <1>b, <1>12, NoCallIsCall DEF Invoke, LifeInv, HasRetired, Free, LoopGoes
<1>13. CASE Decided
  <2>1. /\ loop = "callback" /\ UNCHANGED <<cancelled, retired, mail, native, call>>
        /\ UNCHANGED released_while_deciding
    BY <1>13 DEF Decided, Free
  <2>2. CASE loop' = "waiting" /\ claimed' = TRUE /\ released_while_deciding /\ FailLocked
    BY <1>a, <2>1, <2>2, FailsOnce
  <2>3. CASE /\ loop' = "waiting" /\ claimed' = TRUE /\ ~released_while_deciding
             /\ UNCHANGED <<pending, completed, answers>>
    BY <1>a, <2>1, <2>3
  <2>4. CASE loop' = "failing" /\ UNCHANGED <<deciding, claimed, pending, completed, answers>>
    BY <1>a, <2>1, <2>4
  <2>5. QED
    BY <1>13, <2>2, <2>3, <2>4 DEF Decided, LoopGoes
<1>14. CASE Drain
  BY <1>a, <1>b, <1>14 DEF Drain, Free, LoopGoes
<1>15. CASE RunCancel
  BY <1>a, <1>b, <1>15 DEF RunCancel, RunsCallback, Free, LoopGoes
<1>16. CASE CancelReturns
  BY <1>a, <1>b, <1>16 DEF CancelReturns, Free, LoopGoes
<1>17. CASE Unmark
  BY <1>a, <1>b, <1>17 DEF Unmark, Free, LoopGoes
<1>18. CASE CancelRemoves
  BY <1>a, <1>b, <1>18 DEF CancelRemoves, Free, LoopGoes
<1>19. CASE Deliver
  BY <1>a, <1>b, <1>19 DEF Deliver, Free, LoopGoes
<1>20. CASE Destroy
  BY <1>a, <1>b, <1>20 DEF Destroy, Free, LoopGoes
<1>21. CASE UNCHANGED vars
  BY <1>21 DEF vars
<1>22. QED
  BY <1>1, <1>2, <1>3, <1>4, <1>5, <1>6, <1>7, <1>8, <1>9, <1>10, <1>11, <1>12,
     <1>13, <1>14, <1>15, <1>16, <1>17, <1>18, <1>19, <1>20, <1>21
  DEF Next, CallStep, LoopStep

(* A step that answers the request, or leaves it as it is, and moves the   *)
(* handler's user data nowhere.                                            *)
LEMMA HandlerStays ==
  ASSUME HandlerInv, UNCHANGED <<cancelled, registered, stored, ran, released, told>>,
         \A t \in Threads : Owes(t)' <=> Owes(t),
         UNCHANGED completed \/ (~cancelled /\ completed' = TRUE),
         \/ UNCHANGED loop
         \/ loop # "cancel callback" /\ loop' \notin {"cancel callback", "destroyed"}
  PROVE  HandlerInv'
<1> USE DEF HandlerInv
<1>1. CASE UNCHANGED completed
  BY <1>1
<1>2. CASE ~cancelled /\ completed' = TRUE
  <2>1. ran = 0
    BY <1>2
  <2>2. QED
    BY <1>2, <2>1
<1>3. QED
  BY <1>1, <1>2

LEMMA HandlerStep == LifeInv /\ AnswerInv /\ HandlerInv /\ [Next]_vars => HandlerInv'
<1> SUFFICES ASSUME LifeInv, AnswerInv, HandlerInv, [Next]_vars PROVE HandlerInv'
  OBVIOUS
<1>0. /\ call \in [Threads -> Calls] /\ stored \in BOOLEAN /\ running \in BOOLEAN
      /\ \A t \in Threads : call[t].owes => call[t].step \in {"settle", "remove"}
      /\ running <=> loop \in {"cancel callback", "unmarking"}
  BY DEF LifeInv
<1> USE DEF HandlerInv, Owes, At, life_vars, handler_vars, cancel_vars
<1>1. ASSUME NEW t \in Threads, Call(t), UNCHANGED loop PROVE HandlerInv'
  <2>1. PICK op \in Ops : call' = [call EXCEPT ![t] = InCall(op, "leased")]
    BY <1>1 DEF Call
  <2>2. /\ ~Owes(t) /\ ~Owes(t)'
        /\ \A u \in Threads \ {t} : call'[u] = call[u]
    BY <1>0, <1>1, <2>1, CallBegins, NoCallIsCall DEF CallSteps, Call
  <2>3. QED
    BY <1>1, <2>2 DEF Call
<1>2. ASSUME NEW t \in Threads, Answer(t), UNCHANGED loop PROVE HandlerInv'
  <2>1. /\ ~Owes(t) /\ ~Owes(t)'
        /\ \A u \in Threads \ {t} : call'[u] = call[u]
    <3>1. CASE Goes(t, "retire")
      BY <1>0, <1>2, <3>1, GoesOn DEF Answer, CallSteps
    <3>2. CASE call' = [call EXCEPT ![t] = InCall("release", "failed")]
      BY <1>0, <1>2, <3>2, CallBegins DEF Answer, CallSteps, Ops
    <3>3. QED
      BY <1>2, <3>1, <3>2 DEF Answer
  <2>2. /\ UNCHANGED <<loop, cancelled, registered, stored, ran, released, told>>
        /\ UNCHANGED completed \/ (~cancelled /\ completed' = TRUE)
    BY <1>2 DEF Answer, TakesAnswer, Schedule
  <2>3. QED
    BY <2>1, <2>2, HandlerStays
<1>3. ASSUME NEW t \in Threads, LeaseAgain(t), UNCHANGED loop PROVE HandlerInv'
  <2>1. /\ ~Owes(t) /\ ~Owes(t)'
        /\ \A u \in Threads \ {t} : call'[u] = call[u]
    BY <1>0, <1>3, GoesOrReturns DEF LeaseAgain, CallSteps
  <2>2. QED
    BY <1>3, <2>1 DEF LeaseAgain
<1>4. ASSUME NEW t \in Threads, SetHandler(t), UNCHANGED loop PROVE HandlerInv'
  <2>1. /\ ~Owes(t) /\ ~Owes(t)'
        /\ \A u \in Threads \ {t} : call'[u] = call[u]
    BY <1>0, <1>4, NoCallIsCall, Enters DEF SetHandler, Returns
  <2>2. UNCHANGED <<loop, live, life_vars, ran, released>>
    BY <1>4 DEF SetHandler
  <2>3. CASE UNCHANGED <<registered, stored, told>>
    BY <2>1, <2>2, <2>3
  <2>4. CASE ~registered /\ registered' = TRUE /\ told' = (cancelled /\ ~completed)
             /\ stored' = ~told'
    <3>1. /\ ran = 0 /\ released = 0 /\ \A u \in Threads : ~Owes(u)
          /\ loop = "destroyed" => cancelled
      BY <2>4 DEF AnswerInv, CancelPlaces
    <3>2. \A u \in Threads : ~Owes(u)'
      BY <2>1, <3>1
    <3>3. told' \in BOOLEAN /\ (stored' <=> ~told') /\ (told' <=> cancelled /\ ~completed)
      BY <2>4
    <3>4. QED
      BY <2>2, <2>4, <3>1, <3>2, <3>3
  <2>5. QED
    BY <1>4, <2>3, <2>4 DEF SetHandler
<1>5. ASSUME NEW t \in Threads, Release(t), UNCHANGED loop PROVE HandlerInv'
  <2>1. /\ ~Owes(t) /\ ~Owes(t)'
        /\ \A u \in Threads \ {t} : call'[u] = call[u]
    BY <1>0, <1>5, GoesOn DEF Release, CallSteps
  <2>2. /\ UNCHANGED <<loop, cancelled, registered, stored, ran, released, told>>
        /\ UNCHANGED completed \/ (~cancelled /\ completed' = TRUE)
    BY <1>5 DEF Release, FailLocked, Schedule
  <2>3. QED
    BY <2>1, <2>2, HandlerStays
<1>6. ASSUME NEW t \in Threads, LeaseToRetire(t), UNCHANGED loop PROVE HandlerInv'
  <2>1. /\ ~Owes(t) /\ ~Owes(t)'
        /\ \A u \in Threads \ {t} : call'[u] = call[u]
    BY <1>0, <1>6, GoesOrReturns DEF LeaseToRetire, CallSteps
  <2>2. QED
    BY <1>6, <2>1 DEF LeaseToRetire
<1>7. ASSUME NEW t \in Threads, Retire(t), UNCHANGED loop PROVE HandlerInv'
  <2>1. /\ ~Owes(t) /\ (Owes(t)' <=> stored)
        /\ \A u \in Threads \ {t} : call'[u] = call[u]
    <3>1. ~Owes(t) /\ (running => ~stored)
      BY <1>7 DEF Retire, LifeInv
    <3>2. Owes(t)' <=> stored
      BY <1>0, <1>7, <3>1, RetireMoves, NoCallIsCall DEF Waits
    <3>3. QED
      BY <1>0, <1>7, <3>1, <3>2, RetireMoves
  <2>2. /\ UNCHANGED <<loop, completed, cancelled, registered, ran, released, told>>
        /\ stored' = FALSE /\ (stored => registered)
    BY <1>7 DEF Retire, LifeInv
  <2>3. CASE stored
    BY <2>1, <2>2, <2>3
  <2>4. CASE ~stored
    BY <2>1, <2>2, <2>4
  <2>5. QED
    BY <2>3, <2>4
<1>8. ASSUME NEW t \in Threads, Settle(t), UNCHANGED loop PROVE HandlerInv'
  <2>1. /\ ~Owes(t)' /\ (Owes(t) <=> call[t].owes)
        /\ \A u \in Threads \ {t} : call'[u] = call[u]
    BY <1>0, <1>8, GoesOn DEF Settle, CallSteps
  <2>2. UNCHANGED <<loop, completed, cancelled, registered, stored, ran, told>>
    BY <1>8 DEF Settle
  <2>3. CASE Owes(t)
    <3>1. released = 0
      BY <2>3
    <3>2. released' = 0 + 1
      BY <1>8, <2>1, <2>3, <3>1 DEF Settle
    <3>3. released' = 1
      BY ONLY <3>2
    <3>4. \A u \in Threads : ~Owes(u)'
      BY <2>1, <2>3
    <3>5. /\ loop # "cancel callback" /\ registered /\ ~stored /\ ~told /\ ran = 0
      BY <1>8, <2>3 DEF LifeInv, Settle
    <3>6. QED
      BY <2>2, <3>3, <3>4, <3>5
  <2>4. CASE ~Owes(t)
    <3>1. released' = released + 0 /\ (released = 0 \/ released = 1)
      BY <1>8, <2>1, <2>4 DEF Settle
    <3>2. released' = released
      BY ONLY <3>1
    <3>3. QED
      BY <2>1, <2>2, <2>4, <3>2
  <2>5. QED
    BY <2>3, <2>4
<1>9. ASSUME NEW t \in Threads, Remove(t), UNCHANGED loop PROVE HandlerInv'
  <2>1. /\ ~Owes(t) /\ ~Owes(t)'
        /\ \A u \in Threads \ {t} : call'[u] = call[u]
    BY <1>0, <1>9, NoCallIsCall, Enters DEF Remove, Returns
  <2>2. QED
    BY <1>9, <2>1 DEF Remove
<1>10. CASE FailRequest
  <2>1. /\ ~Owes(Loop) /\ ~Owes(Loop)'
        /\ \A u \in Threads \ {Loop} : call'[u] = call[u]
    BY <1>0, <1>10, CallBegins, NoCallIsCall DEF FailRequest, Free, CallSteps, Ops, Threads
  <2>2. /\ UNCHANGED <<cancelled, registered, stored, ran, released, told>>
        /\ loop' = "waiting" /\ loop = "failing"
        /\ UNCHANGED completed \/ (~cancelled /\ completed' = TRUE)
    BY <1>10 DEF FailRequest, Free, LoopGoes, FailLocked, Schedule
  <2>3. QED
    BY <2>1, <2>2, HandlerStays DEF Threads
<1>11. CASE Create
  BY <1>11 DEF Create, Free, LoopGoes
<1>12. CASE Invoke
  BY <1>12 DEF Invoke, Free, LoopGoes
<1>13. CASE Decided
  <2>1. /\ UNCHANGED <<call, cancelled, registered, stored, ran, released, told>>
        /\ loop' \in {"waiting", "failing"} /\ loop = "callback"
        /\ UNCHANGED completed \/ (~cancelled /\ completed' = TRUE)
    BY <1>13 DEF Decided, Free, LoopGoes, FailLocked, Schedule
  <2>2. QED
    BY <2>1, HandlerStays
<1>14. CASE Drain
  BY <1>14 DEF Drain, Free, LoopGoes
<1>15. CASE Deliver
  BY <1>15 DEF Deliver, Free, LoopGoes
<1>16. CASE Destroy
  BY <1>16 DEF Destroy, Free, LoopGoes
<1>17. CASE RunCancel
  <2>1. UNCHANGED <<call, completed, cancelled, registered, released, told>> /\ cancelled
    BY <1>17 DEF RunCancel, Free, AnswerInv, CancelPlaces
  <2>2. CASE RunsCallback
    <3>1. /\ ~completed /\ stored /\ stored' = FALSE /\ registered
          /\ ran = 0 /\ ran' = ran + 1 /\ loop' = "cancel callback"
      BY <1>17, <2>2 DEF RunCancel, RunsCallback, LoopGoes, LifeInv
    <3>2. ran' = 1
      <4>1. ran = 0 /\ ran' = ran + 1
        BY <3>1
      <4>2. QED
        BY ONLY <4>1
    <3>3. \A u \in Threads : ~Owes(u)'
      BY <2>1, <3>1
    <3>4. QED
      BY <2>1, <3>1, <3>2, <3>3
  <2>3. CASE ~RunsCallback
    <3>1. /\ loop = "cancelling" /\ loop' = "destroyed" /\ UNCHANGED <<stored, ran>>
          /\ completed \/ ~stored
      BY <1>17, <2>3 DEF RunCancel, RunsCallback, LoopGoes, Free
    <3>2. QED
      BY <2>1, <3>1
  <2>4. QED
    BY <2>2, <2>3
<1>18. CASE CancelReturns
  <2>1. /\ UNCHANGED <<call, completed, cancelled, registered, stored, ran, told>>
        /\ loop = "cancel callback" /\ loop' = "unmarking"
        /\ released' = released + 1
    BY <1>18 DEF CancelReturns, Free, LoopGoes
  <2>a. ran = 1 /\ released = 0 /\ registered /\ ~completed /\ cancelled
    <3>1. ran = 1 /\ released = 0
      BY <2>1
    <3>2. ran # 0
      BY ONLY <3>1
    <3>3. QED
      BY <3>1, <3>2
  <2>b. ~stored /\ ~told /\ \A u \in Threads : ~Owes(u)
    <3>1. ran # 0
      BY ONLY <2>a
    <3>2. QED
      BY <3>1
  <2>2. released' = 1
    <3>1. released = 0 /\ released' = released + 1
      BY <2>1, <2>a
    <3>2. QED
      BY ONLY <3>1
  <2>3. \A u \in Threads : ~Owes(u)'
    BY <2>1, <2>b
  <2>4. QED
    BY <2>1, <2>2, <2>3, <2>a, <2>b
<1>19. CASE Unmark
  <2>1. /\ UNCHANGED <<call, completed, cancelled, registered, stored, ran, released, told>>
        /\ loop = "unmarking" /\ loop' \in {"removing", "destroyed"}
    BY <1>19 DEF Unmark, Free, LoopGoes
  <2>2. ~stored
    BY <2>1 DEF LifeInv
  <2>3. QED
    BY <2>1, <2>2
<1>20. CASE CancelRemoves
  BY <1>20 DEF CancelRemoves, Free, LoopGoes, LifeInv
<1>21. CASE UNCHANGED vars
  BY <1>21 DEF vars
<1>22. QED
  BY <1>1, <1>2, <1>3, <1>4, <1>5, <1>6, <1>7, <1>8, <1>9, <1>10, <1>11, <1>12,
     <1>13, <1>14, <1>15, <1>16, <1>17, <1>18, <1>19, <1>20, <1>21
  DEF Next, CallStep, LoopStep

LEMMA InitInvariant == Init => IInv
<1> SUFFICES ASSUME Init PROVE IInv
  OBVIOUS
<1>1. \A t \in Threads : call[t] = NoCall /\ ~HasRetired(t) /\ ~Releasing(t) /\ ~Owes(t)
  BY NoCallIsCall DEF Init, HasRetired, Releasing, Owes
<1>2. LifeInv
  BY <1>1, NoCallIsCall DEF Init, LifeInv
<1>3. AnswerInv
  BY <1>1 DEF Init, AnswerInv, CancelPlaces
<1>4. HandlerInv
  BY <1>1 DEF Init, HandlerInv
<1>5. QED
  BY <1>2, <1>3, <1>4 DEF IInv

(* The three parts of the invariant hold together.                         *)
THEOREM Invariance == Spec => []IInv
<1>1. Init => IInv
  BY InitInvariant
<1>2. IInv /\ [Next]_vars => IInv'
  BY LifeStep, AnswerStep, HandlerStep DEF IInv
<1>3. QED
  BY <1>1, <1>2, PTL DEF Spec

(* Whatever answers, releases and the destruction race, a request is       *)
(* decided once at most, only while its requester exists, and by the time  *)
(* its handle is gone and the provider has returned.                       *)
THEOREM OneDecision == Spec => []DecidedOnce
<1>1. IInv => DecidedOnce
  <2> SUFFICES ASSUME IInv PROVE DecidedOnce
    OBVIOUS
  <2>1. answers = 0 \/ answers = 1
    BY DEF IInv, AnswerInv
  <2>2. answers <= 1
    BY ONLY <2>1
  <2>3. ~live /\ loop = "waiting" => answers = 1
    <3> SUFFICES ASSUME ~live, loop = "waiting" PROVE answers = 1
      OBVIOUS
    <3>1. retired
      BY DEF IInv, LifeInv
    <3>2. ~cancelled
      BY DEF IInv, AnswerInv, CancelPlaces
    <3>3. QED
      BY <3>1, <3>2 DEF IInv, AnswerInv
  <2>4. QED
    BY <2>2, <2>3 DEF DecidedOnce, IInv, AnswerInv
<1>2. QED
  BY <1>1, Invariance, PTL

(* The cancel handler of a request runs at most once and its user data     *)
(* goes back at most once, after the handler has run or instead of it; it  *)
(* has gone back when the handle is gone and no call is on its way.        *)
THEOREM HandlerSettled == Spec => []HandlerSettledOnce
<1>1. IInv => HandlerSettledOnce
  <2> SUFFICES ASSUME IInv PROVE HandlerSettledOnce
    OBVIOUS
  <2>1. /\ ran = 0 \/ (ran = 1 /\ ~completed)
        /\ released = 0 \/ released = 1
        /\ ~completed => answers = 0
    BY DEF IInv, HandlerInv, AnswerInv
  <2>2. ran <= 1 /\ released <= 1 /\ (ran = 1 => answers = 0)
    BY ONLY <2>1
  <2>3. ASSUME ~live, registered, \A t \in Threads : call[t].step # "settle"
        PROVE  told \/ released = 1
    <3>1. ~stored /\ loop # "cancel callback"
      BY <2>3 DEF IInv, LifeInv
    <3>2. \A t \in Threads : ~Owes(t)
      BY <2>3 DEF Owes
    <3>3. QED
      BY <2>3, <3>1, <3>2 DEF IInv, HandlerInv
  <2>4. QED
    BY <2>2, <2>3 DEF HandlerSettledOnce, IInv, HandlerInv
<1>2. QED
  BY <1>1, Invariance, PTL

(* While the cancel callback runs, no release takes the handle that it     *)
(* borrows out of the table.                                               *)
THEOREM HandleKept == Spec => []HandleOutlivesCallback
<1>1. IInv => HandleOutlivesCallback
  BY DEF IInv, LifeInv, HandleOutlivesCallback
<1>2. QED
  BY <1>1, Invariance, PTL
=============================================================================
