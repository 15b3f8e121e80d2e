--------------------------- MODULE ResourceRequest ---------------------------
(***************************************************************************)
(* One network request that a resource provider of the host serves in      *)
(* place of the library (src/src/resources/custom_resource_provider.cpp).  *)
(* The loop that requested it runs the provider's callback, delivers the   *)
(* answer and may destroy the request at any time after; threads of the    *)
(* host answer it, hand it back, watch for its cancellation and release    *)
(* it, several of them at once.  Each section under the request's mutex,   *)
(* each access to the handle table and each call of host code is one       *)
(* action.                                                                 *)
(***************************************************************************)
EXTENDS Naturals, FiniteSets

CONSTANTS Hosts,   (* Threads of the host.                                 *)
          Loop     (* The requesting thread, which also runs callbacks.    *)

ASSUME ThreadAssumption == Loop \notin Hosts

VARIABLES
  loop,                       (* Where the requesting thread is.           *)
  live,                       (* The handle is in the table.               *)
  cancelled, completed, retired,
  deciding, claimed, released_while_deciding,
  registered,                 (* cancel_callback_registered.               *)
  stored,                     (* cancel_callback and its user data are set. *)
  running,                    (* cancel_callback_running.                  *)
  remove_after,               (* remove_after_cancel_callback.             *)
  pending,                    (* The decision that wakes the loop.         *)
  mail,                       (* A response is in the request's mailbox.   *)
  native,                     (* MapLibre loads the request itself.        *)
  call,                       (* The call that each thread is in.          *)
  answers, delivered,         (* History: decisions; what reached MapLibre. *)
  ran, released, told         (* History: the cancel handler's callbacks   *)
                              (* and releases; out_cancelled was true.     *)

life_vars    == <<cancelled, completed, retired>>
decide_vars  == <<deciding, claimed, released_while_deciding>>
handler_vars == <<registered, stored, running, remove_after>>
loader_vars  == <<pending, mail, native>>
cancel_vars  == <<ran, released, told>>
vars == <<loop, live, life_vars, decide_vars, handler_vars, loader_vars, call,
          answers, delivered, cancel_vars>>

Threads == Hosts \union {Loop}
InCall(op, step) == [op |-> op, step |-> step, owes |-> FALSE]
NoCall == InCall("none", "idle")

Init ==
  /\ loop = "start" /\ live = FALSE
  /\ cancelled = FALSE /\ completed = FALSE /\ retired = FALSE
  /\ deciding = FALSE /\ claimed = FALSE /\ released_while_deciding = FALSE
  /\ registered = FALSE /\ stored = FALSE /\ running = FALSE /\ remove_after = FALSE
  /\ pending = "none" /\ mail = FALSE /\ native = FALSE
  /\ call = [t \in Threads |-> NoCall]
  /\ answers = 0 /\ delivered = {}
  /\ ran = 0 /\ released = 0 /\ told = FALSE

At(t, op, step) == call[t].op = op /\ call[t].step = step
Goes(t, step)   == call' = [call EXCEPT ![t].step = step]
Returns(t)      == call' = [call EXCEPT ![t] = NoCall]
-----------------------------------------------------------------------------
(* ProviderRequest::schedule(), under the request's mutex.                 *)
Schedule(decision) ==
  /\ pending' = decision
  /\ completed' = TRUE
  /\ answers' = answers + 1

(* fail_locked().                                                          *)
FailLocked ==
  IF completed \/ cancelled
  THEN UNCHANGED <<pending, completed, answers>>
  ELSE Schedule("failure")
-----------------------------------------------------------------------------
(* A host thread may make any call once the provider has the handle, and   *)
(* the requesting thread may from inside a callback.  It leases the handle *)
(* first; a call on a handle that is gone changes nothing.                 *)
Ops == {"complete", "pass", "set", "release"}

InCallback == loop \in {"callback", "cancel callback"}

Call(t) ==
  /\ call[t] = NoCall
  /\ live
  /\ IF t = Loop THEN InCallback ELSE loop \notin {"start", "created"}
  /\ \E op \in Ops : call' = [call EXCEPT ![t] = InCall(op, "leased")]
  /\ UNCHANGED <<live, life_vars, decide_vars, handler_vars, loader_vars, answers,
                 delivered, cancel_vars>>

TakesAnswer == ~retired /\ ~completed /\ ~cancelled

(* complete_resource_request() posts the response, and                     *)
(* pass_through_resource_request() hands the request back.  A refused      *)
(* answer, or a post that throws, goes on as a release.                    *)
Answer(t) ==
  /\ \E op \in {"complete", "pass"} : At(t, op, "leased")
  /\ \/ /\ TakesAnswer /\ call[t].op = "complete"
        /\ mail' = TRUE /\ completed' = TRUE /\ answers' = answers + 1
        /\ Goes(t, "retire")
        /\ UNCHANGED pending
     \/ /\ TakesAnswer /\ call[t].op = "pass"
        /\ Schedule("pass")
        /\ Goes(t, "retire")
        /\ UNCHANGED mail
     \/ /\ ~TakesAnswer \/ call[t].op = "complete"
        /\ call' = [call EXCEPT ![t] = InCall("release", "failed")]
        /\ UNCHANGED <<mail, pending, completed, answers>>
  /\ UNCHANGED <<live, cancelled, retired, decide_vars, handler_vars, native, delivered,
                 cancel_vars>>

LeaseAgain(t) ==
  /\ At(t, "release", "failed")
  /\ IF live THEN Goes(t, "leased") ELSE Returns(t)
  /\ UNCHANGED <<live, life_vars, decide_vars, handler_vars, loader_vars, answers,
                 delivered, cancel_vars>>

(* set_resource_request_cancel_callback().                                 *)
SetHandler(t) ==
  /\ At(t, "set", "leased")
  /\ IF retired \/ registered
     THEN UNCHANGED <<registered, stored, told>>
     ELSE /\ registered' = TRUE
          /\ told' = (cancelled /\ ~completed)
          /\ stored' = ~told'
  /\ Returns(t)
  /\ UNCHANGED <<live, life_vars, decide_vars, running, remove_after, loader_vars, answers,
                 delivered, ran, released>>

(* A mutant: a release during the provider's callback leaves no trace.     *)
NotesNoRelease == FALSE

NotesRelease == deciding

(* release_resource_request().                                             *)
Release(t) ==
  /\ At(t, "release", "leased")
  /\ \/ ~retired /\ claimed /\ FailLocked /\ UNCHANGED released_while_deciding
     \/ /\ retired \/ ~claimed
        /\ released_while_deciding' =
             (released_while_deciding \/ (~retired /\ NotesRelease))
        /\ UNCHANGED <<pending, completed, answers>>
  /\ Goes(t, "retire")
  /\ UNCHANGED <<live, cancelled, retired, deciding, claimed, handler_vars, mail, native,
                 delivered, cancel_vars>>
-----------------------------------------------------------------------------
(* retire_request(): lease the handle once more ...                        *)
LeaseToRetire(t) ==
  /\ call[t].step = "retire"
  /\ IF live THEN Goes(t, "retiring") ELSE Returns(t)
  /\ UNCHANGED <<live, life_vars, decide_vars, handler_vars, loader_vars, answers,
                 delivered, cancel_vars>>

(* Mutants: a release does not wait for the callback, and the callback's   *)
(* own release waits for itself.                                           *)
WaitsNever(t)  == FALSE
WaitsAlways(t) == running

Waits(t) == running /\ t # Loop

(* ... take the handler that never ran, and wait for one that runs; the    *)
(* callback's own release leaves the handle to the callback's end ...      *)
Retire(t) ==
  /\ call[t].step = "retiring"
  /\ retired' = TRUE
  /\ stored' = FALSE
  /\ IF running /\ t = Loop /\ ~Waits(t)
     THEN remove_after' = TRUE /\ Returns(t)
     ELSE /\ call' = [call EXCEPT ![t] =
              [op |-> @.op, step |-> IF Waits(t) THEN "wait" ELSE "settle", owes |-> stored]]
          /\ UNCHANGED remove_after
  /\ UNCHANGED <<live, cancelled, completed, decide_vars, registered, running, loader_vars,
                 answers, delivered, cancel_vars>>

(* ... then release its user data, and remove the handle.                  *)
Settle(t) ==
  /\ call[t].step \in {"wait", "settle"}
  /\ call[t].step = "wait" => ~running
  /\ released' = released + (IF call[t].owes THEN 1 ELSE 0)
  /\ Goes(t, "remove")
  /\ UNCHANGED <<live, life_vars, decide_vars, handler_vars, loader_vars, answers,
                 delivered, ran, told>>

Remove(t) ==
  /\ call[t].step = "remove"
  /\ live' = FALSE
  /\ Returns(t)
  /\ UNCHANGED <<life_vars, decide_vars, handler_vars, loader_vars, answers, delivered,
                 cancel_vars>>
-----------------------------------------------------------------------------
(* request_custom_resource() and invoke_custom_provider(), on the loop.    *)
Free(at) == loop = at /\ call[Loop] = NoCall
LoopGoes(to) == loop' = to

Create ==
  /\ Free("start") /\ LoopGoes("created")
  /\ live' = TRUE
  /\ UNCHANGED <<life_vars, decide_vars, handler_vars, loader_vars, call, answers,
                 delivered, cancel_vars>>

Invoke ==
  /\ Free("created")
  /\ \/ LoopGoes("callback") /\ deciding' = TRUE
     \/ LoopGoes("failing") /\ UNCHANGED deciding          \* Out of memory
  /\ UNCHANGED <<live, life_vars, claimed, released_while_deciding, handler_vars,
                 loader_vars, call, answers, delivered, cancel_vars>>

EndsDeciding == deciding' = FALSE

(* The provider returns, or throws.                                        *)
Decided ==
  /\ Free("callback")
  /\ \/ /\ LoopGoes("waiting")
        /\ EndsDeciding /\ claimed' = TRUE
        /\ IF released_while_deciding THEN FailLocked
                                      ELSE UNCHANGED <<pending, completed, answers>>
     \/ LoopGoes("failing") /\ UNCHANGED <<deciding, claimed, pending, completed, answers>>
  /\ UNCHANGED <<live, cancelled, retired, released_while_deciding, handler_vars, mail,
                 native, call, delivered, cancel_vars>>

(* fail_request().                                                         *)
FailRequest ==
  /\ Free("failing") /\ LoopGoes("waiting")
  /\ EndsDeciding
  /\ FailLocked
  /\ call' = [call EXCEPT ![Loop] = InCall("release", "retire")]
  /\ UNCHANGED <<live, cancelled, retired, claimed, released_while_deciding, handler_vars,
                 mail, native, delivered, cancel_vars>>

(* ProviderRequest::drain(), which starts MapLibre's own request or        *)
(* delivers the failure ...                                                *)
Drain ==
  /\ Free("waiting") /\ pending # "none"
  /\ pending' = "none"
  /\ \/ pending = "pass" /\ native' = TRUE /\ UNCHANGED delivered
     \/ delivered' = delivered \union {"failure"} /\ UNCHANGED native
  /\ UNCHANGED <<loop, live, life_vars, decide_vars, handler_vars, mail, call, answers,
                 cancel_vars>>

(* ... and FileSourceRequest::setResponse().                               *)
Deliver ==
  /\ Free("waiting")
  /\ \/ mail /\ mail' = FALSE /\ delivered' = delivered \union {"response"}
     \/ native /\ delivered' = delivered \union {"native"} /\ UNCHANGED mail
  /\ UNCHANGED <<loop, live, life_vars, decide_vars, handler_vars, pending, native, call,
                 answers, cancel_vars>>
-----------------------------------------------------------------------------
(* MapLibre destroys the request, answered or not: ~ProviderRequest() cuts *)
(* the loader off, and its members take the wake, the native request and   *)
(* the mailbox with them ...                                               *)
Destroy ==
  /\ Free("waiting") /\ LoopGoes("cancelling")
  /\ cancelled' = TRUE
  /\ pending' = "none" /\ mail' = FALSE /\ native' = FALSE
  /\ UNCHANGED <<live, completed, retired, decide_vars, handler_vars, call, answers,
                 delivered, cancel_vars>>

(* A mutant: the callback runs for an answered request.                    *)
RunsCallbackAnyway == stored

RunsCallback == ~completed /\ stored

(* ... and then runs the cancel callback (run_cancel_callback()) ...       *)
RunCancel ==
  /\ Free("cancelling")
  /\ IF RunsCallback
     THEN LoopGoes("cancel callback") /\ stored' = FALSE /\ running' = TRUE /\ ran' = ran + 1
     ELSE LoopGoes("destroyed") /\ UNCHANGED <<stored, running, ran>>
  /\ UNCHANGED <<live, life_vars, decide_vars, registered, remove_after, loader_vars, call,
                 answers, delivered, released, told>>

(* ... releases the handler's user data ...                                *)
CancelReturns ==
  /\ Free("cancel callback") /\ LoopGoes("unmarking")
  /\ released' = released + 1
  /\ UNCHANGED <<live, life_vars, decide_vars, handler_vars, loader_vars, call, answers,
                 delivered, ran, told>>

(* ... and lets the threads go on that wait for it.                        *)
Unmark ==
  /\ Free("unmarking")
  /\ running' = FALSE /\ remove_after' = FALSE
  /\ LoopGoes(IF remove_after THEN "removing" ELSE "destroyed")
  /\ UNCHANGED <<live, life_vars, decide_vars, registered, stored, loader_vars, call,
                 answers, delivered, cancel_vars>>

CancelRemoves ==
  /\ Free("removing") /\ LoopGoes("destroyed")
  /\ live' = FALSE
  /\ UNCHANGED <<life_vars, decide_vars, handler_vars, loader_vars, call, answers,
                 delivered, cancel_vars>>
-----------------------------------------------------------------------------
CallStep(t) ==
  /\ \/ Answer(t) \/ LeaseAgain(t) \/ SetHandler(t) \/ Release(t)
     \/ LeaseToRetire(t) \/ Retire(t) \/ Settle(t) \/ Remove(t)
  /\ UNCHANGED loop

LoopStep ==
  \/ Create \/ Invoke \/ Decided \/ FailRequest \/ Drain
  \/ RunCancel \/ CancelReturns \/ Unmark \/ CancelRemoves

Next ==
  \/ \E t \in Threads : (Call(t) /\ UNCHANGED loop) \/ CallStep(t)
  \/ LoopStep \/ Deliver \/ Destroy

(* Threads go on with what they began, and the loop handles its messages.  *)
(* The host's callbacks return, however often they call back before.       *)
(* Nobody has to answer, and MapLibre may keep a request for ever.         *)
Fairness ==
  /\ \A t \in Threads : WF_vars(CallStep(t))
  /\ WF_vars(LoopStep)
  /\ SF_vars(Decided) /\ SF_vars(CancelReturns)
  /\ WF_vars(mail /\ Deliver)

Spec == Init /\ [][Next]_vars /\ Fairness
-----------------------------------------------------------------------------
TypeOK ==
  /\ loop \in {"start", "created", "callback", "failing", "waiting", "cancelling",
               "cancel callback", "unmarking", "removing", "destroyed"}
  /\ {live, cancelled, completed, retired, deciding, claimed, released_while_deciding,
      registered, stored, running, remove_after, mail, native, told} \subseteq BOOLEAN
  /\ deciding => loop \in {"callback", "failing"}
  /\ running <=> loop \in {"cancel callback", "unmarking"}
  /\ pending \in {"none", "pass", "failure"}
  /\ call \in [Threads -> [op : Ops \union {"none"},
                           step : {"idle", "leased", "failed", "retire", "retiring", "wait",
                                   "settle", "remove"},
                           owes : BOOLEAN]]
  /\ {answers, ran, released} \subseteq Nat
  /\ delivered \subseteq {"response", "native", "failure"}

(* The requester gets one answer, whatever races: a request is decided at  *)
(* most once and only while the loader that the decision goes to exists.   *)
(* "A request released without an answer fails" (runtime.h): once its      *)
(* handle is gone and the provider has returned, a request that MapLibre   *)
(* still wants has been decided, even when the provider released it from   *)
(* inside its callback, and then threw.                                    *)
DecidedOnce ==
  /\ answers <= 1
  /\ pending # "none" \/ mail \/ native => loop \in {"callback", "failing", "waiting"}
  /\ ~live /\ loop = "waiting" => answers = 1

(* set_resource_request_cancel_callback(): the handler runs at most once,  *)
(* and never for an answered request; its user data is released at most    *)
(* once, never when the call reported the cancellation, and not before the *)
(* callback has returned.  When the handle is gone and nobody is inside a  *)
(* call, it has been released.  A cancellation is never missed: the        *)
(* handler of a request that was destroyed unanswered has run, unless a    *)
(* release took it.                                                        *)
HandlerSettledOnce ==
  /\ ran <= 1 /\ released <= 1
  /\ ran = 1 => answers = 0
  /\ told => ran = 0 /\ released = 0
  /\ loop = "cancel callback" => released = 0
  /\ ~live /\ registered /\ (\A t \in Threads : call[t].step # "settle") =>
       told \/ released = 1
  /\ loop = "destroyed" /\ stored => completed

(* retire_request(): a release on another thread waits for the callback.   *)
(* While the callback runs, the handle that it borrows stays in the table. *)
HandleOutlivesCallback ==
  loop \in {"cancel callback", "unmarking"} => live

(* An accepted answer reaches MapLibre, unless it destroys the request     *)
(* first; and a release returns, the cancel callback's own included.       *)
RequestsEnd ==
  /\ completed ~> delivered # {} \/ native \/ cancelled
  /\ \A t \in Threads : call[t].step # "idle" ~> call[t].step = "idle"
=============================================================================
