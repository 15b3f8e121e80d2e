---------------------------- MODULE ControlState ----------------------------
(***************************************************************************)
(* One ControlState shared by the threads of a host and of the library:    *)
(* submitters that take leases, children that retain their parent, and     *)
(* callers of release or dispose that race to close the handle.  Each      *)
(* locked section is one action; a drained callback runs in a step of its  *)
(* own, because it runs outside the lock.                                  *)
(***************************************************************************)
EXTENDS Control, FiniteSets

CONSTANTS Leases,    (* Submissions that may hold a lease.                 *)
          Children,  (* Child handles that may retain this one.            *)
          Closers    (* Threads that call release or dispose.              *)

ASSUME PartsAssumption == Leases \intersect Children = {}

VARIABLES
  control,   (* The record behind the mutex.                               *)
  held,      (* The leases and the children that count in it.              *)
  closer,    (* Where each closing thread is.                              *)
  taken,     (* The callbacks that threads took and are about to run.      *)
  runs       (* How often the drained callback has run.                    *)

vars == <<control, held, closer, taken, runs>>

Init ==
  /\ control = NewControl
  /\ held = {}
  /\ closer = [t \in Closers |-> "idle"]
  /\ taken = 0
  /\ runs = 0

(* acquire(): its caller keeps the lease in a ControlLease.                *)
Acquire(lease) ==
  /\ lease \notin held
  /\ CanAcquire(control)
  /\ control' = Acquired(control)
  /\ held' = held \union {lease}
  /\ UNCHANGED <<closer, taken, runs>>

RetainChild(child) ==
  /\ child \notin held
  /\ CanAcquire(control)
  /\ control' = ChildRetained(control)
  /\ held' = held \union {child}
  /\ UNCHANGED <<closer, taken, runs>>

(* release_count(): ~ControlLease and release_child().                     *)
Release(holder) ==
  LET child == holder \in Children
  IN  /\ holder \in held
      /\ control' = Retired(control, child)
      /\ taken' = IF TakesCallback(control, child) THEN taken + 1 ELSE taken
      /\ held' = held \ {holder}
      /\ UNCHANGED <<closer, runs>>

BeginClose(t) ==
  /\ closer[t] = "idle"
  /\ \E defer_children \in BOOLEAN :
       IF CanClose(control, defer_children)
       THEN /\ control' = Closed(control)
            /\ closer' = [closer EXCEPT ![t] = "closing"]
       ELSE UNCHANGED <<control, closer>>    \* INVALID_STATE
  /\ UNCHANGED <<held, taken, runs>>

(* The locked half of notify_when_drained().                               *)
NotifyWhenDrained(t) ==
  /\ closer[t] = "closing"
  /\ control' = Notified(control)
  /\ taken' = IF IsDrained(control) THEN taken + 1 ELSE taken
  /\ closer' = [closer EXCEPT ![t] = "notified"]
  /\ UNCHANGED <<held, runs>>

RunCallback ==
  /\ taken > 0
  /\ taken' = taken - 1
  /\ runs' = runs + 1
  /\ UNCHANGED <<control, held, closer>>

Next ==
  \/ \E lease \in Leases : Acquire(lease)
  \/ \E child \in Children : RetainChild(child)
  \/ \E holder \in Leases \union Children : Release(holder)
  \/ \E t \in Closers : BeginClose(t) \/ NotifyWhenDrained(t)
  \/ RunCallback

(* Every lease is released and every child retires in the end (operations  *)
(* finish, and hosts dispose what they own); a thread that has entered     *)
(* notify_when_drained() or taken a callback goes on.                      *)
Fairness ==
  /\ \A holder \in Leases \union Children : WF_vars(Release(holder))
  /\ \A t \in Closers : WF_vars(NotifyWhenDrained(t))
  /\ WF_vars(RunCallback)

Safety == Init /\ [][Next]_vars
Spec   == Safety /\ Fairness
-----------------------------------------------------------------------------
Closing == \E t \in Closers : closer[t] # "idle"

TypeOK ==
  /\ control \in ControlRecord
  /\ held \subseteq Leases \union Children
  /\ IsFiniteSet(held)
  /\ closer \in [Closers -> {"idle", "closing", "notified"}]
  /\ taken \in Nat
  /\ runs \in Nat

(* The two counts are exact, so neither can wrap below zero: the assert in *)
(* release_count() never fires.                                            *)
CountsAreExact ==
  /\ control.submissions = Cardinality(held \intersect Leases)
  /\ control.children = Cardinality(held \intersect Children)

(* Only one of the racing closers wins.                                    *)
OneCloser ==
  /\ control.closing <=> Closing
  /\ \A t, u \in Closers : closer[t] # "idle" /\ closer[u] # "idle" => t = u

(* The callback that tears the handle down is taken by one thread, once,   *)
(* and from then on nobody holds the handle: the teardown that runs        *)
(* outside the lock never meets a lease or a child.                        *)
DrainedOnceAndEmpty ==
  /\ taken + runs <= 1
  /\ taken + runs > 0 => control.closing /\ held = {}

(* A callback that waits to be taken is never left behind: it is stored    *)
(* exactly while the closer has asked and somebody still holds the handle. *)
NoLostCallback ==
  (\E t \in Closers : closer[t] = "notified") =>
    /\ control.armed <=> taken + runs = 0
    /\ held = {} => taken + runs = 1

IInv ==
  /\ TypeOK
  /\ CountsAreExact
  /\ OneCloser
  /\ DrainedOnceAndEmpty
  /\ NoLostCallback
  /\ control.armed \/ taken + runs > 0 => \E t \in Closers : closer[t] = "notified"

(* The implementation of the contract: a control drains when the callback  *)
(* runs.                                                                   *)
Contract == INSTANCE DrainContract
            WITH Holders <- Leases \union Children,
                 holders <- held,
                 open    <- ~control.closing,
                 drained <- (runs > 0)

ImplementsContract == Contract!Spec
ImplementsContractSafety == Contract!Safety
=============================================================================
