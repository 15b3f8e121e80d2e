------------------------------- MODULE Control -------------------------------
(***************************************************************************)
(* The record that ControlState (src/src/execution/control_state.hpp)      *)
(* guards with its mutex, and its operations as functions from the record  *)
(* before a locked section to the record after it.  A control counts the   *)
(* submission leases and the children of one handle; a closing handle      *)
(* reports through a callback when both have retired.                      *)
(***************************************************************************)
EXTENDS Integers

(* `armed`: a drained_callback_ is stored.                                 *)
ControlRecord == [submissions : Nat, children : Nat,
                  closing : BOOLEAN, armed : BOOLEAN]

NewControl == [submissions |-> 0, children |-> 0,
               closing |-> FALSE, armed |-> FALSE]

(* A mutant: the children are forgotten.                                   *)
IsDrainedOfLeases(c) == c.closing /\ c.submissions = 0

IsDrained(c) == c.closing /\ c.submissions = 0 /\ c.children = 0

(* Mutants: acquire() without its check, and a child counted as a lease.   *)
CanAlwaysAcquire(c) == TRUE
RetainedAsLease(c)  == [c EXCEPT !.submissions = @ + 1]

(* acquire() and retain_child() refuse a closing handle.                   *)
CanAcquire(c)    == ~c.closing
Acquired(c)      == [c EXCEPT !.submissions = @ + 1]
ChildRetained(c) == [c EXCEPT !.children = @ + 1]

(* begin_close(defer_children) refuses a second close, and unless children *)
(* are deferred a handle that still has any.                               *)
CanClose(c, defer_children) == ~c.closing /\ (defer_children \/ c.children = 0)
Closed(c)                   == [c EXCEPT !.closing = TRUE]

(* A mutant: the callback is stored although it runs at once.              *)
NotifiedAlways(c) == [c EXCEPT !.armed = TRUE]

(* notify_when_drained() stores the callback unless the handle has drained *)
(* already, when the caller runs it itself once the lock is dropped.       *)
Notified(c) == IF IsDrained(c) THEN c ELSE [c EXCEPT !.armed = TRUE]

(* release() and release_child(): the retirement that drains a closing     *)
(* handle takes the callback under the lock and runs it after the unlock.  *)
Decremented(c, child) == IF child THEN [c EXCEPT !.children = @ - 1]
                                  ELSE [c EXCEPT !.submissions = @ - 1]

TakesCallback(c, child) ==
  c.armed /\ IsDrained(Decremented(c, child))

Retired(c, child) ==
  LET d == Decremented(c, child)
  IN  IF IsDrained(d) THEN [d EXCEPT !.armed = FALSE] ELSE d
=============================================================================
