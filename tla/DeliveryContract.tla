--------------------------- MODULE DeliveryContract ---------------------------
(***************************************************************************)
(* What a delivery queue promises, seen from outside: a first-in first-out *)
(* channel of numbered calls that ends for good when its host releases it. *)
(* Nothing here speaks of threads, locks, bursts or wakes.                 *)
(***************************************************************************)
EXTENDS Naturals, Sequences, SequencesExt

VARIABLES pending,    (* The calls that were accepted and have not started. *)
          delivered,  (* The calls that started, in the order they did.     *)
          released    (* The host has released the queue.                   *)

vars == <<pending, delivered, released>>

Init == pending = <<>> /\ delivered = <<>> /\ released = FALSE

(* One call enters, at the back.                                           *)
Accept ==
  /\ ~released
  /\ Len(pending') = Len(pending) + 1
  /\ IsPrefix(pending, pending')
  /\ UNCHANGED <<delivered, released>>

(* The calls at the front start, in order; a batch of events as one.       *)
Deliver ==
  /\ ~released
  /\ \E n \in 1 .. Len(pending) :
       /\ delivered' = delivered \o SubSeq(pending, 1, n)
       /\ pending' = SubSeq(pending, n + 1, Len(pending))
  /\ UNCHANGED released

Release ==
  /\ ~released
  /\ released' = TRUE
  /\ pending' = <<>>
  /\ UNCHANGED delivered

Next == Accept \/ Deliver \/ Release

Spec == Init /\ [][Next]_vars
=============================================================================
