---------------------------- MODULE DrainContract ----------------------------
(***************************************************************************)
(* What a control promises the teardown of its handle, whatever threads    *)
(* interleave: nobody joins a closed handle, and the handle drains once,   *)
(* when everybody has left, and then for good.                             *)
(***************************************************************************)
CONSTANT Holders
VARIABLES holders,  (* Who keeps the handle from being torn down.          *)
          open,     (* New holders are still admitted.                     *)
          drained   (* The teardown has been told to run.                  *)

vars == <<holders, open, drained>>

Init == holders = {} /\ open = TRUE /\ drained = FALSE

Join(h) ==
  /\ open
  /\ h \notin holders
  /\ holders' = holders \union {h}
  /\ UNCHANGED <<open, drained>>

Leave(h) ==
  /\ h \in holders
  /\ holders' = holders \ {h}
  /\ UNCHANGED <<open, drained>>

Close == open /\ open' = FALSE /\ UNCHANGED <<holders, drained>>

Drain ==
  /\ ~open /\ holders = {} /\ ~drained
  /\ drained' = TRUE
  /\ UNCHANGED <<holders, open>>

Next == (\E h \in Holders : Join(h) \/ Leave(h)) \/ Close \/ Drain

Safety == Init /\ [][Next]_vars
Spec == Safety /\ WF_vars(Drain)
=============================================================================
