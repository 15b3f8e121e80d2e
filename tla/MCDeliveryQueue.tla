---------------------------- MODULE MCDeliveryQueue ----------------------------
(* Two registrations, of which one pushes events that can join an item,    *)
(* and two interchangeable host threads.                                   *)
EXTENDS DeliveryQueue, TLC

(* Two events can share an item; any other registration calls once before  *)
(* the call that retires it.                                               *)
MCMaxCalls ==
  [r \in Registrations |-> IF r \in EventRegistrations THEN 2 ELSE 1]

Symmetry == Permutations(Dispatchers)
=============================================================================
