---------------------------- MODULE MCHandleTable ----------------------------
(* A table of three slots, each of which can issue three handles: seven    *)
(* objects fill it, recycle its slots and exhaust one or two of them.      *)
EXTENDS HandleTable, TLC

(* Every encoding of the two kinds, of the null kind 0 and of the unused   *)
(* kind 3.                                                                 *)
MCHandles ==
  0 .. (4 * (handle_max_index + 1) * (handle_max_generation + 1) - 1)

Symmetry == Permutations(Objects)
=============================================================================
