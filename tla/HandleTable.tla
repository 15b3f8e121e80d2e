----------------------------- MODULE HandleTable -----------------------------
(***************************************************************************)
(* The generational handle table behind every public handle of the C API   *)
(* (src/src/handles/handle_table.hpp).  A handle is one 64-bit integer     *)
(* holding a kind, a slot index and a generation; a slot is recycled for   *)
(* the next object with a higher generation.  Every operation runs under   *)
(* the table's mutex, so each one is a single action.                      *)
(***************************************************************************)
EXTENDS Integers, Sequences

CONSTANTS
  Kinds,             (* The kinds of the handle_kind enumeration.           *)
  Kind,              (* The kind that this table issues.                    *)
  handle_max_index,
  handle_max_generation,
  Handles,           (* The integers that callers may pass as a handle.     *)
  Objects,           (* The objects that owners may ever insert.            *)
  NoObject           (* A slot's null pointer.                              *)

ASSUME KindAssumption ==
  /\ Kinds \subseteq Nat \ {0}
  /\ Kind \in Kinds
ASSUME RangeAssumption ==
  /\ handle_max_index \in Nat
  /\ handle_max_generation \in Nat \ {0}
ASSUME HandlesAssumption == Handles \subseteq Nat
ASSUME ObjectAssumption == NoObject \notin Objects

VARIABLES
  slots,         (* The vector of slots; its entries below `size` exist.    *)
  size,          (* slots_.size().                                          *)
  free_indices,  (* The stack of slots to recycle.                          *)
  issued,        (* History: the object behind each handle ever returned.   *)
  retired        (* History: the handles that remove() took.                *)

vars == <<slots, size, free_indices, issued, retired>>
-----------------------------------------------------------------------------
(* The encoding: kind, index and generation side by side in one integer.   *)
Indices     == 0 .. handle_max_index
Generations == 0 .. handle_max_generation
IndexSpan      == handle_max_index + 1
GenerationSpan == handle_max_generation + 1

encode_handle(kind, index, generation) ==
  (kind * IndexSpan + index) * GenerationSpan + generation

handle_kind_of(handle)       == (handle \div GenerationSpan) \div IndexSpan
handle_index_of(handle)      == (handle \div GenerationSpan) % IndexSpan
handle_generation_of(handle) == handle % GenerationSpan

NullHandle == 0
-----------------------------------------------------------------------------
(* A handle resolves when its kind, its index and its generation all name  *)
(* the object that the slot holds now.                                     *)
find_slot(handle) ==
  /\ handle_kind_of(handle) = Kind
  /\ handle_index_of(handle) < size
  /\ slots[handle_index_of(handle)].object # NoObject
  /\ slots[handle_index_of(handle)].generation = handle_generation_of(handle)

try_resolve(handle) ==
  IF find_slot(handle) THEN slots[handle_index_of(handle)].object ELSE NoObject

(* The diagnosis of a handle that does not resolve.                        *)
IsIssuedOrNext(handle) ==   \* A mutant: off by one generation.
  /\ handle_index_of(handle) < size
  /\ handle_generation_of(handle) # 0
  /\ handle_generation_of(handle) <= slots[handle_index_of(handle)].generation

IsIssued(handle) ==
  /\ handle_index_of(handle) < size
  /\ handle_generation_of(handle) # 0
  /\ handle_generation_of(handle) < slots[handle_index_of(handle)].generation

fault_for(handle) ==
  CASE handle = NullHandle                 -> "Null"
    [] handle # NullHandle
       /\ handle_kind_of(handle) \notin Kinds -> "NotAHandle"
    [] handle_kind_of(handle) \in Kinds \ {Kind} -> "WrongKind"
    [] handle_kind_of(handle) = Kind /\ IsIssued(handle)  -> "Stale"
    [] handle_kind_of(handle) = Kind /\ ~IsIssued(handle) -> "Unknown"

handle_fault_status(fault) ==
  IF fault = "Stale" THEN "INVALID_STATE" ELSE "INVALID_ARGUMENT"
-----------------------------------------------------------------------------
Init ==
  /\ slots = [i \in Indices |-> [generation |-> 1, object |-> NoObject]]
  /\ size = 0
  /\ free_indices = <<>>
  /\ issued = [h \in {} |-> NoObject]
  /\ retired = {}

(* What insert() returns to the caller is the handle it records here.      *)
Issue(handle, object) ==
  issued' = [h \in DOMAIN issued \union {handle} |->
               IF h = handle THEN object ELSE issued[h]]

(* An owner inserts an object it has just created, so never one twice.     *)
IsFresh(object) == \A h \in DOMAIN issued : issued[h] # object

InsertRecycled(object) ==
  /\ IsFresh(object)
  /\ free_indices # <<>>
  /\ LET index == free_indices[Len(free_indices)]
     IN  /\ slots' = [slots EXCEPT ![index].object = object]
         /\ Issue(encode_handle(Kind, index, slots[index].generation), object)
  /\ free_indices' = SubSeq(free_indices, 1, Len(free_indices) - 1)
  /\ UNCHANGED <<size, retired>>

HasRoom == size <= handle_max_index

(* A full table throws HandleTableExhausted here and changes nothing.      *)
InsertGrown(object) ==
  /\ IsFresh(object)
  /\ free_indices = <<>>
  /\ HasRoom
  /\ slots' = [slots EXCEPT ![size] = [generation |-> 1, object |-> object]]
  /\ size' = size + 1
  /\ Issue(encode_handle(Kind, size, 1), object)
  /\ UNCHANGED <<free_indices, retired>>

(* A mutant: the recycled slot keeps its generation.                       *)
RemoveWithoutAdvance(handle) ==
  LET index == handle_index_of(handle)
  IN  /\ find_slot(handle)
      /\ slots' = [slots EXCEPT ![index].object = NoObject]
      /\ free_indices' = Append(free_indices, index)
      /\ retired' = retired \union {handle}
      /\ UNCHANGED <<size, issued>>

(* A mutant: an exhausted slot is recycled once too often.                 *)
RemoveRecyclingExhausted(handle) ==
  LET index == handle_index_of(handle)
  IN  /\ find_slot(handle)
      /\ slots' = [slots EXCEPT ![index] =
                     [generation |-> @.generation + 1, object |-> NoObject]]
      /\ free_indices' = Append(free_indices, index)
      /\ retired' = retired \union {handle}
      /\ UNCHANGED <<size, issued>>

(* The generation advances before the handle's owner gets the object back. *)
(* A slot whose generations ran out is left out of the free stack forever. *)
remove(handle) ==
  LET index == handle_index_of(handle)
      next  == slots[index].generation + 1
  IN  /\ find_slot(handle)
      /\ slots' = [slots EXCEPT ![index] =
                     [generation |-> next, object |-> NoObject]]
      /\ free_indices' = IF next <= handle_max_generation
                         THEN Append(free_indices, index)
                         ELSE free_indices
      /\ retired' = retired \union {handle}
      /\ UNCHANGED <<size, issued>>

(* Removing a handle that does not resolve returns null and changes nothing. *)
Next ==
  \/ \E object \in Objects : InsertRecycled(object)
  \/ \E object \in Objects : InsertGrown(object)
  \/ \E handle \in Handles : remove(handle)

Spec == Init /\ [][Next]_vars
-----------------------------------------------------------------------------
Slot == [generation : 1 .. handle_max_generation + 1,
         object     : Objects \union {NoObject}]

TypeOK ==
  /\ slots \in [Indices -> Slot]
  /\ size \in 0 .. IndexSpan
  /\ free_indices \in Seq(Indices)
  /\ DOMAIN issued \subseteq Nat
  /\ \A h \in DOMAIN issued : issued[h] \in Objects
  /\ retired \subseteq DOMAIN issued

(* The inductive invariant behind the properties below.                    *)
WasIssued(index, generation) ==
  /\ index < size
  /\ 1 <= generation
  /\ \/ generation < slots[index].generation
     \/ /\ generation = slots[index].generation
        /\ slots[index].object # NoObject

SlotsInv ==
  \A i \in Indices :
    /\ i >= size => slots[i] = [generation |-> 1, object |-> NoObject]
    /\ slots[i].object # NoObject => slots[i].generation <= handle_max_generation

FreeInv ==
  /\ \A p \in DOMAIN free_indices :
       /\ free_indices[p] < size
       /\ slots[free_indices[p]].object = NoObject
       /\ slots[free_indices[p]].generation <= handle_max_generation
  /\ \A p, q \in DOMAIN free_indices :
       free_indices[p] = free_indices[q] => p = q

IssuedInv ==
  /\ \A h \in DOMAIN issued :
       /\ handle_kind_of(h) = Kind
       /\ WasIssued(handle_index_of(h), handle_generation_of(h))
  /\ \A i \in Indices, g \in Generations :
       WasIssued(i, g) => encode_handle(Kind, i, g) \in DOMAIN issued

RetiredInv ==
  \A h \in DOMAIN issued :
    LET slot == slots[handle_index_of(h)]
    IN  /\ h \in retired <=> handle_generation_of(h) < slot.generation
        /\ h \notin retired => issued[h] = slot.object

IInv == TypeOK /\ SlotsInv /\ FreeInv /\ IssuedInv /\ RetiredInv

(* An issued handle names the object it was returned for until it is       *)
(* removed, and nothing at all ever after, however often its slot has been *)
(* recycled: "an old handle never resolves to a new object".               *)
HandlesResolveToTheirObject ==
  \A handle \in DOMAIN issued :
    try_resolve(handle) = IF handle \in retired THEN NoObject ELSE issued[handle]

(* The diagnosis of a handle tells its history, whatever integer a caller  *)
(* passes: "stale" (and the status INVALID_STATE) for a removed handle and *)
(* for no other value, and only an issued handle ever resolves.            *)
FaultsTellHistory ==
  \A handle \in Handles :
    IF try_resolve(handle) # NoObject
    THEN handle \in DOMAIN issued \ retired
    ELSE (handle_fault_status(fault_for(handle)) = "INVALID_STATE")
           <=> handle \in retired

(* insert() never returns the same handle twice: once issued, a handle     *)
(* keeps its one object, past the exhaustion of its slot's generations.    *)
HandlesAreNeverReused ==
  [][\A handle \in DOMAIN issued :
       /\ handle \in DOMAIN issued'
       /\ issued'[handle] = issued[handle]]_vars
=============================================================================
