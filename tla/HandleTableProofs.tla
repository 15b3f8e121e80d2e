-------------------------- MODULE HandleTableProofs --------------------------
(***************************************************************************)
(* Proofs about HandleTable: for every size of the table, every number of  *)
(* generations and every set of objects, a handle names one object and     *)
(* stays stale once it is removed.                                         *)
(***************************************************************************)
EXTENDS HandleTable, TLAPS

(* Division by a positive divisor recovers a quotient and a remainder.     *)
LEMMA DivMod ==
  ASSUME NEW q \in Nat, NEW d \in Nat \ {0}, NEW r \in 0 .. (d - 1)
  PROVE  /\ (q * d + r) \div d = q
         /\ (q * d + r) % d = r
OBVIOUS

LEMMA ModDiv ==
  ASSUME NEW n \in Nat, NEW d \in Nat \ {0}
  PROVE  /\ n \div d \in Nat
         /\ n % d \in 0 .. (d - 1)
         /\ n = (n \div d) * d + (n % d)
OBVIOUS

LEMMA Spans ==
  /\ IndexSpan \in Nat \ {0} /\ GenerationSpan \in Nat \ {0}
  /\ Indices = 0 .. (IndexSpan - 1)
  /\ Generations = 0 .. (GenerationSpan - 1)
BY RangeAssumption DEF IndexSpan, GenerationSpan, Indices, Generations

(* Decoding recovers what encode_handle() put into a handle, so two        *)
(* different triples of kind, slot and generation never share an integer   *)
(* (handle_table.hpp, encode_handle and the handle_*_of functions).        *)
THEOREM EncodingRoundTrips ==
  ASSUME NEW kind \in Nat, NEW index \in Indices, NEW generation \in Generations
  PROVE  LET handle == encode_handle(kind, index, generation)
         IN  /\ handle \in Nat
             /\ handle_kind_of(handle) = kind
             /\ handle_index_of(handle) = index
             /\ handle_generation_of(handle) = generation
<1> DEFINE high == kind * IndexSpan + index
           handle == encode_handle(kind, index, generation)
<1>1. high \in Nat
  BY Spans
<1>2. handle = high * GenerationSpan + generation /\ handle \in Nat
  BY <1>1, Spans DEF encode_handle
<1>3. handle \div GenerationSpan = high /\ handle % GenerationSpan = generation
  <2> HIDE DEF high, handle
  <2>1. generation \in 0 .. (GenerationSpan - 1) /\ GenerationSpan \in Nat \ {0}
    BY Spans
  <2>2. /\ (high * GenerationSpan + generation) \div GenerationSpan = high
        /\ (high * GenerationSpan + generation) % GenerationSpan = generation
    BY <1>1, <2>1, DivMod
  <2>3. QED
    BY <1>2, <2>2
<1>4. high \div IndexSpan = kind /\ high % IndexSpan = index
  BY Spans, DivMod
<1>5. QED
  BY <1>2, <1>3, <1>4 DEF handle_kind_of, handle_index_of, handle_generation_of

(* Every natural number decodes to exactly one triple.                     *)
LEMMA DecodingRoundTrips ==
  ASSUME NEW handle \in Nat
  PROVE  /\ handle_kind_of(handle) \in Nat
         /\ handle_index_of(handle) \in Indices
         /\ handle_generation_of(handle) \in Generations
         /\ handle = encode_handle(handle_kind_of(handle),
                                   handle_index_of(handle),
                                   handle_generation_of(handle))
<1> DEFINE high == handle \div GenerationSpan
<1>1. /\ high \in Nat
      /\ handle % GenerationSpan \in Generations
      /\ handle = high * GenerationSpan + (handle % GenerationSpan)
  BY Spans, ModDiv
<1>2. /\ high \div IndexSpan \in Nat
      /\ high % IndexSpan \in Indices
      /\ high = (high \div IndexSpan) * IndexSpan + (high % IndexSpan)
  BY <1>1, Spans, ModDiv
<1>3. QED
  BY <1>1, <1>2
  DEF handle_kind_of, handle_index_of, handle_generation_of, encode_handle
-----------------------------------------------------------------------------
LEMMA InitInvariant == Init => IInv
<1> SUFFICES ASSUME Init PROVE IInv
  OBVIOUS
<1>1. TypeOK
  BY Spans, RangeAssumption DEF Init, TypeOK, Slot
<1>2. QED
  BY <1>1, RangeAssumption
  DEF Init, IInv, SlotsInv, FreeInv, IssuedInv, RetiredInv, WasIssued, Indices

(* A slot with a generation left issues a handle it has never issued.      *)
LEMMA IssueInvariant ==
  ASSUME IInv, NEW object \in Objects, NEW index \in Indices,
         slots[index].object = NoObject,
         slots[index].generation <= handle_max_generation,
         index < size',
         size' \in 0 .. IndexSpan,
         \A i \in Indices : i < size' <=> (i < size \/ i = index),
         slots' = [slots EXCEPT ![index].object = object],
         Issue(encode_handle(Kind, index, slots[index].generation), object),
         UNCHANGED retired
  PROVE  /\ encode_handle(Kind, index, slots[index].generation)
              \notin DOMAIN issued
         /\ slots' \in [Indices -> Slot]
         /\ DOMAIN issued' \subseteq Nat
         /\ \A h \in DOMAIN issued' : issued'[h] \in Objects
         /\ retired' \subseteq DOMAIN issued'
         /\ SlotsInv' /\ IssuedInv' /\ RetiredInv'
<1> DEFINE g == slots[index].generation
           handle == encode_handle(Kind, index, g)
<1> USE DEF IInv
<1>1. /\ g \in Generations /\ g >= 1
      /\ slots \in [Indices -> Slot]
      /\ size \in 0 .. IndexSpan
  BY RangeAssumption DEF TypeOK, Slot, Generations
<1>2. /\ handle \in Nat
      /\ handle_kind_of(handle) = Kind
      /\ handle_index_of(handle) = index
      /\ handle_generation_of(handle) = g
  BY <1>1, EncodingRoundTrips, KindAssumption
<1>3. handle \notin DOMAIN issued
  BY <1>1, <1>2 DEF IssuedInv, WasIssued, Generations
<1>4. /\ DOMAIN issued' = DOMAIN issued \union {handle}
      /\ issued'[handle] = object
      /\ \A h \in DOMAIN issued : issued'[h] = issued[h]
  BY <1>3 DEF Issue
<1>5. /\ slots' \in [Indices -> Slot]
      /\ slots'[index].object = object /\ slots'[index].generation = g
      /\ \A i \in Indices : i # index => slots'[i] = slots[i]
      /\ \A i \in Indices : slots'[i].generation = slots[i].generation
  BY <1>1 DEF Slot
<1>6. object # NoObject
  BY ObjectAssumption
<1>7. SlotsInv'
  BY <1>1, <1>5 DEF SlotsInv, Indices
<1>8. \A h \in DOMAIN issued : /\ h \in Nat
                               /\ handle_index_of(h) \in Indices
                               /\ handle_generation_of(h) \in Generations
  BY DecodingRoundTrips DEF TypeOK
<1>9. \A h \in DOMAIN issued : handle_index_of(h) = index =>
                                 handle_generation_of(h) < g
  BY <1>1, <1>8 DEF IssuedInv, WasIssued, Generations
<1>10. IssuedInv'
  <2>1. ASSUME NEW h \in DOMAIN issued'
        PROVE  /\ handle_kind_of(h) = Kind
               /\ WasIssued(handle_index_of(h), handle_generation_of(h))'
    <3>1. CASE h = handle
      BY <3>1, <1>1, <1>2, <1>5, <1>6 DEF WasIssued
    <3>2. CASE h \in DOMAIN issued
      BY <3>2, <1>5, <1>6, <1>8, <1>9 DEF IssuedInv, WasIssued
    <3>3. QED
      BY <3>1, <3>2, <1>4
  <2>2. ASSUME NEW i \in Indices, NEW k \in Generations, WasIssued(i, k)'
        PROVE  encode_handle(Kind, i, k) \in DOMAIN issued'
    <3>1. CASE i = index /\ k = g
      BY <3>1, <1>4
    <3>2. CASE i # index
      BY <3>2, <2>2, <1>4, <1>5 DEF IssuedInv, WasIssued
    <3>3. CASE i = index /\ k # g
      <4>1. k < g /\ 1 <= k
        BY <3>3, <2>2, <1>1, <1>5 DEF WasIssued, Generations
      <4>2. i < size
        BY <3>3, <4>1, <1>1 DEF SlotsInv, Generations, Indices
      <4>3. QED
        BY <3>3, <4>1, <4>2, <1>4 DEF IssuedInv, WasIssued
    <3>4. QED
      BY <3>1, <3>2, <3>3
  <2>3. QED
    BY <2>1, <2>2 DEF IssuedInv
<1>11. RetiredInv'
  <2>1. handle \notin retired'
    BY <1>3 DEF TypeOK
  <2>2. ASSUME NEW h \in DOMAIN issued'
        PROVE  LET slot == slots[handle_index_of(h)]'
               IN  /\ h \in retired' <=> handle_generation_of(h) < slot.generation
                   /\ h \notin retired' => issued'[h] = slot.object
    <3>1. CASE h = handle
      BY <3>1, <2>1, <1>1, <1>2, <1>4, <1>5 DEF Generations
    <3>2. CASE h \in DOMAIN issued
      BY <3>2, <1>4, <1>5, <1>8, <1>9 DEF RetiredInv
    <3>3. QED
      BY <3>1, <3>2, <1>4
  <2>3. QED
    BY <2>2 DEF RetiredInv
<1>12. QED
  BY <1>2, <1>3, <1>4, <1>5, <1>7, <1>10, <1>11 DEF TypeOK

LEMMA InsertRecycledInvariant ==
  ASSUME IInv, NEW object \in Objects, InsertRecycled(object)
  PROVE  IInv' /\ \A h \in DOMAIN issued : h \in DOMAIN issued'
                                           /\ issued'[h] = issued[h]
<1> DEFINE last == Len(free_indices)
           index == free_indices[last]
<1> USE DEF IInv, InsertRecycled
<1>1. /\ last \in DOMAIN free_indices /\ last \in Nat \ {0}
      /\ index \in Indices /\ free_indices \in Seq(Indices)
  BY DEF TypeOK
<1>2. /\ slots[index].object = NoObject /\ index < size
      /\ slots[index].generation <= handle_max_generation
  BY <1>1 DEF FreeInv
<1>3. /\ encode_handle(Kind, index, slots[index].generation) \notin DOMAIN issued
      /\ slots' \in [Indices -> Slot]
      /\ DOMAIN issued' \subseteq Nat
      /\ \A h \in DOMAIN issued' : issued'[h] \in Objects
      /\ retired' \subseteq DOMAIN issued'
      /\ SlotsInv' /\ IssuedInv' /\ RetiredInv'
  <2> HIDE DEF index
  <2>1. size' \in 0 .. IndexSpan /\ index < size'
        /\ \A i \in Indices : i < size' <=> (i < size \/ i = index)
    BY <1>2 DEF TypeOK
  <2>2. slots' = [slots EXCEPT ![index].object = object] /\ UNCHANGED retired
        /\ Issue(encode_handle(Kind, index, slots[index].generation), object)
    BY DEF index
  <2>3. QED
    BY <1>1, <1>2, <2>1, <2>2, IssueInvariant
<1>4. /\ free_indices' \in Seq(Indices)
      /\ DOMAIN free_indices' = 1 .. (last - 1)
      /\ \A p \in 1 .. (last - 1) : free_indices'[p] = free_indices[p]
  BY <1>1
<1>5. FreeInv'
  <2>1. \A p \in 1 .. (last - 1) : free_indices[p] # index
                                   /\ free_indices[p] \in Indices
                                   /\ p \in DOMAIN free_indices
    BY <1>1 DEF FreeInv
  <2>2. \A i \in Indices : i # index => slots'[i] = slots[i]
    BY <1>1 DEF TypeOK
  <2>3. size' = size
    OBVIOUS
  <2> HIDE DEF index, last
  <2>4. QED
    BY <1>4, <2>1, <2>2, <2>3 DEF FreeInv
<1>6. TypeOK'
  BY <1>3, <1>4 DEF TypeOK
<1>7. QED
  BY <1>3, <1>5, <1>6 DEF Issue

LEMMA InsertGrownInvariant ==
  ASSUME IInv, NEW object \in Objects, InsertGrown(object)
  PROVE  IInv' /\ \A h \in DOMAIN issued : h \in DOMAIN issued'
                                           /\ issued'[h] = issued[h]
<1> USE DEF IInv, InsertGrown, HasRoom
<1>1. /\ size \in Indices /\ slots[size] = [generation |-> 1, object |-> NoObject]
      /\ size' \in 0 .. IndexSpan /\ size < size'
      /\ \A i \in Indices : i < size' <=> (i < size \/ i = size)
  BY RangeAssumption DEF TypeOK, SlotsInv, Indices, IndexSpan
<1>2. slots' = [slots EXCEPT ![size].object = object]
  <2>1. [slots[size] EXCEPT !.object = object]
          = [generation |-> 1, object |-> object]
    BY <1>1
  <2>2. QED
    BY <2>1
<1>3. /\ slots[size].object = NoObject
      /\ slots[size].generation = 1 /\ 1 <= handle_max_generation
  BY <1>1, RangeAssumption
<1>4. /\ encode_handle(Kind, size, slots[size].generation) \notin DOMAIN issued
      /\ slots' \in [Indices -> Slot]
      /\ DOMAIN issued' \subseteq Nat
      /\ \A h \in DOMAIN issued' : issued'[h] \in Objects
      /\ retired' \subseteq DOMAIN issued'
      /\ SlotsInv' /\ IssuedInv' /\ RetiredInv'
  BY <1>1, <1>2, <1>3, IssueInvariant
<1>5. FreeInv'
  BY DEF FreeInv
<1>6. TypeOK'
  BY <1>1, <1>4 DEF TypeOK
<1>7. QED
  BY <1>3, <1>4, <1>5, <1>6 DEF Issue

LEMMA RemoveInvariant ==
  ASSUME IInv, NEW handle \in Handles, remove(handle)
  PROVE  IInv'
<1> DEFINE index == handle_index_of(handle)
           g     == slots[index].generation
<1> USE DEF IInv
<1>1. handle \in Nat /\ index \in Indices
      /\ handle_generation_of(handle) \in Generations
  BY HandlesAssumption, DecodingRoundTrips
<1>2. /\ handle_kind_of(handle) = Kind
      /\ index < size
      /\ slots[index].object # NoObject
      /\ handle_generation_of(handle) = g
  BY DEF remove, find_slot
<1>3. /\ g \in 1 .. handle_max_generation /\ g + 1 \in 1 .. handle_max_generation + 1
      /\ slots \in [Indices -> Slot]
  BY <1>1, <1>2, RangeAssumption DEF SlotsInv, TypeOK, Slot
<1>4. handle \in DOMAIN issued
  <2>1. WasIssued(index, g)
    BY <1>2, <1>3 DEF WasIssued
  <2>2. handle = encode_handle(Kind, index, g)
    BY <1>1, <1>2, DecodingRoundTrips
  <2>3. QED
    BY <1>1, <1>2, <2>1, <2>2 DEF IssuedInv
<1>5. /\ slots' = [slots EXCEPT ![index] =
                     [generation |-> g + 1, object |-> NoObject]]
      /\ free_indices' = IF g + 1 <= handle_max_generation
                         THEN Append(free_indices, index) ELSE free_indices
      /\ retired' = retired \union {handle}
      /\ size' = size /\ issued' = issued
  BY DEF remove
<1>6. /\ slots' \in [Indices -> Slot]
      /\ slots'[index] = [generation |-> g + 1, object |-> NoObject]
      /\ \A i \in Indices : i # index => slots'[i] = slots[i]
  BY <1>1, <1>3, <1>5 DEF Slot
<1>7. TypeOK'
  BY <1>1, <1>4, <1>5, <1>6 DEF TypeOK
<1>8. SlotsInv'
  BY <1>1, <1>2, <1>5, <1>6 DEF SlotsInv
<1>9. FreeInv'
  <2>1. \A p \in DOMAIN free_indices : free_indices[p] \in Indices
                                       /\ free_indices[p] # index
    BY <1>2 DEF FreeInv, TypeOK
  <2>2. CASE g + 1 <= handle_max_generation
    <3>1. /\ DOMAIN free_indices' = 1 .. (Len(free_indices) + 1)
          /\ DOMAIN free_indices = 1 .. Len(free_indices)
          /\ Len(free_indices) \in Nat
          /\ free_indices'[Len(free_indices) + 1] = index
          /\ \A p \in DOMAIN free_indices : free_indices'[p] = free_indices[p]
      BY <1>1, <1>5, <2>2 DEF TypeOK
    <3>2. \A p \in DOMAIN free_indices' :
            p \in DOMAIN free_indices \/ p = Len(free_indices) + 1
      BY <3>1
    <3> HIDE DEF index, g
    <3>3. \A p \in DOMAIN free_indices' :
            /\ free_indices'[p] < size'
            /\ slots'[free_indices'[p]].object = NoObject
            /\ slots'[free_indices'[p]].generation <= handle_max_generation
      BY <1>2, <1>5, <1>6, <2>1, <2>2, <3>1, <3>2 DEF FreeInv
    <3>4. \A p, q \in DOMAIN free_indices' :
            free_indices'[p] = free_indices'[q] => p = q
      BY <2>1, <3>1, <3>2 DEF FreeInv
    <3>5. QED
      BY <3>3, <3>4 DEF FreeInv
  <2>3. CASE ~(g + 1 <= handle_max_generation)
    BY <1>5, <1>6, <2>1, <2>3 DEF FreeInv
  <2>4. QED
    BY <2>2, <2>3
<1>10. \A h \in DOMAIN issued : /\ h \in Nat
                                /\ handle_index_of(h) \in Indices
                                /\ handle_generation_of(h) \in Generations
  BY DecodingRoundTrips DEF TypeOK
<1>11. ASSUME NEW i \in Indices, NEW k \in Generations
       PROVE  WasIssued(i, k)' <=> WasIssued(i, k)
  BY <1>1, <1>2, <1>3, <1>5, <1>6 DEF WasIssued, Generations
<1>12. IssuedInv'
  BY <1>5, <1>10, <1>11 DEF IssuedInv
<1>13. RetiredInv'
  <2>1. ASSUME NEW h \in DOMAIN issued, handle_index_of(h) = index
        PROVE  /\ handle_generation_of(h) < g + 1
               /\ handle_generation_of(h) = g => h = handle
    <3>1. handle_generation_of(h) <= g
      BY <1>3, <1>10, <2>1 DEF IssuedInv, WasIssued, Generations
    <3>2. handle_kind_of(h) = Kind
      BY DEF IssuedInv
    <3>3. handle_generation_of(h) = g => h = handle
      BY <1>1, <1>2, <1>10, <2>1, <3>2, DecodingRoundTrips
    <3>4. QED
      BY <1>3, <1>10, <3>1, <3>3 DEF Generations
  <2>2. ASSUME NEW h \in DOMAIN issued, handle_index_of(h) = index
        PROVE  h \in retired'
    BY <1>3, <1>5, <1>10, <2>1, <2>2 DEF RetiredInv, Generations
  <2>3. handle_index_of(handle) = index
    OBVIOUS
  <2> HIDE DEF index, g
  <2>4. ASSUME NEW h \in DOMAIN issued
        PROVE  LET slot == slots'[handle_index_of(h)]
               IN  /\ h \in retired' <=> handle_generation_of(h) < slot.generation
                   /\ h \notin retired' => issued[h] = slot.object
    <3>1. CASE handle_index_of(h) = index
      BY <1>6, <2>1, <2>2, <3>1
    <3>2. CASE handle_index_of(h) # index
      BY <1>5, <1>6, <1>10, <2>3, <3>2 DEF RetiredInv
    <3>3. QED
      BY <3>1, <3>2
  <2>5. QED
    BY <1>5, <2>4 DEF RetiredInv
<1>14. QED
  BY <1>7, <1>8, <1>9, <1>12, <1>13
-----------------------------------------------------------------------------
LEMMA NextInvariant ==
  IInv /\ [Next]_vars =>
    /\ IInv'
    /\ \A h \in DOMAIN issued : h \in DOMAIN issued' /\ issued'[h] = issued[h]
<1> SUFFICES ASSUME IInv, [Next]_vars
             PROVE  /\ IInv'
                    /\ \A h \in DOMAIN issued : h \in DOMAIN issued'
                                                /\ issued'[h] = issued[h]
  OBVIOUS
<1>1. CASE \E object \in Objects : InsertRecycled(object)
  BY <1>1, InsertRecycledInvariant
<1>2. CASE \E object \in Objects : InsertGrown(object)
  BY <1>2, InsertGrownInvariant
<1>3. CASE \E handle \in Handles : remove(handle)
  <2>1. issued' = issued
    BY <1>3 DEF remove
  <2>2. QED
    BY <1>3, <2>1, RemoveInvariant
<1>4. CASE UNCHANGED vars
  BY <1>4 DEF vars, IInv, TypeOK, SlotsInv, FreeInv, IssuedInv, RetiredInv, WasIssued
<1>5. QED
  BY <1>1, <1>2, <1>3, <1>4 DEF Next

THEOREM Invariance == Spec => []IInv
<1>1. Init => IInv
  BY InitInvariant
<1>2. IInv /\ [Next]_vars => IInv'
  BY NextInvariant
<1>3. QED
  BY <1>1, <1>2, PTL DEF Spec

(* The table's variables keep their types for every instance.              *)
THEOREM TypeCorrect == Spec => []TypeOK
<1>1. IInv => TypeOK
  BY DEF IInv
<1>2. QED
  BY <1>1, Invariance, PTL

(* A handle names the object it was issued for until it is removed and     *)
(* nothing after, for every table size, generation count and object set.   *)
THEOREM NoAliasing == Spec => []HandlesResolveToTheirObject
<1>1. IInv => HandlesResolveToTheirObject
  <2> SUFFICES ASSUME IInv, NEW h \in DOMAIN issued
               PROVE  try_resolve(h) = IF h \in retired THEN NoObject ELSE issued[h]
    BY DEF HandlesResolveToTheirObject
  <2> USE DEF IInv
  <2>1. /\ h \in Nat /\ handle_index_of(h) \in Indices
        /\ handle_generation_of(h) \in Generations
        /\ issued[h] \in Objects
    BY DecodingRoundTrips DEF TypeOK
  <2>2. slots[handle_index_of(h)].generation \in Nat
    BY <2>1, RangeAssumption DEF TypeOK, Slot
  <2>3. QED
    BY <2>1, <2>2 DEF IssuedInv, RetiredInv, WasIssued, try_resolve, find_slot,
                      Generations
<1>2. QED
  BY <1>1, Invariance, PTL

(* Whatever integer a caller passes, it resolves only if it was issued and *)
(* not removed, and is called stale exactly if it was removed.             *)
THEOREM FaultsAreExact == Spec => []FaultsTellHistory
<1>1. IInv => FaultsTellHistory
  <2> SUFFICES ASSUME IInv, NEW h \in Handles
               PROVE  IF try_resolve(h) # NoObject
                      THEN h \in DOMAIN issued \ retired
                      ELSE (handle_fault_status(fault_for(h)) = "INVALID_STATE")
                             <=> h \in retired
    BY DEF FaultsTellHistory
  <2> USE DEF IInv
  <2> DEFINE i == handle_index_of(h)
             g == handle_generation_of(h)
  <2>1. /\ h \in Nat /\ i \in Indices /\ g \in Generations
        /\ handle_kind_of(h) \in Nat
        /\ h = encode_handle(handle_kind_of(h), i, g)
    BY HandlesAssumption, DecodingRoundTrips
  <2>2. slots[i].generation \in Nat /\ slots[i].generation >= 1
    BY <2>1, RangeAssumption DEF TypeOK, Slot
  <2>3. retired \subseteq DOMAIN issued
    BY DEF TypeOK
  <2>4. h \in DOMAIN issued <=> handle_kind_of(h) = Kind /\ WasIssued(i, g)
    BY <2>1 DEF IssuedInv
  <2>5. CASE try_resolve(h) # NoObject
    <3>1. find_slot(h)
      BY <2>5 DEF try_resolve
    <3>2. handle_kind_of(h) = Kind /\ WasIssued(i, g) /\ ~(g < slots[i].generation)
      BY <3>1, <2>1, <2>2 DEF find_slot, WasIssued, Generations
    <3>3. QED
      BY <2>4, <2>5, <3>2 DEF RetiredInv
  <2>6. CASE try_resolve(h) = NoObject
    <3>1. ~find_slot(h)
      BY <2>6 DEF try_resolve, find_slot
    <3>2. h \in retired <=> /\ handle_kind_of(h) = Kind
                            /\ i < size /\ 1 <= g /\ g < slots[i].generation
      <4> HIDE DEF i, g
      <4>1. h \in DOMAIN issued => (h \in retired <=> g < slots[i].generation)
        BY DEF RetiredInv, i, g
      <4>2. QED
        BY <2>1, <2>3, <2>4, <4>1 DEF WasIssued
    <3>3. handle_fault_status(fault_for(h)) = "INVALID_STATE"
            <=> fault_for(h) = "Stale"
      BY DEF handle_fault_status
    <3>4. fault_for(h) = "Stale" <=> /\ handle_kind_of(h) = Kind
                                     /\ i < size /\ g # 0 /\ g < slots[i].generation
      <4>1. CASE h = 0
        <5>1. handle_kind_of(h) = 0
          <6> 0 = 0 * GenerationSpan + 0 /\ 0 = 0 * IndexSpan + 0
            BY Spans
          <6> QED
            BY <4>1, Spans DEF handle_kind_of
        <5>2. QED
          BY <4>1, <5>1, KindAssumption DEF fault_for, NullHandle
      <4>2. CASE h # 0 /\ handle_kind_of(h) \notin Kinds
        BY <4>2, KindAssumption DEF fault_for, NullHandle
      <4>3. CASE h # 0 /\ handle_kind_of(h) \in Kinds \ {Kind}
        BY <4>3, KindAssumption DEF fault_for, NullHandle
      <4>4. CASE h # 0 /\ handle_kind_of(h) = Kind /\ IsIssued(h)
        BY <4>4, KindAssumption DEF fault_for, NullHandle, IsIssued
      <4>5. CASE h # 0 /\ handle_kind_of(h) = Kind /\ ~IsIssued(h)
        BY <4>5, KindAssumption DEF fault_for, NullHandle, IsIssued
      <4>6. QED
        BY <4>1, <4>2, <4>3, <4>4, <4>5
    <3>5. g # 0 <=> 1 <= g
      BY <2>1 DEF Generations
    <3>6. QED
      BY <2>6, <3>2, <3>3, <3>4, <3>5
  <2>7. QED
    BY <2>5, <2>6
<1>2. QED
  BY <1>1, Invariance, PTL

(* insert() never returns a handle that it returned before.                *)
THEOREM NeverReused == Spec => HandlesAreNeverReused
<1>1. IInv /\ [Next]_vars =>
        [\A handle \in DOMAIN issued :
           /\ handle \in DOMAIN issued'
           /\ issued'[handle] = issued[handle]]_vars
  BY NextInvariant
<1>2. QED
  BY <1>1, Invariance, PTL DEF Spec, HandlesAreNeverReused
=============================================================================
