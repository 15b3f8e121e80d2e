-------------------------- MODULE ControlStateProofs --------------------------
(***************************************************************************)
(* Proofs about ControlState, for any number of leases, children and       *)
(* threads that race to close the handle.                                  *)
(***************************************************************************)
EXTENDS ControlState, FiniteSetTheorems, TLAPS

LEMMA EmptyIsDrained ==
  /\ Cardinality({} \intersect Leases) = 0
  /\ Cardinality({} \intersect Children) = 0
<1>1. {} \intersect Leases = {} /\ {} \intersect Children = {}
  OBVIOUS
<1>2. QED
  BY <1>1, FS_EmptySet
LEMMA InitInvariant == Init => IInv
<1> SUFFICES ASSUME Init PROVE IInv
  OBVIOUS
<1>1. TypeOK
  BY FS_EmptySet DEF Init, TypeOK, NewControl, ControlRecord
<1>2. CountsAreExact
  BY EmptyIsDrained DEF Init, CountsAreExact, NewControl
<1>3. QED
  BY <1>1, <1>2 DEF Init, IInv, OneCloser, Closing, DrainedOnceAndEmpty,
                    NoLostCallback, NewControl

(* Cardinalities of the two parts of `held` around one arrival or          *)
(* departure.                                                              *)
LEMMA Arrival ==
  ASSUME NEW S, NEW P, IsFiniteSet(S), NEW x, x \notin S
  PROVE  /\ IsFiniteSet(S \union {x})
         /\ Cardinality((S \union {x}) \intersect P)
              = IF x \in P THEN Cardinality(S \intersect P) + 1
                           ELSE Cardinality(S \intersect P)
         /\ Cardinality(S \intersect P) \in Nat
<1>1. IsFiniteSet(S \intersect P)
  BY FS_Intersection
<1>2. CASE x \in P
  <2>1. (S \union {x}) \intersect P = (S \intersect P) \union {x}
    BY <1>2
  <2>2. x \notin S \intersect P
    OBVIOUS
  <2>3. QED
    BY <1>1, <1>2, <2>1, <2>2, FS_AddElement, FS_CardinalityType
<1>3. CASE x \notin P
  <2>1. (S \union {x}) \intersect P = S \intersect P
    BY <1>3
  <2>2. QED
    BY <1>1, <1>3, <2>1, FS_AddElement, FS_CardinalityType
<1>4. QED
  BY <1>2, <1>3

LEMMA Departure ==
  ASSUME NEW S, NEW P, IsFiniteSet(S), NEW x \in S
  PROVE  /\ IsFiniteSet(S \ {x})
         /\ Cardinality((S \ {x}) \intersect P)
              = IF x \in P THEN Cardinality(S \intersect P) - 1
                           ELSE Cardinality(S \intersect P)
         /\ Cardinality(S \intersect P) \in Nat
         /\ Cardinality((S \ {x}) \intersect P) \in Nat
<1>1. IsFiniteSet(S \ {x}) /\ (S \ {x}) \union {x} = S /\ x \notin S \ {x}
  BY FS_RemoveElement
<1>2. /\ Cardinality(S \intersect P)
           = IF x \in P THEN Cardinality((S \ {x}) \intersect P) + 1
                        ELSE Cardinality((S \ {x}) \intersect P)
      /\ Cardinality((S \ {x}) \intersect P) \in Nat
  <2>1. /\ Cardinality(((S \ {x}) \union {x}) \intersect P)
             = IF x \in P THEN Cardinality((S \ {x}) \intersect P) + 1
                          ELSE Cardinality((S \ {x}) \intersect P)
        /\ Cardinality((S \ {x}) \intersect P) \in Nat
    BY <1>1, Arrival
  <2>2. QED
    BY <1>1, <2>1
<1>3. QED
  BY <1>1, <1>2

(* Nobody counts in a drained control.                                     *)
LEMMA DrainedIsEmpty ==
  ASSUME NEW S, S \subseteq Leases \union Children, IsFiniteSet(S),
         Cardinality(S \intersect Leases) = 0,
         Cardinality(S \intersect Children) = 0
  PROVE  S = {}
<1>1. IsFiniteSet(S \intersect Leases) /\ IsFiniteSet(S \intersect Children)
  BY FS_Intersection
<1>2. S \intersect Leases = {} /\ S \intersect Children = {}
  BY <1>1, FS_EmptySet
<1>3. QED
  BY <1>2
-----------------------------------------------------------------------------
LEMMA JoinInvariant ==
  ASSUME IInv, NEW holder \in Leases \union Children, holder \notin held,
         CanAcquire(control),
         control' = IF holder \in Children THEN ChildRetained(control)
                                           ELSE Acquired(control),
         held' = held \union {holder},
         UNCHANGED <<closer, taken, runs>>
  PROVE  IInv'
<1> USE DEF IInv, TypeOK, CanAcquire
<1>1. /\ IsFiniteSet(held')
      /\ Cardinality((held \intersect Leases)) \in Nat
      /\ Cardinality(held \intersect Children) \in Nat
      /\ Cardinality(held' \intersect Leases) =
           IF holder \in Leases THEN Cardinality(held \intersect Leases) + 1
                                ELSE Cardinality(held \intersect Leases)
      /\ Cardinality(held' \intersect Children) =
           IF holder \in Children THEN Cardinality(held \intersect Children) + 1
                                  ELSE Cardinality(held \intersect Children)
  BY Arrival
<1>2. holder \in Leases <=> holder \notin Children
  BY PartsAssumption
<1>3. TypeOK' /\ CountsAreExact'
  <2>1. /\ control' \in ControlRecord
        /\ control'.submissions = IF holder \in Children THEN control.submissions
                                   ELSE control.submissions + 1
        /\ control'.children = IF holder \in Children THEN control.children + 1
                                ELSE control.children
    BY DEF ControlRecord, Acquired, ChildRetained
  <2>2. CountsAreExact'
    BY <1>1, <1>2, <2>1 DEF CountsAreExact
  <2>3. QED
    BY <1>1, <2>1, <2>2
<1>4. /\ control'.closing = FALSE /\ control'.armed = control.armed
      /\ control.closing = FALSE
  BY DEF Acquired, ChildRetained, ControlRecord
<1>5. OneCloser' /\ DrainedOnceAndEmpty' /\ NoLostCallback'
  BY <1>4 DEF OneCloser, Closing, DrainedOnceAndEmpty, NoLostCallback
<1>6. QED
  BY <1>3, <1>4, <1>5

LEMMA ReleaseInvariant ==
  ASSUME IInv, NEW holder \in Leases \union Children, Release(holder)
  PROVE  IInv'
<1> DEFINE child == holder \in Children
           d     == Decremented(control, child)
<1> USE DEF IInv, TypeOK
<1>1. /\ holder \in held /\ held' = held \ {holder}
      /\ control' = Retired(control, child)
      /\ taken' = IF TakesCallback(control, child) THEN taken + 1 ELSE taken
      /\ UNCHANGED <<closer, runs>>
  BY DEF Release
<1>2. /\ IsFiniteSet(held')
      /\ Cardinality(held' \intersect Leases) \in Nat
      /\ Cardinality(held' \intersect Children) \in Nat
      /\ Cardinality(held \intersect Leases) \in Nat
      /\ Cardinality(held \intersect Children) \in Nat
      /\ Cardinality(held' \intersect Leases) =
           IF holder \in Leases THEN Cardinality(held \intersect Leases) - 1
                                ELSE Cardinality(held \intersect Leases)
      /\ Cardinality(held' \intersect Children) =
           IF holder \in Children THEN Cardinality(held \intersect Children) - 1
                                  ELSE Cardinality(held \intersect Children)
  BY <1>1, Departure
<1>3. /\ d \in ControlRecord
      /\ d.closing = control.closing /\ d.armed = control.armed
      /\ d.submissions = Cardinality(held' \intersect Leases)
      /\ d.children = Cardinality(held' \intersect Children)
  BY <1>1, <1>2, PartsAssumption DEF CountsAreExact, Decremented, ControlRecord
<1>4. taken = 0 /\ runs = 0
  BY <1>1 DEF DrainedOnceAndEmpty
<1> HIDE DEF d
<1>5. /\ control' \in ControlRecord
      /\ control'.closing = control.closing
      /\ control'.submissions = d.submissions /\ control'.children = d.children
      /\ IsDrained(d) => control'.armed = FALSE
      /\ ~IsDrained(d) => control'.armed = control.armed
  BY <1>1, <1>3 DEF Retired, d, ControlRecord
<1>6. taken' = IF control.armed /\ IsDrained(d) THEN 1 ELSE 0
  BY <1>1, <1>4 DEF TakesCallback, d
<1>7. IsDrained(d) <=> control.closing /\ held' = {}
  <2>1. held' \subseteq Leases \union Children
    BY <1>1
  <2>2. CASE held' = {}
    BY <1>3, <2>2, EmptyIsDrained DEF IsDrained
  <2>3. CASE IsDrained(d)
    BY <1>2, <1>3, <2>1, <2>3, DrainedIsEmpty DEF IsDrained
  <2>4. QED
    BY <2>2, <2>3
<1>8. TypeOK' /\ CountsAreExact' /\ OneCloser'
  BY <1>1, <1>2, <1>3, <1>4, <1>5, <1>6 DEF CountsAreExact, OneCloser, Closing
<1>9. DrainedOnceAndEmpty'
  BY <1>1, <1>4, <1>5, <1>6, <1>7 DEF DrainedOnceAndEmpty
<1>10. NoLostCallback'
  <2> SUFFICES ASSUME NEW t \in Closers, closer'[t] = "notified"
               PROVE  /\ control'.armed <=> taken' + runs' = 0
                      /\ held' = {} => taken' + runs' = 1
    BY DEF NoLostCallback
  <2>1. control.armed = TRUE
    BY <1>1, <1>4 DEF NoLostCallback, ControlRecord
  <2>2. control.closing = TRUE
    BY <1>1 DEF OneCloser, Closing, ControlRecord
  <2>3. CASE IsDrained(d)
    BY <1>1, <1>4, <1>5, <1>6, <1>7, <2>1, <2>2, <2>3
  <2>4. CASE ~IsDrained(d)
    BY <1>1, <1>4, <1>5, <1>6, <1>7, <2>1, <2>2, <2>4
  <2>5. QED
    BY <2>3, <2>4
<1>11. control'.armed \/ taken' + runs' > 0 =>
         \E t \in Closers : closer'[t] = "notified"
  BY <1>1, <1>4, <1>5, <1>6
<1>12. QED
  BY <1>8, <1>9, <1>10, <1>11

LEMMA BeginCloseInvariant ==
  ASSUME IInv, NEW t \in Closers, BeginClose(t)
  PROVE  IInv'
<1> USE DEF IInv, TypeOK
<1>1. CASE UNCHANGED <<control, closer>>
  BY <1>1 DEF BeginClose, CountsAreExact, OneCloser, Closing,
              DrainedOnceAndEmpty, NoLostCallback
<1>2. CASE /\ control.closing = FALSE
           /\ control' = Closed(control)
           /\ closer' = [closer EXCEPT ![t] = "closing"]
  <2>1. /\ UNCHANGED <<held, taken, runs>>
        /\ control' \in ControlRecord /\ control'.closing = TRUE
        /\ control'.submissions = control.submissions
        /\ control'.children = control.children
        /\ control'.armed = control.armed
    BY <1>2 DEF BeginClose, Closed, ControlRecord
  <2>2. \A u \in Closers : closer[u] = "idle"
    BY <1>2 DEF OneCloser, Closing
  <2>3. /\ closer' \in [Closers -> {"idle", "closing", "notified"}]
        /\ closer'[t] = "closing" /\ \A u \in Closers \ {t} : closer'[u] = "idle"
    BY <1>2, <2>2
  <2>4. control.armed = FALSE /\ taken = 0 /\ runs = 0
    BY <2>2 DEF ControlRecord
  <2>5. QED
    BY <2>1, <2>3, <2>4 DEF CountsAreExact, OneCloser, Closing,
                            DrainedOnceAndEmpty, NoLostCallback
<1>3. QED
  BY <1>1, <1>2 DEF BeginClose, CanClose, ControlRecord

LEMMA NotifyInvariant ==
  ASSUME IInv, NEW t \in Closers, NotifyWhenDrained(t)
  PROVE  IInv'
<1> USE DEF IInv, TypeOK
<1>1. /\ closer[t] = "closing" /\ control' = Notified(control)
      /\ taken' = IF IsDrained(control) THEN taken + 1 ELSE taken
      /\ closer' = [closer EXCEPT ![t] = "notified"]
      /\ UNCHANGED <<held, runs>>
  BY DEF NotifyWhenDrained
<1>2. /\ closer' \in [Closers -> {"idle", "closing", "notified"}]
      /\ closer'[t] = "notified"
      /\ \A u \in Closers \ {t} : closer[u] = "idle" /\ closer'[u] = "idle"
      /\ control.closing
  BY <1>1 DEF OneCloser, Closing
<1>3. control.armed = FALSE /\ taken = 0 /\ runs = 0
  BY <1>1, <1>2 DEF ControlRecord
<1>4. IsDrained(control) <=> held = {}
  <2>1. CASE held = {}
    BY <1>2, <2>1, EmptyIsDrained DEF IsDrained, CountsAreExact
  <2>2. CASE IsDrained(control)
    BY <2>2, DrainedIsEmpty DEF IsDrained, CountsAreExact
  <2>3. QED
    BY <2>1, <2>2
<1>5. /\ control' \in ControlRecord /\ control'.closing = control.closing
      /\ control'.submissions = control.submissions
      /\ control'.children = control.children
      /\ IsDrained(control) => control'.armed = FALSE
      /\ ~IsDrained(control) => control'.armed = TRUE
  BY <1>1, <1>3 DEF Notified, ControlRecord
<1>6. taken' = IF IsDrained(control) THEN 1 ELSE 0
  BY <1>1, <1>3
<1>7. TypeOK' /\ CountsAreExact' /\ OneCloser'
  BY <1>1, <1>2, <1>3, <1>5, <1>6 DEF CountsAreExact, OneCloser, Closing
<1>8. CASE IsDrained(control)
  BY <1>1, <1>2, <1>3, <1>4, <1>5, <1>6, <1>7, <1>8
  DEF DrainedOnceAndEmpty, NoLostCallback
<1>9. CASE ~IsDrained(control)
  BY <1>1, <1>2, <1>3, <1>4, <1>5, <1>6, <1>7, <1>9
  DEF DrainedOnceAndEmpty, NoLostCallback
<1>10. QED
  BY <1>8, <1>9

LEMMA RunInvariant == IInv /\ RunCallback => IInv'
BY DEF IInv, RunCallback, TypeOK, CountsAreExact, OneCloser, Closing,
       DrainedOnceAndEmpty, NoLostCallback

LEMMA NextInvariant == IInv /\ [Next]_vars => IInv'
<1> SUFFICES ASSUME IInv, [Next]_vars PROVE IInv'
  OBVIOUS
<1>1. ASSUME NEW lease \in Leases, Acquire(lease) PROVE IInv'
  BY <1>1, JoinInvariant, PartsAssumption DEF Acquire
<1>2. ASSUME NEW child \in Children, RetainChild(child) PROVE IInv'
  BY <1>2, JoinInvariant DEF RetainChild
<1>3. ASSUME NEW holder \in Leases \union Children, Release(holder) PROVE IInv'
  BY <1>3, ReleaseInvariant
<1>4. ASSUME NEW t \in Closers, BeginClose(t) PROVE IInv'
  BY <1>4, BeginCloseInvariant
<1>5. ASSUME NEW t \in Closers, NotifyWhenDrained(t) PROVE IInv'
  BY <1>5, NotifyInvariant
<1>6. CASE RunCallback
  BY <1>6, RunInvariant
<1>7. CASE UNCHANGED vars
  BY <1>7 DEF vars, IInv, TypeOK, CountsAreExact, OneCloser, Closing,
              DrainedOnceAndEmpty, NoLostCallback
<1>8. QED
  BY <1>1, <1>2, <1>3, <1>4, <1>5, <1>6, <1>7 DEF Next

THEOREM Invariance == Spec => []IInv
<1>1. Init => IInv
  BY InitInvariant
<1>2. IInv /\ [Next]_vars => IInv'
  BY NextInvariant
<1>3. QED
  BY <1>1, <1>2, PTL DEF Spec, Safety

(* The counts always equal the number of leases and of children that are   *)
(* held, so release_count() never decrements a zero.                       *)
THEOREM ExactCounts == Spec => []CountsAreExact
<1>1. IInv => CountsAreExact
  BY DEF IInv
<1>2. QED
  BY <1>1, Invariance, PTL

(* However releases, children and racing closers interleave, the drained   *)
(* callback is taken at most once, and never while anybody holds the       *)
(* handle.                                                                 *)
THEOREM DrainsOnceAndEmpty == Spec => []DrainedOnceAndEmpty
<1>1. IInv => DrainedOnceAndEmpty
  BY DEF IInv
<1>2. QED
  BY <1>1, Invariance, PTL

(* Once the closer has asked, the callback is stored or has been taken,    *)
(* and it has been taken if nobody holds the handle.                       *)
THEOREM CallbackNotLost == Spec => []NoLostCallback
<1>1. IInv => NoLostCallback
  BY DEF IInv
<1>2. QED
  BY <1>1, Invariance, PTL

(* ControlState implements the safety part of the drain contract: its      *)
(* initial state maps to the contract's, and each step maps to a step of   *)
(* the contract or a stutter.                                              *)
THEOREM Implementation == Spec => ImplementsContractSafety
<1>1. Init => Contract!Init
  BY DEF Init, Contract!Init, NewControl
<1>2. IInv /\ [Next]_vars => [Contract!Next]_(Contract!vars)
  <2> SUFFICES ASSUME IInv, [Next]_vars
               PROVE  [Contract!Next]_(Contract!vars)
    OBVIOUS
  <2> USE DEF IInv, TypeOK
  <2>1. ASSUME NEW lease \in Leases, Acquire(lease)
        PROVE  Contract!Join(lease)
    BY <2>1 DEF Acquire, Contract!Join, CanAcquire, Acquired, ControlRecord
  <2>2. ASSUME NEW child \in Children, RetainChild(child)
        PROVE  Contract!Join(child)
    BY <2>2 DEF RetainChild, Contract!Join, CanAcquire, ChildRetained, ControlRecord
  <2>3. ASSUME NEW holder \in Leases \union Children, Release(holder)
        PROVE  Contract!Leave(holder)
    BY <2>3 DEF Release, Contract!Leave, Retired, Decremented, ControlRecord
  <2>4. ASSUME NEW t \in Closers, BeginClose(t)
        PROVE  Contract!Close \/ UNCHANGED Contract!vars
    BY <2>4 DEF BeginClose, CanClose, Closed, ControlRecord,
                Contract!Close, Contract!vars
  <2>5. ASSUME NEW t \in Closers, NotifyWhenDrained(t)
        PROVE  UNCHANGED Contract!vars
    BY <2>5 DEF NotifyWhenDrained, Notified, ControlRecord, Contract!vars
  <2>6. CASE RunCallback
    <3>1. /\ runs = 0 /\ runs' = 1 /\ held = {} /\ control.closing
          /\ UNCHANGED <<control, held>>
      BY <2>6 DEF RunCallback, DrainedOnceAndEmpty
    <3>2. (runs > 0) = FALSE /\ (runs' > 0) = TRUE
      BY <3>1
    <3>3. QED
      BY <3>1, <3>2, Zenon DEF Contract!Next, Contract!Drain
  <2>7. CASE UNCHANGED vars
    BY <2>7 DEF vars, Contract!vars
  <2>8. QED
    BY <2>1, <2>2, <2>3, <2>4, <2>5, <2>6, <2>7 DEF Next, Contract!Next
<1>3. QED
  BY <1>1, <1>2, Invariance, PTL
  DEF Spec, Safety, ImplementsContractSafety, Contract!Safety
=============================================================================
