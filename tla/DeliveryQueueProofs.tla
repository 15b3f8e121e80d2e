-------------------------- MODULE DeliveryQueueProofs --------------------------
(***************************************************************************)
(* Proofs about DeliveryQueue, for any number of registrations, of calls   *)
(* and of threads that dispatch.                                           *)
(***************************************************************************)
EXTENDS DeliveryQueue, FiniteSetTheorems, SequenceTheorems, WellFoundedInduction, TLAPS

Inside(d) == dispatcher[d] \in {"check", "take", "next", "call", "clear"}

(* The two flags: dispatching_ belongs to one thread, and a request is     *)
(* left to a thread that has yet to look at it.                            *)
FlagInv ==
  /\ dispatcher \in [Dispatchers -> Steps]
  /\ dispatching \in BOOLEAN /\ dispatch_requested \in BOOLEAN
  /\ \A d \in Dispatchers : Inside(d) => dispatching
  /\ dispatching => \E d \in Dispatchers : Inside(d)
  /\ \A d, e \in Dispatchers : Inside(d) /\ Inside(e) => d = e
  /\ NoRequestIsStranded

Releasers  == {Host} \union Dispatchers \union Registrations
CloseSteps == {"open", "removed", "closing wake", "abandoning", "closed"}

(* The wake: only a closed queue has lost it, and then nobody copies it    *)
(* any more.                                                               *)
WakeInv ==
  /\ closed \in BOOLEAN
  /\ closer \in [who : Releasers \union {Nobody}, step : CloseSteps]
  /\ closer.step \notin {"open", "removed"} => closed
  /\ wake_released => closed /\ \A r \in Registrations : notify[r] = "none"

(* Items in a list: whether one of them is a registration's last call,     *)
(* whether one is a registration's at all, and whether nothing of a        *)
(* registration follows its last call.                                     *)
Items == [reg : Registrations, last : BOOLEAN, calls : Seq(Nat)]

HasLast(list, r)  == \E i \in DOMAIN list : list[i].last /\ list[i].reg = r
Mentions(list, r) == \E i \in DOMAIN list : list[i].reg = r
Final(list) ==
  \A i, j \in DOMAIN list : list[i].last /\ list[i].reg = list[j].reg => j <= i

(* Where the duty to hand a registration's user data back can be.          *)
Places == {"held", "running", "head", "call", "taken items", "taken held",
           "released", "abandoned"}

InPlace(r, p) ==
  \/ p = "held" /\ r \in held
  \/ p = "running" /\ HasLast(running, r)
  \/ p = "head" /\ HasLast(head, r)
  \/ p = "call" /\ \E d \in Dispatchers :
                     At(d, "call") /\ current[d].last /\ current[d].reg = r
  \/ p = "taken items" /\ HasLast(taken.items, r)
  \/ p = "taken held" /\ r \in taken.held
  \/ p = "released" /\ released[r] # 0
  \/ p = "abandoned" /\ abandoned[r] # 0

ItemInv ==
  /\ head \in Seq(Items) /\ running \in Seq(Items)
  /\ taken \in [items : Seq(Items), held : SUBSET Registrations]
  /\ held \subseteq Registrations
  /\ current \in [Dispatchers -> Items \union {NoItem}]
  /\ \A d \in Dispatchers : At(d, "call") => current[d] \in Items
  /\ released \in [Registrations -> {0, 1}] /\ abandoned \in [Registrations -> {0, 1}]
  /\ serial \in Nat

(* A registration's life: before it is constructed nobody owes it its user *)
(* data, before it retires only the hook does, and a host that keeps the   *)
(* queue releases it when no registration is on its way.                   *)
LifeInv ==
  /\ registration \in [Registrations -> Lives] /\ hold \in [Registrations -> BOOLEAN]
  /\ live \in BOOLEAN
  /\ closed \/ closer.step # "open" => ~live
  /\ HostKeepsQueue /\ ~live => \A r \in Registrations : ~Registering(r)
  /\ \A r \in Registrations : registration[r] = "constructed" /\ r \in held => hold[r]
  /\ \A r \in Registrations, p \in Places : InPlace(r, p) =>
       /\ registration[r] \notin {"none", "resolved"}
       /\ registration[r] # "retired" => p \in {"held", "taken held", "abandoned"}
       /\ registration[r] = "rejected" => ~HostKeepsQueue
       /\ p \in {"taken items", "taken held", "abandoned"} => closed

(* The duty is at one place at most, and nothing of a registration comes   *)
(* after its last call.                                                    *)
OnePlace ==
  \A r \in Registrations, p \in Places, q \in Places :
    InPlace(r, p) /\ InPlace(r, q) => p = q

OrderInv ==
  /\ Final(head) /\ Final(running) /\ Final(taken.items)
  /\ \A r \in Registrations : HasLast(running, r) => ~Mentions(head, r)
  /\ \A r \in Registrations : InPlace(r, "call") \/ InPlace(r, "released") =>
       ~Mentions(running, r) /\ ~Mentions(head, r)
  /\ \A r \in Registrations : InPlace(r, "released") =>
       \A d \in Dispatchers : At(d, "call") => current[d].reg # r

SettleInv == ItemInv /\ LifeInv /\ OnePlace /\ OrderInv
-----------------------------------------------------------------------------
LEMMA FlagStep == FlagInv /\ [Next]_vars => FlagInv'
<1> SUFFICES ASSUME FlagInv, [Next]_vars PROVE FlagInv'
  OBVIOUS
<1> USE DEF FlagInv, Inside, NoRequestIsStranded, At, Steps
<1>1. ASSUME NEW d \in Dispatchers, DispatchBegin(d) PROVE FlagInv'
  BY <1>1 DEF DispatchBegin, Goto
<1>2. ASSUME NEW d \in Dispatchers, DispatchExchange(d) PROVE FlagInv'
  <2>1. CASE dispatching
    BY <1>2, <2>1 DEF DispatchExchange, Goto, Acquires
  <2>2. CASE ~dispatching
    BY <1>2, <2>2 DEF DispatchExchange, Goto, Acquires
  <2>3. QED
    BY <2>1, <2>2
<1>3. ASSUME NEW d \in Dispatchers, DispatchCheck(d) PROVE FlagInv'
  BY <1>3 DEF DispatchCheck, Goto
<1>4. ASSUME NEW d \in Dispatchers, DispatchTake(d) PROVE FlagInv'
  BY <1>4 DEF DispatchTake, Goto, flag_vars
<1>5. ASSUME NEW d \in Dispatchers, DispatchNext(d) PROVE FlagInv'
  BY <1>5 DEF DispatchNext, Goto, flag_vars
<1>6. ASSUME NEW d \in Dispatchers, DispatchReturn(d) PROVE FlagInv'
  BY <1>6 DEF DispatchReturn, Goto, flag_vars
<1>7. ASSUME NEW d \in Dispatchers, DispatchNested(d) PROVE FlagInv'
  BY <1>7 DEF DispatchNested, thread_vars
<1>8. ASSUME NEW d \in Dispatchers, DispatchClear(d) PROVE FlagInv'
  BY <1>8 DEF DispatchClear, Goto
<1>9. ASSUME NEW d \in Dispatchers, DispatchRecheck(d) PROVE FlagInv'
  BY <1>9 DEF DispatchRecheck, Goto, SeesRequest, flag_vars
<1>10. CASE UNCHANGED <<flag_vars, dispatcher>>
  BY <1>10 DEF flag_vars
<1>11. QED
  BY <1>1, <1>2, <1>3, <1>4, <1>5, <1>6, <1>7, <1>8, <1>9, <1>10
  DEF Next, RegistrationStep, NotifyStep, HostDispatch, DispatchStep, HostRelease,
      CloseStep, KeptByClose, thread_vars, vars

LEMMA ReferencesAre ==
  ASSUME NEW n, NEW c, WakeReferences(n, c) = {}
  PROVE  /\ \A r \in Registrations : n[r] = "none"
         /\ c.step \notin {"open", "removed", "closing wake"}
BY DEF WakeReferences, ClosersReference

LEMMA WakeStep == WakeInv /\ [Next]_vars => WakeInv'
<1> SUFFICES ASSUME WakeInv, [Next]_vars PROVE WakeInv'
  OBVIOUS
<1> USE DEF WakeInv
<1>1. ASSUME NEW r \in Registrations, RegistrationStep(r) PROVE WakeInv'
  <2>1. UNCHANGED <<closed, closer, wake_released>> /\ (closed => UNCHANGED notify)
    BY <1>1 DEF RegistrationStep, Resolve, Construct, AcceptRegistration,
       RejectRegistration, Push, Retire, AppendEvent, wake_vars, close_vars
  <2>2. QED
    BY <2>1
<1>2. ASSUME NEW r \in Registrations, NotifyStep(r) PROVE WakeInv'
  <2>1. UNCHANGED <<closed, closer>>
    BY <1>2 DEF NotifyStep, queue_vars, close_vars
  <2>2. CASE NotifyBegin(r) \/ NotifyCallback(r)
    BY <2>1, <2>2 DEF NotifyBegin, NotifyCallback, wake_vars
  <2>3. CASE NotifyEnd(r)
    BY <2>1, <2>3, ReferencesAre DEF NotifyEnd, DropsWake
  <2>4. QED
    BY <1>2, <2>2, <2>3 DEF NotifyStep
<1>3. ASSUME NEW d \in Dispatchers, HostDispatch(d) \/ DispatchStep(d) PROVE WakeInv'
  BY <1>3 DEF HostDispatch, DispatchStep, KeptByDispatch, wake_vars, close_vars
<1>4. CASE HostRelease
  <2>1. PICK who \in Releasers : ReleaseQueue(who)
    BY <1>4 DEF HostRelease, Releasers
  <2>2. closer' \in [who : Releasers \union {Nobody}, step : CloseSteps]
    BY <2>1 DEF ReleaseQueue, CloseSteps
  <2>3. QED
    BY <1>4, <2>1, <2>2 DEF HostRelease, KeptByClose, ReleaseQueue, queue_vars, wake_vars
<1>5. CASE CloseStep
  <2>1. UNCHANGED notify
    BY <1>5 DEF CloseStep, KeptByClose
  <2>2. ASSUME NEW step \in CloseSteps, closer' = [closer EXCEPT !.step = step]
        PROVE  /\ closer' \in [who : Releasers \union {Nobody}, step : CloseSteps]
               /\ closer'.step = step
    BY <2>2
  <2>3. CASE CloseLock
    BY <2>1, <2>2, <2>3 DEF CloseLock, CloseSteps, wake_vars
  <2>4. CASE CloseWake
    <3>1. closed /\ UNCHANGED closed
      BY <2>4 DEF CloseWake, queue_vars
    <3>2. wake_released' => \A r \in Registrations : notify[r] = "none"
      BY <2>4, ReferencesAre DEF CloseWake, DropsWake
    <3>3. closer' = [closer EXCEPT !.step = "abandoning"]
      BY <2>4 DEF CloseWake
    <3>4. QED
      BY <2>1, <2>2, <3>1, <3>2, <3>3 DEF CloseSteps
  <2>5. CASE AbandonItem \/ AbandonHeld
    BY <2>1, <2>5 DEF AbandonItem, AbandonHeld, queue_vars, wake_vars
  <2>6. CASE CloseReturn
    BY <2>1, <2>2, <2>6 DEF CloseReturn, CloseSteps, queue_vars, wake_vars
  <2>7. QED
    BY <1>5, <2>3, <2>4, <2>5, <2>6 DEF CloseStep
<1>6. CASE UNCHANGED vars
  BY <1>6 DEF vars, queue_vars, wake_vars, close_vars
<1>7. QED
  BY <1>1, <1>2, <1>3, <1>4, <1>5, <1>6 DEF Next
-----------------------------------------------------------------------------
(* Lists of items under the operations of the queue.                       *)
LEMMA EmptyList ==
  /\ <<>> \in Seq(Items) /\ Final(<<>>)
  /\ \A r : ~HasLast(<<>>, r) /\ ~Mentions(<<>>, r)
BY DEF Final, HasLast, Mentions

LEMMA AppendedList ==
  ASSUME NEW s \in Seq(Items), NEW item \in Items
  PROVE  /\ Append(s, item) \in Seq(Items)
         /\ \A r : HasLast(Append(s, item), r) <=>
                     HasLast(s, r) \/ (item.last /\ item.reg = r)
         /\ \A r : Mentions(Append(s, item), r) <=> Mentions(s, r) \/ item.reg = r
         /\ Final(s) /\ ~HasLast(s, item.reg) => Final(Append(s, item))
<1> DEFINE t == Append(s, item)
<1>1. /\ t \in Seq(Items) /\ Len(s) \in Nat /\ Len(t) = Len(s) + 1
      /\ \A i \in 1 .. Len(s) : t[i] = s[i]
      /\ t[Len(s) + 1] = item
      /\ DOMAIN s = 1 .. Len(s) /\ DOMAIN t = 1 .. Len(s) + 1
  OBVIOUS
<1> HIDE DEF t
<1>2. \A r : HasLast(t, r) <=> HasLast(s, r) \/ (item.last /\ item.reg = r)
  BY <1>1 DEF HasLast
<1>3. \A r : Mentions(t, r) <=> Mentions(s, r) \/ item.reg = r
  BY <1>1 DEF Mentions
<1>4. Final(s) /\ ~HasLast(s, item.reg) => Final(t)
  BY <1>1 DEF Final, HasLast
<1>5. QED
  BY <1>1, <1>2, <1>3, <1>4 DEF t

LEMMA TailOfList ==
  ASSUME NEW s \in Seq(Items), s # <<>>
  PROVE  /\ Head(s) \in Items /\ Tail(s) \in Seq(Items)
         /\ \A r : HasLast(s, r) <=>
                     HasLast(Tail(s), r) \/ (Head(s).last /\ Head(s).reg = r)
         /\ \A r : Mentions(s, r) <=> Mentions(Tail(s), r) \/ Head(s).reg = r
         /\ Final(s) => Final(Tail(s))
         /\ Final(s) /\ Head(s).last => ~Mentions(Tail(s), Head(s).reg)
<1> DEFINE h == Head(s)
           t == Tail(s)
<1>1. /\ h \in Items /\ t \in Seq(Items) /\ Len(s) \in Nat \ {0} /\ h = s[1]
      /\ DOMAIN s = 1 .. Len(s) /\ DOMAIN t = 1 .. Len(s) - 1
      /\ \A i \in 1 .. Len(s) - 1 : t[i] = s[i + 1]
  OBVIOUS
<1> HIDE DEF h, t
<1>2. \A i \in DOMAIN s : i = 1 \/ (i - 1 \in DOMAIN t /\ t[i - 1] = s[i])
  BY <1>1
<1>3. \A i \in DOMAIN t : i + 1 \in DOMAIN s /\ t[i] = s[i + 1]
  BY <1>1
<1>a. 1 \in DOMAIN s /\ s[1] = h
  BY <1>1
<1>4. \A r : HasLast(s, r) <=> HasLast(t, r) \/ (h.last /\ h.reg = r)
  <2>1. \A r : HasLast(s, r) => HasLast(t, r) \/ (h.last /\ h.reg = r)
    BY <1>a, <1>2 DEF HasLast
  <2>2. \A r : HasLast(t, r) \/ (h.last /\ h.reg = r) => HasLast(s, r)
    BY <1>a, <1>3 DEF HasLast
  <2>3. QED
    BY <2>1, <2>2
<1>5. \A r : Mentions(s, r) <=> Mentions(t, r) \/ h.reg = r
  <2>1. \A r : Mentions(s, r) => Mentions(t, r) \/ h.reg = r
    BY <1>a, <1>2 DEF Mentions
  <2>2. \A r : Mentions(t, r) \/ h.reg = r => Mentions(s, r)
    BY <1>a, <1>3 DEF Mentions
  <2>3. QED
    BY <2>1, <2>2
<1>6. Final(s) => Final(t)
  BY <1>1, <1>3 DEF Final
<1>7. Final(s) /\ h.last => ~Mentions(t, h.reg)
  BY <1>1, <1>3 DEF Final, Mentions
<1>8. QED
  BY <1>1, <1>4, <1>5, <1>6, <1>7 DEF h, t

LEMMA JoinedLists ==
  ASSUME NEW s \in Seq(Items), NEW t \in Seq(Items)
  PROVE  /\ s \o t \in Seq(Items)
         /\ \A r : HasLast(s \o t, r) <=> HasLast(s, r) \/ HasLast(t, r)
         /\ Final(s) /\ Final(t) /\ (\A r \in Registrations : HasLast(s, r) => ~Mentions(t, r))
              => Final(s \o t)
<1> DEFINE j == s \o t
<1>1. /\ j \in Seq(Items) /\ Len(s) \in Nat /\ Len(t) \in Nat
      /\ DOMAIN s = 1 .. Len(s) /\ DOMAIN t = 1 .. Len(t)
      /\ DOMAIN j = 1 .. Len(s) + Len(t)
      /\ \A i \in 1 .. Len(s) : j[i] = s[i]
      /\ \A i \in Len(s) + 1 .. Len(s) + Len(t) : j[i] = t[i - Len(s)]
      /\ \A i \in 1 .. Len(t) : i + Len(s) \in DOMAIN j /\ j[i + Len(s)] = t[i]
  OBVIOUS
<1> HIDE DEF j
<1>2. \A i \in DOMAIN j :
        \/ i \in DOMAIN s /\ j[i] = s[i]
        \/ i - Len(s) \in DOMAIN t /\ j[i] = t[i - Len(s)] /\ i > Len(s)
  BY <1>1
<1>3. \A r : HasLast(j, r) <=> HasLast(s, r) \/ HasLast(t, r)
  <2> TAKE r
  <2>1. HasLast(j, r) => HasLast(s, r) \/ HasLast(t, r)
    BY <1>2 DEF HasLast
  <2>2. HasLast(s, r) => HasLast(j, r)
    BY <1>1 DEF HasLast
  <2>3. HasLast(t, r) => HasLast(j, r)
    BY <1>1 DEF HasLast
  <2>4. QED
    BY <2>1, <2>2, <2>3
<1>4. ASSUME Final(s), Final(t),
             \A r \in Registrations : HasLast(s, r) => ~Mentions(t, r)
      PROVE  Final(j)
  <2> SUFFICES ASSUME NEW a \in DOMAIN j, NEW b \in DOMAIN j,
                      j[a].last, j[a].reg = j[b].reg, b > a
               PROVE  FALSE
    BY <1>1 DEF Final
  <2>1. CASE a \in DOMAIN s /\ b \in DOMAIN s
    BY <1>1, <1>4, <2>1 DEF Final
  <2>2. CASE a \in DOMAIN s /\ b > Len(s)
    <3>1. b - Len(s) \in DOMAIN t /\ j[b] = t[b - Len(s)] /\ j[a] = s[a]
      BY <1>1, <2>2
    <3>2. s[a].reg \in Registrations
      <4>1. s[a] \in Items
        BY <2>2
      <4>2. QED
        BY <4>1 DEF Items
    <3>3. QED
      BY <1>4, <2>2, <3>1, <3>2 DEF HasLast, Mentions
  <2>3. CASE a > Len(s)
    <3>1. /\ b - Len(s) \in DOMAIN t /\ j[b] = t[b - Len(s)]
          /\ a - Len(s) \in DOMAIN t /\ j[a] = t[a - Len(s)]
          /\ b - Len(s) > a - Len(s)
      BY <1>1, <2>3
    <3>2. b - Len(s) <= a - Len(s)
      BY <1>4, <3>1 DEF Final
    <3>3. QED
      BY <1>1, <3>1, <3>2
  <2>4. QED
    BY <1>1, <1>2, <2>1, <2>2, <2>3
<1>5. QED
  BY <1>1, <1>3, <1>4 DEF j

(* push_event(): an event that joins an item changes neither its owner nor *)
(* its place.                                                              *)
LEMMA EventJoins ==
  ASSUME ItemInv, NEW r \in Registrations, JoinsTail(r), AppendEvent(r)
  PROVE  /\ head' \in Seq(Items) /\ serial' \in Nat
         /\ \A u : HasLast(head', u) <=> HasLast(head, u)
         /\ \A u : Mentions(head', u) <=> Mentions(head, u)
         /\ Final(head) => Final(head')
<1> DEFINE n == Max(EventItems(r))
<1>1. n \in DOMAIN head
  BY DEF EventItems, JoinsTail, Max, ItemInv
<1> DEFINE item == [head[n] EXCEPT !.calls = Append(@, serial + 1)]
<1>2. head \in Seq(Items) /\ serial + 1 \in Nat /\ head[n] \in Items
  BY <1>1 DEF ItemInv
<1>3. head[n].calls \in Seq(Nat)
  BY <1>2 DEF Items
<1>4. Append(head[n].calls, serial + 1) \in Seq(Nat)
  BY <1>2, <1>3
<1>5. item \in Items /\ item.last = head[n].last /\ item.reg = head[n].reg
  BY <1>2, <1>4 DEF Items
<1>6. head' = [head EXCEPT ![n] = item] /\ serial' = serial + 1
  BY DEF AppendEvent
<1> HIDE DEF n, item
<1>7. /\ head' \in Seq(Items) /\ DOMAIN head' = DOMAIN head
      /\ head'[n] = item /\ \A i \in DOMAIN head \ {n} : head'[i] = head[i]
  BY <1>1, <1>2, <1>5, <1>6
<1>8. \A i \in DOMAIN head : head'[i].last = head[i].last /\ head'[i].reg = head[i].reg
  BY <1>5, <1>7
<1>9. QED
  BY <1>2, <1>6, <1>7, <1>8 DEF HasLast, Mentions, Final
-----------------------------------------------------------------------------
(* What each place says, now and after a step.                             *)
LEMMA PlacesAre ==
  \A u : /\ InPlace(u, "held") <=> u \in held
         /\ InPlace(u, "running") <=> HasLast(running, u)
         /\ InPlace(u, "head") <=> HasLast(head, u)
         /\ InPlace(u, "call") <=>
              \E d \in Dispatchers : At(d, "call") /\ current[d].last /\ current[d].reg = u
         /\ InPlace(u, "taken items") <=> HasLast(taken.items, u)
         /\ InPlace(u, "taken held") <=> u \in taken.held
         /\ InPlace(u, "released") <=> released[u] # 0
         /\ InPlace(u, "abandoned") <=> abandoned[u] # 0
BY DEF InPlace

LEMMA PlacesWillBe ==
  \A u : /\ InPlace(u, "held")' <=> u \in held'
         /\ InPlace(u, "running")' <=> HasLast(running', u)
         /\ InPlace(u, "head")' <=> HasLast(head', u)
         /\ InPlace(u, "call")' <=>
              \E d \in Dispatchers : At(d, "call")' /\ current'[d].last /\ current'[d].reg = u
         /\ InPlace(u, "taken items")' <=> HasLast(taken'.items, u)
         /\ InPlace(u, "taken held")' <=> u \in taken'.held
         /\ InPlace(u, "released")' <=> released'[u] # 0
         /\ InPlace(u, "abandoned")' <=> abandoned'[u] # 0
BY DEF InPlace

(* Steps that leave the duty where it is.                                  *)
LEMMA PlaceKept ==
  ASSUME NEW u, NEW p,
         p = "held" => (u \in held' <=> u \in held),
         p = "running" => UNCHANGED running,
         p = "head" => (HasLast(head', u) <=> HasLast(head, u)),
         p = "call" => /\ UNCHANGED current
                       /\ \A d \in Dispatchers : At(d, "call")' <=> At(d, "call"),
         p \in {"taken items", "taken held"} => UNCHANGED taken,
         p = "released" => UNCHANGED released,
         p = "abandoned" => UNCHANGED abandoned
  PROVE  InPlace(u, p)' <=> InPlace(u, p)
<1>1. CASE p = "held"
  BY <1>1, PlacesAre, PlacesWillBe
<1>2. CASE p = "running"
  BY <1>2, PlacesAre, PlacesWillBe
<1>3. CASE p = "head"
  BY <1>3, PlacesAre, PlacesWillBe
<1>4. CASE p = "call"
  BY <1>4, PlacesAre, PlacesWillBe
<1>5. CASE p = "taken items"
  BY <1>5, PlacesAre, PlacesWillBe
<1>6. CASE p = "taken held"
  BY <1>6, PlacesAre, PlacesWillBe
<1>7. CASE p = "released"
  BY <1>7, PlacesAre, PlacesWillBe
<1>8. CASE p = "abandoned"
  BY <1>8, PlacesAre, PlacesWillBe
<1>9. CASE p \notin Places
  BY <1>9 DEF InPlace, Places
<1>10. QED
  BY <1>1, <1>2, <1>3, <1>4, <1>5, <1>6, <1>7, <1>8, <1>9 DEF Places

LEMMA PlacesKept ==
  ASSUME UNCHANGED <<held, running, taken, current, released, abandoned>>,
         \A d \in Dispatchers : At(d, "call")' <=> At(d, "call"),
         \A u : HasLast(head', u) <=> HasLast(head, u)
  PROVE  \A u, p : InPlace(u, p)' <=> InPlace(u, p)
<1> SUFFICES ASSUME NEW u, NEW p PROVE InPlace(u, p)' <=> InPlace(u, p)
  OBVIOUS
<1>1. QED
  BY PlaceKept

LEMMA QuietParts ==
  ASSUME ItemInv, OnePlace, OrderInv, serial' \in Nat,
         UNCHANGED <<head, running, held, taken, current, released, abandoned>>,
         \A d \in Dispatchers : At(d, "call")' <=> At(d, "call")
  PROVE  /\ \A u, p : InPlace(u, p)' <=> InPlace(u, p)
         /\ ItemInv' /\ OnePlace' /\ OrderInv'
<1>1. \A u, p : InPlace(u, p)' <=> InPlace(u, p)
  BY PlacesKept
<1>2. ItemInv'
  BY DEF ItemInv, At
<1>3. OnePlace'
  BY <1>1 DEF OnePlace
<1>4. OrderInv'
  BY <1>1 DEF OrderInv, At
<1>5. QED
  BY <1>1, <1>2, <1>3, <1>4

LEMMA QuietStep ==
  ASSUME SettleInv, serial' \in Nat,
         UNCHANGED <<head, running, held, taken, current, released, abandoned,
                     registration, hold, live>>,
         closed' \/ closer'.step # "open" => ~live', closed => closed',
         \A d \in Dispatchers : At(d, "call")' <=> At(d, "call")
  PROVE  SettleInv'
<1>1. /\ \A u, p : InPlace(u, p)' <=> InPlace(u, p)
      /\ ItemInv' /\ OnePlace' /\ OrderInv'
  BY QuietParts DEF SettleInv
<1>2. LifeInv'
  BY <1>1 DEF SettleInv, LifeInv, Registering
<1>3. QED
  BY <1>1, <1>2 DEF SettleInv

(* A push: no last call of its registration is queued or has run.          *)
LEMMA PushStep ==
  ASSUME SettleInv, NEW r \in Registrations, registration[r] = "accepted",
         UNCHANGED <<running, held, taken, current, released, abandoned, dispatcher,
                     registration, hold, live, closed, closer>>,
         serial' \in Nat, head' \in Seq(Items), Final(head) => Final(head'),
         \A u : HasLast(head', u) <=> HasLast(head, u),
         \A u : Mentions(head', u) => Mentions(head, u) \/ u = r
  PROVE  SettleInv'
<1>1. \A u, p : InPlace(u, p)' <=> InPlace(u, p)
  BY PlacesKept DEF At
<1>2. /\ ~InPlace(r, "running") /\ ~InPlace(r, "call") /\ ~InPlace(r, "released")
      /\ ~HasLast(running, r)
  <2>1. /\ ~InPlace(r, "running") /\ ~InPlace(r, "call") /\ ~InPlace(r, "released")
    BY DEF SettleInv, LifeInv, Places
  <2>2. QED
    BY <2>1 DEF InPlace
<1>3. ItemInv'
  BY DEF SettleInv, ItemInv, At
<1>4. LifeInv'
  BY <1>1 DEF SettleInv, LifeInv, Registering
<1>5. OnePlace'
  BY <1>1 DEF SettleInv, OnePlace
<1>6. OrderInv'
  BY <1>1, <1>2 DEF SettleInv, OrderInv, At
<1>7. QED
  BY <1>3, <1>4, <1>5, <1>6 DEF SettleInv

LEMMA RunningIsPlace == "running" \in Places /\ "call" \in Places
BY DEF Places

(* LifeInv in steps that move no registration, and the duty towards the    *)
(* last call only.                                                         *)
LEMMA LifeKept ==
  ASSUME LifeInv, UNCHANGED <<registration, hold, held, live, closed, closer>>,
         \A r \in Registrations, p \in Places : InPlace(r, p)' =>
           \/ InPlace(r, p)
           \/ /\ p \in {"running", "call", "released"}
              /\ InPlace(r, "running") \/ InPlace(r, "call")
  PROVE  LifeInv'
<1>1. ASSUME NEW r \in Registrations, InPlace(r, "running") \/ InPlace(r, "call")
      PROVE  registration[r] = "retired"
  <2>1. {"running", "call"} \subseteq Places
    BY DEF Places
  <2>2. QED
    BY <1>1, <2>1 DEF LifeInv
<1>2. ASSUME NEW r \in Registrations, NEW p \in Places, InPlace(r, p)'
      PROVE  /\ registration[r] \notin {"none", "resolved"}
             /\ registration[r] # "retired" => p \in {"held", "taken held", "abandoned"}
             /\ registration[r] = "rejected" => ~HostKeepsQueue
             /\ p \in {"taken items", "taken held", "abandoned"} => closed
  <2>1. CASE InPlace(r, p)
    BY <2>1 DEF LifeInv
  <2>2. CASE p \in {"running", "call", "released"} /\ registration[r] = "retired"
    BY <2>2
  <2>3. QED
    BY <1>1, <1>2, <2>1, <2>2
<1>3. QED
  BY <1>2 DEF LifeInv, Registering

(* ... and in those that move one registration.                            *)
LEMMA LifeMoves ==
  ASSUME LifeInv, UNCHANGED <<live, closed, closer>>, NEW r \in Registrations,
         registration' \in [Registrations -> Lives], hold' \in [Registrations -> BOOLEAN],
         \A u \in Registrations \ {r} : /\ registration'[u] = registration[u]
                                       /\ hold'[u] = hold[u] /\ (u \in held' <=> u \in held),
         HostKeepsQueue /\ ~live => ~Registering(r)',
         registration'[r] = "constructed" /\ r \in held' => hold'[r],
         \A u \in Registrations \ {r}, p \in Places : InPlace(u, p)' => InPlace(u, p),
         \A p \in Places : InPlace(r, p)' =>
           /\ registration'[r] \notin {"none", "resolved"}
           /\ registration'[r] # "retired" => p \in {"held", "taken held", "abandoned"}
           /\ registration'[r] = "rejected" => ~HostKeepsQueue
           /\ p \in {"taken items", "taken held", "abandoned"} => closed
  PROVE  LifeInv'
<1>1. HostKeepsQueue /\ ~live => \A u \in Registrations : ~Registering(u)'
  BY DEF LifeInv, Registering
<1>2. \A u \in Registrations : registration'[u] = "constructed" /\ u \in held' => hold'[u]
  BY DEF LifeInv
<1>3. ASSUME NEW u \in Registrations, NEW p \in Places, InPlace(u, p)'
      PROVE  /\ registration'[u] \notin {"none", "resolved"}
             /\ registration'[u] # "retired" => p \in {"held", "taken held", "abandoned"}
             /\ registration'[u] = "rejected" => ~HostKeepsQueue
             /\ p \in {"taken items", "taken held", "abandoned"} => closed
  <2>1. CASE u = r
    BY <1>3, <2>1
  <2>2. CASE u # r
    BY <1>3, <2>2 DEF LifeInv
  <2>3. QED
    BY <2>1, <2>2
<1>4. live' \in BOOLEAN /\ (closed' \/ closer'.step # "open" => ~live')
  BY DEF LifeInv
<1>5. QED
  BY <1>1, <1>2, <1>3, <1>4 DEF LifeInv

LEMMA RegistrationSettles ==
  ASSUME SettleInv, NEW r \in Registrations, RegistrationStep(r)
  PROVE  SettleInv'
<1>0. /\ UNCHANGED <<running, closed, dispatcher, current, live, closer, taken,
                     released, abandoned>>
      /\ ItemInv /\ LifeInv /\ OnePlace /\ OrderInv
  BY DEF RegistrationStep, thread_vars, close_vars, SettleInv
<1> DEFINE Moves(step) == registration' = [registration EXCEPT ![r] = step]
<1>1. ASSUME NEW step \in Lives, Moves(step)
      PROVE  /\ registration' \in [Registrations -> Lives]
             /\ registration'[r] = step
             /\ \A u \in Registrations \ {r} : registration'[u] = registration[u]
  BY <1>0, <1>1 DEF LifeInv
<1>2. CASE Resolve(r)
  <2>1. /\ \A u, p : InPlace(u, p)' <=> InPlace(u, p)
        /\ ItemInv' /\ OnePlace' /\ OrderInv'
    BY <1>0, <1>2, QuietParts DEF Resolve, ItemInv, At
  <2>2. LifeInv'
    <3>1. live /\ registration[r] = "none" /\ Moves("resolved") /\ UNCHANGED <<held, hold>>
      BY <1>2 DEF Resolve, MovesTo
    <3>2. \A p \in Places : ~InPlace(r, p)'
      BY <1>0, <2>1, <3>1 DEF LifeInv
    <3>3. /\ registration' \in [Registrations -> Lives] /\ registration'[r] = "resolved"
          /\ \A u \in Registrations \ {r} : registration'[u] = registration[u]
      BY <1>1, <3>1 DEF Lives
    <3>4. hold' \in [Registrations -> BOOLEAN]
      BY <1>0, <3>1 DEF LifeInv
    <3>5. QED
      BY <1>0, <2>1, <3>1, <3>2, <3>3, <3>4, LifeMoves
  <2>3. QED
    BY <2>1, <2>2 DEF SettleInv
<1>3. CASE AcceptRegistration(r)
  <2>1. /\ \A u, p : InPlace(u, p)' <=> InPlace(u, p)
        /\ ItemInv' /\ OnePlace' /\ OrderInv'
    BY <1>0, <1>3, QuietParts DEF AcceptRegistration, ItemInv, At
  <2>2. LifeInv'
    <3>1. registration[r] = "constructed" /\ Moves("accepted") /\ UNCHANGED <<held, hold>>
      BY <1>3 DEF AcceptRegistration, MovesTo
    <3>2. HostKeepsQueue => live
      BY <1>0, <3>1 DEF LifeInv, Registering
    <3>3. /\ registration' \in [Registrations -> Lives] /\ registration'[r] = "accepted"
          /\ \A u \in Registrations \ {r} : registration'[u] = registration[u]
      BY <1>1, <3>1 DEF Lives
    <3>4. hold' \in [Registrations -> BOOLEAN]
      BY <1>0, <3>1 DEF LifeInv
    <3>5. \A p \in Places : InPlace(r, p) =>
            /\ p \in {"held", "taken held", "abandoned"}
            /\ p \in {"taken items", "taken held", "abandoned"} => closed
      BY <1>0, <3>1 DEF LifeInv
    <3>6. QED
      BY <1>0, <2>1, <3>1, <3>2, <3>3, <3>4, <3>5, LifeMoves
  <2>3. QED
    BY <2>1, <2>2 DEF SettleInv
<1>4. CASE Construct(r)
  <2>1. /\ registration[r] = "resolved" /\ Moves("constructed") /\ UNCHANGED <<head, serial>>
        /\ \A p \in Places : ~InPlace(r, p)
    BY <1>0, <1>4 DEF Construct, MovesTo, LifeInv
  <2>2. CASE UNCHANGED <<held, hold>> /\ (~HasAbandonHook \/ closed)
    <3>1. /\ \A u, p : InPlace(u, p)' <=> InPlace(u, p)
          /\ ItemInv' /\ OnePlace' /\ OrderInv'
      BY <1>0, <2>1, <2>2, QuietParts DEF ItemInv, At
    <3>2. r \notin held
      BY <2>1, PlacesAre DEF Places
    <3>a. HostKeepsQueue => live
      BY <1>0, <2>1 DEF LifeInv, Registering
    <3>b. /\ registration' \in [Registrations -> Lives] /\ registration'[r] = "constructed"
          /\ \A u \in Registrations \ {r} : registration'[u] = registration[u]
      BY <1>1, <2>1 DEF Lives
    <3>c. hold' \in [Registrations -> BOOLEAN]
      BY <1>0, <2>2 DEF LifeInv
    <3>3. LifeInv'
      BY <1>0, <2>1, <2>2, <3>1, <3>2, <3>a, <3>b, <3>c, LifeMoves
    <3>4. QED
      BY <3>1, <3>3 DEF SettleInv
  <2>3. CASE ~closed /\ held' = held \union {r} /\ hold' = [hold EXCEPT ![r] = TRUE]
    <3>1. \A u, p : InPlace(u, p)' <=> InPlace(u, p) \/ (u = r /\ p = "held")
      <4>1. \A d : At(d, "call")' <=> At(d, "call")
        BY <1>0 DEF At
      <4>2. QED
        <5> SUFFICES ASSUME NEW u, NEW p
                     PROVE InPlace(u, p)' <=> InPlace(u, p) \/ (u = r /\ p = "held")
          OBVIOUS
        <5>1. CASE p = "held"
          BY <2>3, <5>1, PlacesAre, PlacesWillBe
        <5>2. CASE p # "held"
          BY <1>0, <2>1, <4>1, <5>2, PlaceKept
        <5>3. QED
          BY <5>1, <5>2
    <3>2. ItemInv'
      BY <1>0, <2>1, <2>3 DEF ItemInv, At
    <3>3. OnePlace'
      BY <1>0, <2>1, <3>1 DEF OnePlace
    <3>4. OrderInv'
      BY <1>0, <2>1, <3>1 DEF OrderInv, At
    <3>5. hold' \in [Registrations -> BOOLEAN] /\ hold'[r] /\
          \A u \in Registrations \ {r} : hold'[u] = hold[u]
      BY <1>0, <2>3 DEF LifeInv
    <3>a. HostKeepsQueue => live
      BY <1>0, <2>1 DEF LifeInv, Registering
    <3>b. /\ registration' \in [Registrations -> Lives] /\ registration'[r] = "constructed"
          /\ \A u \in Registrations \ {r} : /\ registration'[u] = registration[u]
                                            /\ (u \in held' <=> u \in held)
      BY <1>1, <2>1, <2>3 DEF Lives
    <3>6. LifeInv'
      BY <1>0, <2>1, <3>1, <3>5, <3>a, <3>b, LifeMoves
    <3>7. QED
      BY <3>2, <3>3, <3>4, <3>6 DEF SettleInv
  <2>4. QED
    BY <1>4, <2>2, <2>3 DEF Construct
<1>5. CASE RejectRegistration(r)
  <2>1. /\ registration[r] = "constructed" /\ Moves("rejected") /\ UNCHANGED <<head, serial>>
        /\ hold' = [hold EXCEPT ![r] = FALSE]
        /\ held' = IF hold[r] /\ ~closed THEN held \ {r} ELSE held
    BY <1>5 DEF RejectRegistration, MovesTo
  <2>2. \A u, p : InPlace(u, p)' <=> InPlace(u, p) /\ ~(u = r /\ p = "held" /\ ~closed)
    <3> SUFFICES ASSUME NEW u, NEW p
                 PROVE  InPlace(u, p)' <=>
                          InPlace(u, p) /\ ~(u = r /\ p = "held" /\ ~closed)
      OBVIOUS
    <3>1. held' = IF ~closed THEN held \ {r} ELSE held
      BY <1>0, <2>1 DEF LifeInv
    <3>2. CASE p = "held"
      BY <3>1, <3>2, PlacesAre, PlacesWillBe
    <3>3. \A d : At(d, "call")' <=> At(d, "call")
      BY <1>0 DEF At
    <3>4. CASE p # "held"
      BY <1>0, <2>1, <3>3, <3>4, PlaceKept
    <3>5. QED
      BY <3>2, <3>4
  <2>3. ItemInv'
    BY <1>0, <2>1 DEF ItemInv, At
  <2>4. OnePlace'
    BY <1>0, <2>2 DEF OnePlace
  <2>5. OrderInv'
    BY <1>0, <2>1, <2>2 DEF OrderInv, At
  <2>6. /\ hold' \in [Registrations -> BOOLEAN]
        /\ \A u \in Registrations \ {r} : hold'[u] = hold[u] /\ (u \in held' <=> u \in held)
    BY <1>0, <2>1 DEF LifeInv
  <2>7. /\ HostKeepsQueue => ~closed
        /\ \A p \in Places : InPlace(r, p) =>
             /\ p \in {"held", "taken held", "abandoned"}
             /\ p \in {"taken items", "taken held", "abandoned"} => closed
    BY <1>0, <2>1 DEF LifeInv, Registering
  <2>a. /\ registration' \in [Registrations -> Lives] /\ registration'[r] = "rejected"
        /\ \A u \in Registrations \ {r} : registration'[u] = registration[u]
    BY <1>1, <2>1 DEF Lives
  <2>8. LifeInv'
    BY <1>0, <2>1, <2>2, <2>6, <2>7, <2>a, LifeMoves DEF Registering
  <2>9. QED
    BY <2>3, <2>4, <2>5, <2>8 DEF SettleInv
<1>6. CASE Push(r)
  <2>1. registration[r] = "accepted" /\ UNCHANGED <<registration, held, hold>>
    BY <1>6 DEF Push
  <2>2. CASE UNCHANGED <<head, serial>>
    BY <1>0, <2>1, <2>2, QuietStep DEF ItemInv, LifeInv, At
  <2>3. CASE JoinsTail(r) /\ AppendEvent(r)
    BY <1>0, <2>1, <2>3, EventJoins, PushStep
  <2>4. CASE AppendItem(r, FALSE)
    <3> DEFINE item == NewItem(r, FALSE)
    <3>1. item \in Items /\ item.last = FALSE /\ item.reg = r
      BY <1>0 DEF NewItem, Items, ItemInv
    <3>2. head' = Append(head, item) /\ serial' = serial + 1 /\ serial' \in Nat
      BY <1>0, <2>4 DEF AppendItem, Appended, ItemInv
    <3>3. ~HasLast(head, r)
      <4>1. ~InPlace(r, "head")
        BY <1>0, <2>1 DEF LifeInv, Places
      <4>2. QED
        BY <4>1 DEF InPlace
    <3> HIDE DEF item
    <3>4. /\ head' \in Seq(Items) /\ (Final(head) => Final(head'))
          /\ \A u : HasLast(head', u) <=> HasLast(head, u)
          /\ \A u : Mentions(head', u) => Mentions(head, u) \/ u = r
      BY <1>0, <3>1, <3>2, <3>3, AppendedList DEF ItemInv
    <3>5. QED
      BY <1>0, <2>1, <3>2, <3>4, PushStep
  <2>5. QED
    BY <1>6, <2>2, <2>3, <2>4 DEF Push
<1>7. CASE Retire(r)
  <2>1. registration[r] = "accepted" /\ Moves("retired") /\ hold' = [hold EXCEPT ![r] = FALSE]
    BY <1>7 DEF Retire, MovesTo
  <2>2. /\ hold' \in [Registrations -> BOOLEAN]
        /\ \A u \in Registrations \ {r} : hold'[u] = hold[u]
    BY <1>0, <2>1 DEF LifeInv
  <2>3. CASE closed /\ UNCHANGED <<head, held, serial>>
    <3>1. /\ \A u, p : InPlace(u, p)' <=> InPlace(u, p)
          /\ ItemInv' /\ OnePlace' /\ OrderInv'
      BY <1>0, <2>3, QuietParts DEF ItemInv, At
    <3>2. LifeInv'
      BY <1>0, <1>1, <2>1, <2>2, <2>3, <3>1 DEF LifeInv, Registering, Lives
    <3>3. QED
      BY <3>1, <3>2 DEF SettleInv
  <2>4. CASE ~closed /\ Settles(r) /\ AppendItem(r, TRUE)
    <3> DEFINE item == NewItem(r, TRUE)
    <3>1. item \in Items /\ item.last = TRUE /\ item.reg = r
      BY <1>0 DEF NewItem, Items, ItemInv
    <3>2. head' = Append(head, item) /\ serial' \in Nat /\ held' = held \ {r}
      BY <1>0, <2>4 DEF AppendItem, Appended, Settles, ItemInv
    <3>3. /\ \A p \in Places : InPlace(r, p) => p = "held"
          /\ ~HasLast(head, r) /\ ~HasLast(running, r)
          /\ ~InPlace(r, "call") /\ ~InPlace(r, "released")
      <4>1. \A p \in Places : InPlace(r, p) => p = "held"
        BY <1>0, <2>1, <2>4 DEF LifeInv
      <4>2. ~InPlace(r, "head") /\ ~InPlace(r, "running") /\ ~InPlace(r, "call")
            /\ ~InPlace(r, "released")
        BY <4>1 DEF Places
      <4>3. QED
        BY <4>1, <4>2 DEF InPlace
    <3> HIDE DEF item
    <3>4. /\ head' \in Seq(Items) /\ Final(head')
          /\ \A u : HasLast(head', u) <=> HasLast(head, u) \/ u = r
          /\ \A u : Mentions(head', u) <=> Mentions(head, u) \/ u = r
      BY <1>0, <3>1, <3>2, <3>3, AppendedList DEF ItemInv, OrderInv
    <3>5. \A u, p : InPlace(u, p)' <=> \/ InPlace(u, p) /\ ~(u = r /\ p = "held")
                                       \/ u = r /\ p = "head"
      <4>1. \A d : At(d, "call")' <=> At(d, "call")
        BY <1>0 DEF At
      <4>2. QED
        <5> SUFFICES ASSUME NEW u, NEW p
                     PROVE InPlace(u, p)' <=> \/ InPlace(u, p) /\ ~(u = r /\ p = "held")
                                              \/ u = r /\ p = "head"
          OBVIOUS
        <5>1. CASE p = "held"
          BY <3>2, <5>1, PlacesAre, PlacesWillBe
        <5>2. CASE p = "head"
          BY <3>4, <5>2, PlacesAre, PlacesWillBe
        <5>3. CASE p \notin {"held", "head"}
          BY <1>0, <4>1, <5>3, PlaceKept
        <5>4. QED
          BY <5>1, <5>2, <5>3
    <3>6. ItemInv'
      BY <1>0, <3>2, <3>4 DEF ItemInv, At
    <3>7. OnePlace'
      BY <1>0, <3>3, <3>5 DEF OnePlace
    <3>8. OrderInv'
      BY <1>0, <3>3, <3>4, <3>5 DEF OrderInv, At
    <3>9. LifeInv'
      BY <1>0, <1>1, <2>1, <2>2, <2>4, <3>2, <3>5 DEF LifeInv, Registering, Lives
    <3>10. QED
      BY <3>6, <3>7, <3>8, <3>9 DEF SettleInv
  <2>5. QED
    BY <1>7, <2>3, <2>4 DEF Retire
<1>8. QED
  BY <1>2, <1>3, <1>4, <1>5, <1>6, <1>7 DEF RegistrationStep

LEMMA DispatchSettles ==
  ASSUME SettleInv, FlagInv, NEW d \in Dispatchers, HostDispatch(d) \/ DispatchStep(d)
  PROVE  SettleInv'
<1>0. /\ UNCHANGED <<held, closed, registration, hold, live, closer, taken, serial, abandoned>>
      /\ ItemInv /\ LifeInv /\ OnePlace /\ OrderInv
      /\ dispatcher \in [Dispatchers -> Steps]
  BY DEF HostDispatch, DispatchStep, KeptByDispatch, owner_vars, close_vars, SettleInv, FlagInv
<1>a. ASSUME NEW step, Goto(d, step)
      PROVE  /\ dispatcher'[d] = step
             /\ \A e \in Dispatchers \ {d} : dispatcher'[e] = dispatcher[e]
  BY <1>0, <1>a DEF Goto
<1>1. ASSUME UNCHANGED <<head, running, current, released>>,
             \A e \in Dispatchers : At(e, "call")' <=> At(e, "call")
      PROVE  SettleInv'
  BY <1>0, <1>1, QuietStep DEF LifeInv, ItemInv
<1>2. CASE DispatchBegin(d) \/ DispatchExchange(d) \/ DispatchCheck(d)
           \/ DispatchClear(d) \/ DispatchRecheck(d)
  <2>1. UNCHANGED <<head, running, current, released>>
    BY <1>2 DEF DispatchBegin, DispatchExchange, DispatchCheck, DispatchClear, DispatchRecheck
  <2>2. \E step \in Steps \ {"call"} : ~At(d, "call") /\ Goto(d, step)
    BY <1>2 DEF DispatchBegin, DispatchExchange, DispatchCheck, DispatchClear,
                DispatchRecheck, At, Steps
  <2>3. \A e \in Dispatchers : At(e, "call")' <=> At(e, "call")
    BY <1>a, <2>2 DEF At
  <2>4. QED
    BY <1>1, <2>1, <2>3
<1>3. CASE DispatchNested(d)
  BY <1>1, <1>3 DEF DispatchNested, thread_vars, At
<1>4. CASE DispatchTake(d)
  <2>1. At(d, "take") /\ UNCHANGED <<current, released>>
    BY <1>4 DEF DispatchTake
  <2>2. \A e \in Dispatchers : At(e, "call")' <=> At(e, "call")
    BY <1>4, <1>a, <2>1 DEF DispatchTake, At
  <2>3. CASE UNCHANGED <<head, running>>
    BY <1>1, <2>1, <2>2, <2>3
  <2>4. CASE running' = head /\ head' = <<>>
    <3>1. \A u, p : InPlace(u, p)' <=> \/ p \notin {"head", "running"} /\ InPlace(u, p)
                                       \/ p = "running" /\ InPlace(u, "head")
      <4> SUFFICES ASSUME NEW u, NEW p
                   PROVE  InPlace(u, p)' <=> \/ p \notin {"head", "running"} /\ InPlace(u, p)
                                             \/ p = "running" /\ InPlace(u, "head")
        OBVIOUS
      <4>1. CASE p = "head"
        BY <2>4, <4>1, PlacesWillBe, EmptyList
      <4>2. CASE p = "running"
        BY <2>4, <4>2, PlacesAre, PlacesWillBe
      <4>3. CASE p \notin {"head", "running"}
        BY <1>0, <2>1, <2>2, <4>3, PlaceKept
      <4>4. QED
        BY <4>1, <4>2, <4>3
    <3>2. ItemInv'
      BY <1>0, <2>1, <2>2, <2>4, EmptyList DEF ItemInv
    <3>3. LifeInv'
      BY <1>0, <3>1 DEF LifeInv, Registering, Places
    <3>4. OnePlace'
      BY <1>0, <3>1 DEF OnePlace, Places
    <3>5. OrderInv'
      BY <1>0, <2>1, <2>2, <2>4, <3>1, EmptyList DEF OrderInv
    <3>6. QED
      BY <3>2, <3>3, <3>4, <3>5 DEF SettleInv
  <2>5. QED
    BY <1>4, <2>3, <2>4 DEF DispatchTake
<1>5. CASE DispatchNext(d)
  <2>1. At(d, "next") /\ UNCHANGED <<head, released>>
    BY <1>5 DEF DispatchNext
  <2>2. CASE UNCHANGED <<running, current>> /\ Goto(d, "check")
    <3>1. \A e \in Dispatchers : At(e, "call")' <=> At(e, "call")
      BY <1>a, <2>1, <2>2 DEF At
    <3>2. QED
      BY <1>1, <2>1, <2>2, <3>1
  <2>3. CASE /\ running # <<>> /\ Goto(d, "call")
             /\ current' = [current EXCEPT ![d] = Head(running)]
             /\ running' = Tail(running)
    <3> DEFINE item == Head(running)
    <3>1. /\ item \in Items /\ running' \in Seq(Items) /\ item.reg \in Registrations
          /\ \A r : HasLast(running, r) <=>
                      HasLast(running', r) \/ (item.last /\ item.reg = r)
          /\ \A r : Mentions(running, r) <=> Mentions(running', r) \/ item.reg = r
          /\ Final(running') /\ (item.last => ~Mentions(running', item.reg))
      <4>1. running \in Seq(Items) /\ running # <<>> /\ running' = Tail(running)
            /\ Final(running)
        BY <1>0, <2>3 DEF ItemInv, OrderInv
      <4>2. item \in Items => item.reg \in Registrations
        BY DEF Items
      <4>3. QED
        BY <4>1, <4>2, TailOfList
    <3>2. /\ \A e \in Dispatchers \ {d} : ~At(e, "call") /\ ~At(e, "call")'
          /\ At(d, "call")' /\ ~At(d, "call")
      BY <1>a, <2>1, <2>3 DEF FlagInv, Inside, At
    <3>3. /\ current' \in [Dispatchers -> Items \union {NoItem}]
          /\ current'[d] = item
      BY <1>0, <2>3, <3>1 DEF ItemInv
    <3> HIDE DEF item
    <3>4. \A u, p : InPlace(u, p)' <=>
                      \/ p \notin {"running", "call"} /\ InPlace(u, p)
                      \/ p = "running" /\ HasLast(running', u)
                      \/ p = "call" /\ item.last /\ item.reg = u
      <4> SUFFICES ASSUME NEW u, NEW p
                   PROVE  InPlace(u, p)' <=>
                            \/ p \notin {"running", "call"} /\ InPlace(u, p)
                            \/ p = "running" /\ HasLast(running', u)
                            \/ p = "call" /\ item.last /\ item.reg = u
        OBVIOUS
      <4>1. CASE p = "running"
        BY <4>1, PlacesWillBe
      <4>2. CASE p = "call"
        BY <3>2, <3>3, <4>2, PlacesWillBe
      <4>3. CASE p \notin {"running", "call"}
        BY <1>0, <2>1, <4>3, PlaceKept
      <4>4. QED
        BY <4>1, <4>2, <4>3
    <3>5. \A u : /\ InPlace(u, "running") <=> HasLast(running, u)
                 /\ ~InPlace(u, "call")
      BY <3>2, PlacesAre
    <3>6. item.last => ~HasLast(running', item.reg)
      BY <3>1 DEF HasLast, Mentions
    <3>7. \A u, p : InPlace(u, p)' =>
                      \/ p \notin {"running", "call"} /\ InPlace(u, p)
                      \/ p \in {"running", "call"} /\ InPlace(u, "running")
      BY <3>1, <3>4, <3>5
    <3>8. ItemInv'
      BY <1>0, <2>1, <3>1, <3>2, <3>3 DEF ItemInv
    <3>9. LifeInv'
      BY <1>0, <2>1, <3>7, LifeKept
    <3>10. OnePlace'
      <4> SUFFICES ASSUME NEW u \in Registrations, NEW p \in Places, NEW q \in Places,
                          InPlace(u, p)', InPlace(u, q)'
                   PROVE  p = q
        BY DEF OnePlace
      <4>1. CASE p \in {"running", "call"} /\ q \in {"running", "call"}
        BY <3>4, <3>6, <4>1
      <4>2. CASE p \in {"running", "call"} /\ q \notin {"running", "call"}
        BY <1>0, <3>7, <4>2, RunningIsPlace DEF OnePlace
      <4>3. CASE p \notin {"running", "call"} /\ q \in {"running", "call"}
        BY <1>0, <3>7, <4>3, RunningIsPlace DEF OnePlace
      <4>4. CASE p \notin {"running", "call"} /\ q \notin {"running", "call"}
        BY <1>0, <3>7, <4>4 DEF OnePlace
      <4>5. QED
        BY <4>1, <4>2, <4>3, <4>4
    <3>11. OrderInv'
      <4>1. /\ Final(head') /\ Final(running') /\ Final(taken'.items)
            /\ \A r \in Registrations : HasLast(running', r) => ~Mentions(head', r)
        BY <1>0, <2>1, <3>1 DEF OrderInv
      <4>2. ASSUME NEW r \in Registrations, InPlace(r, "call")'
            PROVE  ~Mentions(running', r) /\ ~Mentions(head', r)
        BY <1>0, <2>1, <3>1, <3>4, <4>2 DEF OrderInv
      <4>3. ASSUME NEW r \in Registrations, InPlace(r, "released")'
            PROVE  /\ ~Mentions(running', r) /\ ~Mentions(head', r)
                   /\ \A e \in Dispatchers : At(e, "call")' => current'[e].reg # r
        <5>1. InPlace(r, "released")
          BY <3>4, <4>3
        <5>2. ~Mentions(running, r) /\ ~Mentions(head, r)
          BY <1>0, <5>1 DEF OrderInv
        <5>3. QED
          BY <2>1, <3>1, <3>2, <3>3, <5>2
      <4>4. QED
        BY <4>1, <4>2, <4>3 DEF OrderInv
    <3>12. QED
      BY <3>8, <3>9, <3>10, <3>11 DEF SettleInv
  <2>4. QED
    BY <1>5, <2>2, <2>3 DEF DispatchNext
<1>6. CASE DispatchReturn(d)
  <2> DEFINE item == current[d]
             n == released[item.reg] + (IF item.last THEN 1 ELSE 0)
  <2>1. /\ At(d, "call") /\ UNCHANGED <<head, running>>
        /\ current' = [current EXCEPT ![d] = NoItem] /\ Goto(d, "next")
        /\ released' = [released EXCEPT ![item.reg] = n]
    BY <1>6 DEF DispatchReturn, DropsItem
  <2>2. item \in Items /\ item.reg \in Registrations /\ item.last \in BOOLEAN
    <3>1. item \in Items
      BY <1>0, <2>1 DEF ItemInv
    <3>2. QED
      BY <3>1 DEF Items
  <2>3. \A e \in Dispatchers : ~At(e, "call")' /\ (e # d => ~At(e, "call"))
    BY <1>a, <2>1 DEF FlagInv, Inside, At
  <2>4. item.last => InPlace(item.reg, "call")
    BY <2>1, PlacesAre
  <2>5. /\ released[item.reg] \in {0, 1}
        /\ item.last => released[item.reg] = 0
    <3>1. released[item.reg] \in {0, 1}
      BY <1>0, <2>2 DEF ItemInv
    <3>2. item.last => ~InPlace(item.reg, "released")
      BY <1>0, <2>1, <2>2, <2>4 DEF OrderInv
    <3>3. QED
      BY <3>1, <3>2, PlacesAre
  <2>6. n \in {0, 1} /\ (n # 0 <=> item.last \/ released[item.reg] # 0)
    <3>1. CASE item.last
      BY <2>5, <3>1
    <3>2. CASE ~item.last
      BY <2>5, <3>2
    <3>3. QED
      BY <3>1, <3>2
  <2> HIDE DEF n, item
  <2>7. /\ released' \in [Registrations -> {0, 1}] /\ released'[item.reg] = n
        /\ \A r \in Registrations \ {item.reg} : released'[r] = released[r]
    BY <1>0, <2>1, <2>2, <2>6 DEF ItemInv
  <2>8. \A u \in Registrations : \A p : InPlace(u, p)' <=>
                    \/ p # "call" /\ InPlace(u, p)
                    \/ p = "released" /\ item.last /\ item.reg = u
    <3> SUFFICES ASSUME NEW u \in Registrations, NEW p
                 PROVE  InPlace(u, p)' <=>
                          \/ p # "call" /\ InPlace(u, p)
                          \/ p = "released" /\ item.last /\ item.reg = u
      OBVIOUS
    <3>1. CASE p = "call"
      BY <2>3, <3>1, PlacesWillBe
    <3>2. CASE p = "released"
      <4>1. /\ InPlace(u, p) <=> released[u] # 0
            /\ InPlace(u, p)' <=> released'[u] # 0
        BY <3>2, PlacesAre, PlacesWillBe
      <4>2. released'[u] # 0 <=> released[u] # 0 \/ (item.last /\ item.reg = u)
        <5>1. CASE item.reg = u
          BY <2>6, <2>7, <5>1
        <5>2. CASE item.reg # u
          BY <2>7, <5>2
        <5>3. QED
          BY <5>1, <5>2
      <4>3. QED
        BY <3>2, <4>1, <4>2
    <3>3. CASE p \notin {"call", "released"}
      BY <1>0, <2>1, <3>3, PlaceKept
    <3>4. QED
      BY <3>1, <3>2, <3>3
  <2>9. \A u \in Registrations : \A p : InPlace(u, p)' =>
                    \/ p # "call" /\ InPlace(u, p)
                    \/ p = "released" /\ InPlace(u, "call")
    BY <2>4, <2>8
  <2>10. ItemInv'
    BY <1>0, <2>1, <2>3, <2>7 DEF ItemInv
  <2>11. LifeInv'
    BY <1>0, <2>1, <2>9, LifeKept
  <2>12. OnePlace'
    <3> SUFFICES ASSUME NEW u \in Registrations, NEW p \in Places, NEW q \in Places,
                        InPlace(u, p)', InPlace(u, q)', p # q
                 PROVE  FALSE
      BY DEF OnePlace
    <3>1. CASE InPlace(u, p) /\ InPlace(u, q)
      BY <1>0, <3>1 DEF OnePlace
    <3>2. CASE ~InPlace(u, p)
      BY <1>0, <2>9, <3>2, RunningIsPlace DEF OnePlace
    <3>3. CASE ~InPlace(u, q)
      BY <1>0, <2>9, <3>3, RunningIsPlace DEF OnePlace
    <3>4. QED
      BY <3>1, <3>2, <3>3
  <2>13. OrderInv'
    <3>1. /\ Final(head') /\ Final(running') /\ Final(taken'.items)
          /\ \A r \in Registrations : HasLast(running', r) => ~Mentions(head', r)
      BY <1>0, <2>1 DEF OrderInv
    <3>2. ASSUME NEW r \in Registrations, InPlace(r, "call")' \/ InPlace(r, "released")'
          PROVE  ~Mentions(running', r) /\ ~Mentions(head', r)
      BY <1>0, <2>1, <2>9, <3>2 DEF OrderInv
    <3>3. QED
      BY <2>3, <3>1, <3>2 DEF OrderInv
  <2>14. QED
    BY <2>10, <2>11, <2>12, <2>13 DEF SettleInv
<1>7. QED
  BY <1>2, <1>3, <1>4, <1>5, <1>6 DEF HostDispatch, DispatchStep

(* close() takes the queue, and reports what it took item by item.         *)
LEMMA OneMore == \A n : n = 0 => n + 1 = 1
OBVIOUS

Taken(p) == IF p \in {"running", "head"} THEN "taken items"
            ELSE IF p = "held" THEN "taken held" ELSE p

LEMMA TakesAllSettles ==
  ASSUME SettleInv, WakeInv, CloseLock, UNCHANGED KeptByClose
  PROVE  SettleInv'
<1>0. /\ UNCHANGED <<current, dispatcher, released, abandoned, registration, hold, live, serial>>
      /\ closed' = TRUE /\ held' = {} /\ running' = <<>> /\ head' = <<>> /\ ~live
      /\ taken' = [items |-> running \o head, held |-> held]
      /\ ItemInv /\ LifeInv /\ OnePlace /\ OrderInv
  BY DEF CloseLock, TakesAll, KeptByClose, SettleInv, LifeInv, owner_vars, thread_vars
<1>1. taken'.items = running \o head /\ taken'.held = held
  BY <1>0
<1>2. /\ taken'.items \in Seq(Items) /\ Final(taken'.items)
      /\ \A u : HasLast(taken'.items, u) <=> HasLast(running, u) \/ HasLast(head, u)
  <2>1. running \in Seq(Items) /\ head \in Seq(Items)
    BY <1>0 DEF ItemInv
  <2>2. QED
    BY <1>0, <1>1, <2>1, JoinedLists DEF OrderInv
<1>3. \A d : At(d, "call")' <=> At(d, "call")
  BY <1>0 DEF At
<1>4. \A u, p : InPlace(u, p)' =>
        \/ p \in {"call", "released", "abandoned"} /\ InPlace(u, p)
        \/ p = "taken items" /\ (InPlace(u, "running") \/ InPlace(u, "head"))
        \/ p = "taken held" /\ InPlace(u, "held")
  <2> SUFFICES ASSUME NEW u, NEW p, InPlace(u, p)'
               PROVE  \/ p \in {"call", "released", "abandoned"} /\ InPlace(u, p)
                      \/ p = "taken items" /\ (InPlace(u, "running") \/ InPlace(u, "head"))
                      \/ p = "taken held" /\ InPlace(u, "held")
    OBVIOUS
  <2>1. CASE p \in {"call", "released", "abandoned"}
    BY <1>0, <1>3, <2>1, PlaceKept
  <2>2. CASE p = "taken items"
    BY <1>2, <2>2, PlacesAre, PlacesWillBe
  <2>3. CASE p = "taken held"
    BY <1>1, <2>3, PlacesAre, PlacesWillBe
  <2>4. p \notin {"held", "running", "head"}
    BY <1>0, PlacesWillBe, EmptyList
  <2>5. p \in Places
    BY DEF InPlace, Places
  <2>6. QED
    BY <2>1, <2>2, <2>3, <2>4, <2>5 DEF Places
<1>5. ItemInv'
  <2>1. taken' \in [items : Seq(Items), held : SUBSET Registrations]
    BY <1>0, <1>1, <1>2 DEF ItemInv
  <2>2. QED
    BY <1>0, <1>3, <2>1, EmptyList DEF ItemInv
<1>6. LifeInv'
  <2>1. ASSUME NEW r \in Registrations, NEW p \in Places, InPlace(r, p)'
        PROVE  /\ registration[r] \notin {"none", "resolved"}
               /\ registration[r] # "retired" => p \in {"held", "taken held", "abandoned"}
               /\ registration[r] = "rejected" => ~HostKeepsQueue
    BY <1>0, <1>4, <2>1 DEF LifeInv, Places
  <2>2. QED
    BY <1>0, <2>1 DEF LifeInv, Registering
<1>7. OnePlace'
  <2> SUFFICES ASSUME NEW r \in Registrations, NEW p \in Places, NEW q \in Places,
                      InPlace(r, p)', InPlace(r, q)'
               PROVE  p = q
    BY DEF OnePlace
  <2>1. \A k, l \in Places : InPlace(r, k) /\ InPlace(r, l) => k = l
    BY <1>0 DEF OnePlace
  <2>2. \E k \in Places : InPlace(r, k) /\ p = Taken(k)
    BY <1>4 DEF Places, Taken
  <2>3. \E k \in Places : InPlace(r, k) /\ q = Taken(k)
    BY <1>4 DEF Places, Taken
  <2>4. QED
    BY <2>1, <2>2, <2>3
<1>8. OrderInv'
  <2>1. /\ Final(head') /\ Final(running') /\ Final(taken'.items)
        /\ \A r \in Registrations : /\ HasLast(running', r) => ~Mentions(head', r)
                                   /\ ~Mentions(running', r) /\ ~Mentions(head', r)
    BY <1>0, <1>2, EmptyList
  <2>2. ASSUME NEW r \in Registrations, NEW p \in {"released"}, InPlace(r, p)'
        PROVE  InPlace(r, p)
    BY <1>4, <2>2
  <2>3. QED
    BY <1>0, <1>3, <2>1, <2>2 DEF OrderInv
<1>9. QED
  BY <1>5, <1>6, <1>7, <1>8 DEF SettleInv

(* The hook stands in for one release function: what it reports leaves     *)
(* what close() took.                                                      *)
LEMMA ReportStep ==
  ASSUME SettleInv, closed, NEW r \in Registrations, NEW from \in {"taken items", "taken held"},
         UNCHANGED <<head, running, held, current, released, registration, hold, live, serial>>,
         UNCHANGED <<closed, closer, dispatcher>>,
         taken' \in [items : Seq(Items), held : SUBSET Registrations],
         Final(taken'.items),
         InPlace(r, from), ~InPlace(r, from)',
         \A u : u # r \/ from # "taken items" =>
                  (HasLast(taken'.items, u) <=> HasLast(taken.items, u)),
         \A u : u # r \/ from # "taken held" => (u \in taken'.held <=> u \in taken.held),
         abandoned' = Reports(r)
  PROVE  SettleInv'
<1>0. ItemInv /\ LifeInv /\ OnePlace /\ OrderInv
  BY DEF SettleInv
<1>1. \A d : At(d, "call")' <=> At(d, "call")
  BY DEF At
<1>2. abandoned[r] = 0
  <2>1. ~InPlace(r, "abandoned")
    BY <1>0 DEF OnePlace, Places
  <2>2. QED
    BY <2>1, PlacesAre
<1>3. /\ abandoned' \in [Registrations -> {0, 1}]
      /\ \A u \in Registrations \ {r} : abandoned'[u] = abandoned[u]
  <2>1. abandoned \in [Registrations -> {0, 1}]
    BY <1>0 DEF ItemInv
  <2>2. abandoned' = [abandoned EXCEPT ![r] = 1] \/ abandoned' = abandoned
    <3>1. abandoned' = [abandoned EXCEPT ![r] = abandoned[r] + 1] \/ abandoned' = abandoned
      BY DEF Reports
    <3>2. abandoned[r] + 1 = 1
      BY ONLY <1>2, OneMore
    <3>3. QED
      BY <3>1, <3>2
  <2>3. QED
    BY <2>1, <2>2
<1>4. \A u \in Registrations : \A p : InPlace(u, p)' =>
        \/ InPlace(u, p) /\ (u = r => p # from)
        \/ u = r /\ p = "abandoned"
  <2> SUFFICES ASSUME NEW u \in Registrations, NEW p, InPlace(u, p)',
                      ~(u = r /\ p = "abandoned")
               PROVE  InPlace(u, p) /\ (u = r => p # from)
    OBVIOUS
  <2>0. u = r => p # from
    OBVIOUS
  <2>1. CASE p = "abandoned"
    <3>1. u # r /\ InPlace(u, "abandoned")'
      BY <2>1
    <3>2. abandoned'[u] # 0
      BY <3>1, PlacesWillBe
    <3>3. InPlace(u, "abandoned")
      BY <1>3, <3>1, <3>2, PlacesAre
    <3>4. QED
      BY <2>0, <2>1, <3>3
  <2>2. CASE p = "taken items"
    BY <2>0, <2>2, PlacesAre, PlacesWillBe
  <2>3. CASE p = "taken held"
    BY <2>0, <2>3, PlacesAre, PlacesWillBe
  <2>4. CASE p \notin {"abandoned", "taken items", "taken held"}
    BY <1>1, <2>0, <2>4, PlaceKept
  <2>5. QED
    BY <2>1, <2>2, <2>3, <2>4
<1>5. \A u \in Registrations : \A p : InPlace(u, p)' =>
        InPlace(u, p) \/ (p = "abandoned" /\ InPlace(u, from))
  BY <1>4
<1>6. ItemInv'
  BY <1>0, <1>1, <1>3 DEF ItemInv
<1>7. LifeInv'
  <2>1. ASSUME NEW u \in Registrations, NEW p \in Places, InPlace(u, p)'
        PROVE  /\ registration[u] \notin {"none", "resolved"}
               /\ registration[u] # "retired" => p \in {"held", "taken held", "abandoned"}
               /\ registration[u] = "rejected" => ~HostKeepsQueue
    BY <1>0, <1>5, <2>1 DEF LifeInv, Places
  <2>2. QED
    BY <1>0, <2>1 DEF LifeInv, Registering
<1>8. OnePlace'
  <2> SUFFICES ASSUME NEW u \in Registrations, NEW p \in Places, NEW q \in Places,
                      InPlace(u, p)', InPlace(u, q)'
               PROVE  p = q
    BY DEF OnePlace
  <2>1. CASE u # r
    BY <1>0, <1>4, <2>1 DEF OnePlace
  <2>2. CASE u = r
    <3>1. \A k \in Places : InPlace(r, k) => k = from
      BY <1>0 DEF OnePlace, Places
    <3>2. p = "abandoned" /\ q = "abandoned"
      BY <1>4, <2>2, <3>1
    <3>3. QED
      BY <3>2
  <2>3. QED
    BY <2>1, <2>2
<1>9. OrderInv'
  <2>1. ASSUME NEW u \in Registrations, NEW p \in {"call", "released"}, InPlace(u, p)'
        PROVE  InPlace(u, p)
    BY <1>5, <2>1
  <2>2. QED
    BY <1>0, <1>1, <2>1 DEF OrderInv
<1>10. QED
  BY <1>6, <1>7, <1>8, <1>9 DEF SettleInv

LEMMA CloseSettles ==
  ASSUME SettleInv, WakeInv, HostRelease \/ CloseStep
  PROVE  SettleInv'
<1>0. /\ UNCHANGED <<current, dispatcher, released, registration, hold, serial>>
      /\ ItemInv /\ LifeInv /\ OnePlace /\ OrderInv
      /\ \A d : At(d, "call")' <=> At(d, "call")
  BY DEF HostRelease, CloseStep, KeptByClose, SettleInv, owner_vars, thread_vars, At
<1>1. CASE HostRelease
  <2>1. /\ UNCHANGED <<head, running, held, closed, taken, abandoned>> /\ live' = FALSE
        /\ HostKeepsQueue => \A r \in Registrations : ~Registering(r)
    BY <1>1 DEF HostRelease, ReleaseQueue, queue_vars
  <2>2. /\ \A u, p : InPlace(u, p)' <=> InPlace(u, p)
        /\ ItemInv' /\ OnePlace' /\ OrderInv'
    BY <1>0, <2>1, QuietParts DEF ItemInv
  <2>3. LifeInv'
    BY <1>0, <2>1, <2>2 DEF LifeInv, Registering
  <2>4. QED
    BY <2>2, <2>3 DEF SettleInv
<1>2. CASE CloseStep /\ CloseLock
  BY <1>2, TakesAllSettles DEF CloseStep
<1>3. CASE CloseStep /\ (CloseWake \/ CloseReturn)
  <2>1. /\ UNCHANGED <<live, head, running, held, closed, taken, abandoned>>
        /\ closer.step # "open"
    BY <1>3 DEF CloseWake, CloseReturn, queue_vars
  <2>2. QED
    BY <1>0, <2>1, QuietStep DEF ItemInv, LifeInv
<1>4. CASE CloseStep /\ AbandonItem
  <2> DEFINE item == Head(taken.items)
  <2>1. /\ UNCHANGED <<live, head, running, held, closed, closer>> /\ closed
        /\ taken.items # <<>>
        /\ abandoned' = IF item.last THEN Reports(item.reg) ELSE abandoned
        /\ taken' = [taken EXCEPT !.items = Tail(@)]
    BY <1>4 DEF AbandonItem, WakeInv, queue_vars
  <2>2. /\ taken.items \in Seq(Items) /\ taken.held \subseteq Registrations
        /\ Final(taken.items)
    BY <1>0 DEF ItemInv, OrderInv
  <2>3. /\ taken'.items = Tail(taken.items) /\ taken'.held = taken.held
        /\ taken' = [items |-> Tail(taken.items), held |-> taken.held]
    BY <1>0, <2>1 DEF ItemInv
  <2>4. /\ item \in Items /\ taken'.items \in Seq(Items) /\ Final(taken'.items)
        /\ \A u : HasLast(taken.items, u) <=>
                    HasLast(taken'.items, u) \/ (item.last /\ item.reg = u)
        /\ item.last => ~Mentions(taken'.items, item.reg)
    BY <2>1, <2>2, <2>3, TailOfList
  <2>5. taken' \in [items : Seq(Items), held : SUBSET Registrations]
    BY <2>2, <2>3, <2>4
  <2>6. item.reg \in Registrations /\ item.last \in BOOLEAN
    BY <2>4 DEF Items
  <2> HIDE DEF item
  <2>7. CASE item.last
    <3>1. PICK r \in Registrations : r = item.reg
      BY <2>6
    <3>2. InPlace(r, "taken items") /\ ~InPlace(r, "taken items")'
      <4>1. HasLast(taken.items, r)
        BY <2>4, <2>7, <3>1
      <4>2. ~HasLast(taken'.items, r)
        BY <2>4, <2>7, <3>1 DEF HasLast, Mentions
      <4>3. QED
        BY <4>1, <4>2, PlacesAre, PlacesWillBe
    <3>3. abandoned' = Reports(r)
      BY <2>1, <2>7, <3>1
    <3>4. /\ \A u : u # r => (HasLast(taken'.items, u) <=> HasLast(taken.items, u))
          /\ \A u : u \in taken'.held <=> u \in taken.held
      BY <2>3, <2>4, <3>1
    <3>5. QED
      BY <1>0, <2>1, <2>4, <2>5, <3>2, <3>3, <3>4, ReportStep
  <2>8. CASE ~item.last
    <3>1. UNCHANGED abandoned /\ \A u : HasLast(taken'.items, u) <=> HasLast(taken.items, u)
      BY <2>1, <2>4, <2>8
    <3>2. \A u, p : InPlace(u, p)' <=> InPlace(u, p)
      <4> SUFFICES ASSUME NEW u, NEW p PROVE InPlace(u, p)' <=> InPlace(u, p)
        OBVIOUS
      <4>1. CASE p = "taken items"
        BY <3>1, <4>1, PlacesAre, PlacesWillBe
      <4>2. CASE p = "taken held"
        BY <2>3, <4>2, PlacesAre, PlacesWillBe
      <4>3. CASE p \notin {"taken items", "taken held"}
        BY <1>0, <2>1, <3>1, <4>3, PlaceKept
      <4>4. QED
        BY <4>1, <4>2, <4>3
    <3>3. ItemInv'
      BY <1>0, <2>1, <2>5, <3>1 DEF ItemInv
    <3>4. LifeInv'
      BY <1>0, <2>1, <3>2 DEF LifeInv, Registering
    <3>5. OnePlace'
      BY <1>0, <3>2 DEF OnePlace
    <3>6. OrderInv'
      BY <1>0, <2>1, <2>4, <3>2 DEF OrderInv
    <3>7. QED
      BY <3>3, <3>4, <3>5, <3>6 DEF SettleInv
  <2>9. QED
    BY <2>6, <2>7, <2>8
<1>5. CASE CloseStep /\ AbandonHeld
  <2>1. /\ UNCHANGED <<live, head, running, held, closed, closer>> /\ closed
    BY <1>5 DEF AbandonHeld, WakeInv, queue_vars
  <2>2. PICK r \in taken.held :
          /\ abandoned' = Reports(r)
          /\ taken' = [taken EXCEPT !.held = @ \ {r}]
    BY <1>5 DEF AbandonHeld
  <2>3. /\ taken.items \in Seq(Items) /\ taken.held \subseteq Registrations
        /\ Final(taken.items) /\ r \in Registrations
        /\ taken' = [items |-> taken.items, held |-> taken.held \ {r}]
    BY <1>0, <2>2 DEF ItemInv, OrderInv
  <2>4. taken'.items = taken.items /\ taken'.held = taken.held \ {r}
    BY <2>3
  <2>5. taken' \in [items : Seq(Items), held : SUBSET Registrations]
    BY <2>3
  <2>6. InPlace(r, "taken held") /\ ~InPlace(r, "taken held")'
    BY <2>2, <2>4, PlacesAre, PlacesWillBe
  <2>7. QED
    BY <1>0, <2>1, <2>2, <2>3, <2>4, <2>5, <2>6, ReportStep
<1>6. QED
  BY <1>1, <1>2, <1>3, <1>4, <1>5 DEF CloseStep

LEMMA SettleStep == SettleInv /\ FlagInv /\ WakeInv /\ [Next]_vars => SettleInv'
<1> SUFFICES ASSUME SettleInv, FlagInv, WakeInv, [Next]_vars PROVE SettleInv'
  OBVIOUS
<1>1. ASSUME UNCHANGED <<queue_vars, owner_vars, thread_vars, close_vars, serial,
                         released, abandoned>>
      PROVE  SettleInv'
  <2>1. /\ UNCHANGED <<head, running, held, taken, current, released, abandoned>>
        /\ UNCHANGED <<registration, hold, live, closed, closer, dispatcher, serial>>
    BY <1>1 DEF queue_vars, owner_vars, thread_vars, close_vars
  <2>2. /\ serial' \in Nat
        /\ \A d \in Dispatchers : At(d, "call")' <=> At(d, "call")
        /\ closed' \/ closer'.step # "open" => ~live'
    BY <2>1 DEF SettleInv, ItemInv, LifeInv, At
  <2>3. QED
    BY <2>1, <2>2, QuietStep
<1>2. ASSUME NEW r \in Registrations, NotifyStep(r) PROVE SettleInv'
  BY <1>1, <1>2 DEF NotifyStep
<1>3. CASE UNCHANGED vars
  BY <1>1, <1>3 DEF vars
<1>4. QED
  BY <1>2, <1>3, RegistrationSettles, DispatchSettles, CloseSettles DEF Next

LEMMA InitInvariant == Init => FlagInv /\ WakeInv /\ SettleInv
<1> SUFFICES ASSUME Init PROVE FlagInv /\ WakeInv /\ SettleInv
  OBVIOUS
<1>1. FlagInv
  BY DEF Init, FlagInv, Inside, NoRequestIsStranded, Steps
<1>2. WakeInv
  BY DEF Init, WakeInv, NobodyCloses, CloseSteps
<1>3. taken.items = <<>> /\ taken.held = {} /\ \A d \in Dispatchers : ~At(d, "call")
  BY DEF Init, At
<1>4. \A r \in Registrations : \A p : ~InPlace(r, p)
  <2> SUFFICES ASSUME NEW r \in Registrations, NEW p PROVE ~InPlace(r, p)
    OBVIOUS
  <2>1. released[r] = 0 /\ abandoned[r] = 0 /\ r \notin held
    BY DEF Init
  <2>2. ~HasLast(running, r) /\ ~HasLast(head, r) /\ ~HasLast(taken.items, r)
    BY <1>3, EmptyList DEF Init
  <2>3. QED
    BY <1>3, <2>1, <2>2 DEF InPlace
<1>5. ItemInv
  BY <1>3, EmptyList DEF Init, ItemInv
<1>6. LifeInv
  BY <1>4 DEF Init, LifeInv, NobodyCloses, Registering, Lives
<1>7. OnePlace
  BY <1>4 DEF OnePlace
<1>8. OrderInv
  BY <1>3, <1>4, EmptyList DEF Init, OrderInv
<1>9. QED
  BY <1>1, <1>2, <1>5, <1>6, <1>7, <1>8 DEF SettleInv
-----------------------------------------------------------------------------
(* Every reachable state of the queue satisfies the invariants above,      *)
(* whatever the host does and with no fairness assumed.                    *)
THEOREM Invariance == Safety => [](FlagInv /\ WakeInv /\ SettleInv)
<1>1. FlagInv /\ WakeInv /\ SettleInv /\ [Next]_vars => (FlagInv /\ WakeInv /\ SettleInv)'
  BY FlagStep, WakeStep, SettleStep
<1>2. QED
  BY <1>1, InitInvariant, PTL DEF Safety

(* dispatch(): of all the threads that overlap in it, one runs calls, and  *)
(* that one holds dispatching_.                                            *)
THEOREM OneDispatch == Safety => []OneDispatchAtATime
<1>1. FlagInv => OneDispatchAtATime
  <2> SUFFICES ASSUME FlagInv PROVE OneDispatchAtATime
    OBVIOUS
  <2> DEFINE inside == {d \in Dispatchers :
                          dispatcher[d] \in {"check", "take", "next", "call", "clear"}}
  <2>1. \A d \in Dispatchers : d \in inside <=> Inside(d)
    BY DEF Inside
  <2>2. inside \subseteq Dispatchers
    OBVIOUS
  <2> HIDE DEF inside
  <2>3. ~dispatching => inside = {}
    BY <2>1, <2>2 DEF FlagInv
  <2>4. ASSUME dispatching PROVE Cardinality(inside) = 1
    <3>1. PICK d \in Dispatchers : Inside(d)
      BY <2>4 DEF FlagInv
    <3>2. inside = {d}
      BY <2>1, <2>2, <3>1 DEF FlagInv
    <3>3. QED
      BY <3>2, FS_Singleton
  <2>5. QED
    BY <2>3, <2>4 DEF OneDispatchAtATime, inside
<1>2. QED
  BY <1>1, Invariance, PTL

(* dispatch(): a request that a thread leaves behind when it reports BUSY  *)
(* is always in front of a thread that has yet to look for it.             *)
THEOREM NoStrandedRequest == Safety => []NoRequestIsStranded
<1>1. FlagInv => NoRequestIsStranded
  BY DEF FlagInv
<1>2. QED
  BY <1>1, Invariance, PTL

(* append() and close(): the wake's user data outlives every wake callback *)
(* that a pushing thread has begun.                                        *)
THEOREM WakeOutlives == Safety => []WakeOutlivesItsCallback
<1>1. WakeInv => WakeOutlivesItsCallback
  BY DEF WakeInv, WakeOutlivesItsCallback
<1>2. QED
  BY <1>1, Invariance, PTL

(* push(item, hold), retire() and close(): user data is handed back once,  *)
(* by a release function or by the hook, and not when the registration was *)
(* refused to a host that keeps the queue.                                 *)
THEOREM UserDataSettled == Safety => []UserDataSettledOnce
<1>1. SettleInv => UserDataSettledOnce
  <2> SUFFICES ASSUME SettleInv, NEW r \in Registrations
               PROVE  /\ released[r] + abandoned[r] <= 1
                      /\ registration[r] = "rejected" /\ HostKeepsQueue =>
                           released[r] + abandoned[r] = 0
    BY DEF UserDataSettledOnce
  <2>1. released[r] \in {0, 1} /\ abandoned[r] \in {0, 1}
    BY DEF SettleInv, ItemInv
  <2>2. released[r] = 0 \/ abandoned[r] = 0
    <3>1. ~(InPlace(r, "released") /\ InPlace(r, "abandoned"))
      BY DEF SettleInv, OnePlace, Places
    <3>2. QED
      BY <3>1, PlacesAre
  <2>3. ASSUME registration[r] = "rejected", HostKeepsQueue
        PROVE  released[r] = 0 /\ abandoned[r] = 0
    <3>1. ~InPlace(r, "released") /\ ~InPlace(r, "abandoned")
      BY <2>3 DEF SettleInv, LifeInv, Places
    <3>2. QED
      BY <3>1, PlacesAre
  <2>4. \A m, n \in {0, 1} : m = 0 \/ n = 0 => m + n <= 1
    OBVIOUS
  <2>5. \A m, n \in {0, 1} : m = 0 /\ n = 0 => m + n = 0
    OBVIOUS
  <2>6. QED
    BY <2>1, <2>2, <2>3, <2>4, <2>5
<1>2. QED
  BY <1>1, Invariance, PTL

(* QueuedRegistration::retire() and run_call(): when user data has been    *)
(* released, no item of its registration is queued, taken or running.      *)
THEOREM ReleaseComesLast == Safety => []ReleaseIsLast
<1>1. SettleInv => ReleaseIsLast
  <2> SUFFICES ASSUME SettleInv, NEW r \in Registrations, released[r] > 0,
                      NEW item \in Outstanding(r)
               PROVE  FALSE
    BY DEF ReleaseIsLast
  <2>1. released[r] # 0
    BY DEF SettleInv, ItemInv
  <2>2. InPlace(r, "released")
    BY <2>1, PlacesAre
  <2>3. /\ ~Mentions(running, r) /\ ~Mentions(head, r)
        /\ \A d \in Dispatchers : At(d, "call") => current[d].reg # r
    BY <2>2 DEF SettleInv, OrderInv
  <2>4. item.reg = r
    BY DEF Outstanding
  <2>5. item \in ToSet(head) \/ item \in ToSet(running)
        \/ \E d \in Dispatchers : At(d, "call") /\ item = current[d]
    BY DEF Outstanding
  <2>6. ASSUME NEW list, item \in ToSet(list) PROVE Mentions(list, r)
    BY <2>4, <2>6 DEF ToSet, Mentions
  <2>7. QED
    BY <2>3, <2>4, <2>5, <2>6
<1>2. QED
  BY <1>1, Invariance, PTL
-----------------------------------------------------------------------------
(* FlattenSeq is a recursive function: what it comes to, one sequence at a *)
(* time, by way of the least member of a set of numbers.                   *)
LEMMA Least ==
  ASSUME NEW T \in SUBSET Nat, T # {}
  PROVE  \E n \in T : \A m \in T : n <= m
<1> DEFINE R == OpToRel(<, Nat)
<1>1. IsWellFoundedOn(R, Nat)
  BY NatLessThanWellFounded
<1>2. \A m, n \in Nat : m < n => <<m, n>> \in R
  BY DEF OpToRel
<1> HIDE DEF R
<1>3. PICK n \in T : \A m \in T : <<m, n>> \notin R
  BY <1>1, WFMin
<1>4. \A m \in T : m \in Nat /\ n \in Nat /\ ~(m < n)
  BY <1>2, <1>3
<1>5. \A m \in T : n <= m
  BY <1>4
<1> QED
  BY <1>3, <1>5

LEMMA UpTo ==
  ASSUME NEW N \in Nat, NEW G, 0 \in G, \A n \in 1 .. N : n - 1 \in G => n \in G
  PROVE  \A n \in 0 .. N : n \in G
<1> DEFINE T == {n \in 0 .. N : n \notin G}
<1>1. T \in SUBSET Nat /\ \A n : n \in T <=> n \in 0 .. N /\ n \notin G
  OBVIOUS
<1> HIDE DEF T
<1>2. ASSUME T # {} PROVE FALSE
  <2>1. PICK n \in T : \A m \in T : n <= m
    BY <1>1, <1>2, Least
  <2>2. n \in 1 .. N /\ n - 1 \in 0 .. N /\ ~(n <= n - 1)
    BY <1>1, <2>1
  <2> QED
    BY <1>1, <2>1, <2>2
<1> QED
  BY <1>1, <1>2

(* f[n] is the first n sequences of q, end to end.                         *)
FlatTo(f, q, n) == f[0] = <<>> /\ \A i \in 1 .. n : f[i] = f[i - 1] \o q[i]

LEMMA FlatOneMore ==
  ASSUME NEW T, NEW q \in Seq(Seq(T)), NEW n \in 1 .. Len(q),
         NEW f \in [0 .. n - 1 -> Seq(T)], FlatTo(f, q, n - 1)
  PROVE  \E g \in [0 .. n -> Seq(T)] : FlatTo(g, q, n)
<1> DEFINE v == f[n - 1] \o q[n]
<1>1. n \in Nat \ {0} /\ n - 1 \in 0 .. n - 1 /\ q[n] \in Seq(T)
  OBVIOUS
<1>2. v \in Seq(T)
  BY <1>1
<1> HIDE DEF v
<1> DEFINE g == [i \in 0 .. n |-> IF i = n THEN v ELSE f[i]]
<1>3. \A i \in 0 .. n : i # n => i \in 0 .. n - 1
  BY <1>1
<1>4. g \in [0 .. n -> Seq(T)]
  BY <1>2, <1>3
<1>5. g[n] = v /\ \A i \in 0 .. n - 1 : g[i] = f[i]
  BY <1>1
<1> HIDE DEF g
<1>6. ASSUME NEW i \in 1 .. n PROVE g[i] = g[i - 1] \o q[i]
  <2>1. i - 1 \in 0 .. n - 1
    BY <1>1
  <2>2. CASE i = n
    BY <1>5, <2>1, <2>2 DEF v
  <2>3. CASE i # n
    <3>1. i \in 1 .. n - 1 /\ i \in 0 .. n - 1
      BY <1>1, <2>3
    <3> QED
      BY <1>5, <2>1, <3>1 DEF FlatTo
  <2> QED
    BY <2>2, <2>3
<1>7. g[0] = <<>>
  BY <1>1, <1>5 DEF FlatTo
<1> QED
  BY <1>4, <1>6, <1>7 DEF FlatTo

LEMMA FlatExists ==
  ASSUME NEW T, NEW q \in Seq(Seq(T))
  PROVE  \E f \in [0 .. Len(q) -> Seq(T)] : FlatTo(f, q, Len(q))
<1> DEFINE Flat(n) == \E f \in [0 .. n -> Seq(T)] : FlatTo(f, q, n)
           Good == {n \in 0 .. Len(q) : Flat(n)}
<1>1. Len(q) \in Nat
  OBVIOUS
<1>2. Flat(0)
  <2> DEFINE g == [i \in 0 .. 0 |-> <<>>]
  <2>1. g \in [0 .. 0 -> Seq(T)] /\ FlatTo(g, q, 0)
    BY DEF FlatTo
  <2> QED
    BY <2>1
<1>3. \A n \in 1 .. Len(q) : Flat(n - 1) => Flat(n)
  BY FlatOneMore
<1> HIDE DEF Flat
<1>4. 0 \in Good /\ \A n \in 1 .. Len(q) : n - 1 \in Good => n \in Good
  BY <1>1, <1>2, <1>3
<1>5. \A n \in 0 .. Len(q) : n \in Good
  BY <1>1, <1>4, UpTo
<1>6. Flat(Len(q))
  BY <1>1, <1>5
<1> QED
  BY <1>6 DEF Flat

LEMMA FlattenIs ==
  ASSUME NEW T, NEW q \in Seq(Seq(T)), NEW h \in [0 .. Len(q) -> Seq(T)],
         FlatTo(h, q, Len(q))
  PROVE  FlattenSeq(q) = h[Len(q)] /\ FlattenSeq(q) \in Seq(T)
<1> DEFINE N == Len(q)
           Rec(f) == f = [i \in 1 .. N |-> IF i = 1 THEN q[i] ELSE f[i - 1] \o q[i]]
           F == CHOOSE f : Rec(f)
<1>1. N \in Nat /\ DOMAIN q = 1 .. N
  OBVIOUS
<1>2. CASE N = 0
  <2>1. FlattenSeq(q) = q /\ q = <<>>
    BY <1>2 DEF FlattenSeq
  <2> QED
    BY <1>2, <2>1 DEF FlatTo
<1>3. CASE N # 0
  <2>1. FlattenSeq(q) = F[N]
    BY <1>3 DEF FlattenSeq
  <2>2. h[0] = <<>> /\ (\A i \in 1 .. N : h[i] = h[i - 1] \o q[i]) /\ N \in 0 .. N
        /\ h \in [0 .. N -> Seq(T)] /\ \A i \in 1 .. N : q[i] \in Seq(T)
    BY DEF FlatTo
  <2> HIDE DEF N
  <2>3. h[1] = q[1]
    <3>1. 1 \in 1 .. N /\ 1 - 1 = 0
      BY <1>1, <1>3
    <3>2. h[1] = h[1 - 1] \o q[1] /\ q[1] \in Seq(T) /\ h[0] = <<>>
      BY <2>2, <3>1
    <3>3. h[1] = <<>> \o q[1]
      BY <3>1, <3>2
    <3> QED
      BY <3>2, <3>3
  <2> DEFINE g == [i \in 1 .. N |-> h[i]]
  <2>4. ASSUME NEW i \in 1 .. N
        PROVE  g[i] = IF i = 1 THEN q[i] ELSE g[i - 1] \o q[i]
    <3>1. i # 1 => i - 1 \in 1 .. N
      BY <1>1
    <3> QED
      BY <2>2, <2>3, <3>1
  <2>5. g = [i \in 1 .. N |-> IF i = 1 THEN q[i] ELSE g[i - 1] \o q[i]]
    BY <2>4
  <2> HIDE DEF g
  <2>6. Rec(g)
    BY <2>5
  <2>7. Rec(F)
    BY <2>6
  <2> HIDE DEF F
  <2>8. \A i \in 1 .. N : F[i] = IF i = 1 THEN q[i] ELSE F[i - 1] \o q[i]
    BY <2>7
  <2> DEFINE Good == {i \in 0 .. N : i # 0 => F[i] = h[i]}
  <2>9. 0 \in Good
    BY <1>1
  <2>10. \A i \in 1 .. N : i - 1 \in Good => i \in Good
    <3> SUFFICES ASSUME NEW i \in 1 .. N, i - 1 # 0 => F[i - 1] = h[i - 1]
                 PROVE  F[i] = h[i]
      BY <1>1
    <3>1. CASE i = 1
      BY <2>3, <2>8, <3>1
    <3>2. CASE i # 1
      <4>1. i - 1 # 0
        BY <1>1, <3>2
      <4> QED
        BY <2>2, <2>8, <3>2, <4>1
    <3> QED
      BY <3>1, <3>2
  <2>11. N \in Good
    BY <1>1, <2>2, <2>9, <2>10, UpTo
  <2>12. F[N] = h[N] /\ h[N] \in Seq(T)
    BY <1>3, <2>2, <2>11
  <2> QED
    BY <2>1, <2>12 DEF N
<1> QED
  BY <1>2, <1>3

LEMMA FlattenAppend ==
  ASSUME NEW T, NEW q \in Seq(Seq(T)), NEW x \in Seq(T)
  PROVE  FlattenSeq(Append(q, x)) = FlattenSeq(q) \o x /\ FlattenSeq(q) \in Seq(T)
<1> DEFINE N == Len(q)
           p == Append(q, x)
<1>1. N \in Nat /\ p \in Seq(Seq(T)) /\ Len(p) = N + 1 /\ p[N + 1] = x
      /\ \A i \in 1 .. N : p[i] = q[i]
  OBVIOUS
<1> HIDE DEF p
<1>2. PICK f \in [0 .. N -> Seq(T)] : FlatTo(f, q, N)
  BY FlatExists
<1>3. PICK g \in [0 .. N + 1 -> Seq(T)] : FlatTo(g, p, N + 1)
  BY <1>1, FlatExists
<1>4. FlattenSeq(q) = f[N] /\ FlattenSeq(q) \in Seq(T)
  BY <1>2, FlattenIs
<1> HIDE DEF N
<1>5. FlattenSeq(p) = g[N + 1]
  BY <1>1, <1>3, FlattenIs
<1>6. FlatTo(g, p, N)
  <2>1. \A i \in 1 .. N : i \in 1 .. N + 1
    BY <1>1
  <2> QED
    BY <1>3, <2>1 DEF FlatTo
<1> DEFINE Good == {i \in 0 .. N : g[i] = f[i]}
<1>a. 0 \in Good
  BY <1>1, <1>2, <1>6 DEF FlatTo
<1>b. ASSUME NEW i \in 1 .. N, i - 1 \in Good PROVE i \in Good
  <2>a. i \in 0 .. N
    BY <1>1
  <2>b. g[i - 1] = f[i - 1]
    BY <1>b
  <2>c. p[i] = q[i]
    BY <1>1
  <2>1. i \in 0 .. N /\ g[i - 1] = f[i - 1] /\ p[i] = q[i]
    BY <2>a, <2>b, <2>c
  <2>2. g[i] = g[i - 1] \o p[i] /\ f[i] = f[i - 1] \o q[i]
    BY <1>2, <1>6 DEF FlatTo
  <2>3. g[i] = f[i]
    BY <2>1, <2>2
  <2> QED
    BY <2>1, <2>3
<1>c. N \in 0 .. N
  BY <1>1
<1>7. N \in Good
  BY <1>1, <1>a, <1>b, <1>c, UpTo
<1>8. g[N + 1] = g[N] \o x
  <2>1. N + 1 \in 1 .. N + 1 /\ (N + 1) - 1 = N
    BY <1>1
  <2> QED
    BY <1>1, <1>3, <2>1 DEF FlatTo
<1> QED
  BY <1>4, <1>5, <1>7, <1>8 DEF p

LEMMA FlattenHead ==
  ASSUME NEW T, NEW q \in Seq(Seq(T)), q # <<>>
  PROVE  FlattenSeq(q) = Head(q) \o FlattenSeq(Tail(q)) /\ FlattenSeq(Tail(q)) \in Seq(T)
<1>0. \A a, b, c \in Seq(T) : (a \o b) \o c = a \o (b \o c)
  OBVIOUS
<1> DEFINE N == Len(q) - 1
           t == Tail(q)
<1>1. N \in Nat /\ t \in Seq(Seq(T)) /\ Len(t) = N /\ Len(q) = N + 1 /\ Head(q) = q[1]
      /\ q[1] \in Seq(T) /\ \A i \in 1 .. N : t[i] = q[i + 1] /\ t[i] \in Seq(T)
  OBVIOUS
<1> HIDE DEF t, N
<1>2. PICK f \in [0 .. N -> Seq(T)] : FlatTo(f, t, N)
  BY <1>1, FlatExists
<1>3. PICK g \in [0 .. N + 1 -> Seq(T)] :
        FlatTo(g, q, N + 1) /\ FlattenSeq(q) = g[N + 1]
  <2>1. PICK g \in [0 .. Len(q) -> Seq(T)] : FlatTo(g, q, Len(q))
    BY FlatExists
  <2>2. FlattenSeq(q) = g[Len(q)]
    BY <2>1, FlattenIs
  <2> QED
    BY <1>1, <2>1, <2>2
<1>4. FlattenSeq(t) = f[N] /\ FlattenSeq(t) \in Seq(T)
  BY <1>1, <1>2, FlattenIs
<1>5. FlattenSeq(q) = g[N + 1]
  BY <1>3
<1> DEFINE Good == {i \in 0 .. N : g[i + 1] = q[1] \o f[i]}
<1>6. 0 \in Good
  <2>1. f[0] = <<>> /\ g[0] = <<>>
    BY <1>2, <1>3 DEF FlatTo
  <2>2. g[1] = g[0] \o q[1]
    <3>1. 1 \in 1 .. N + 1 /\ 1 - 1 = 0
      BY <1>1
    <3>2. g[1] = g[1 - 1] \o q[1]
      BY <1>3, <3>1 DEF FlatTo
    <3> QED
      BY <3>1, <3>2
  <2>3. g[1] = q[1] \o f[0]
    BY <1>1, <2>1, <2>2
  <2> QED
    BY <1>1, <2>3
<1>7. ASSUME NEW i \in 1 .. N, i - 1 \in Good PROVE i \in Good
  <2>1. i \in 0 .. N /\ i - 1 \in 0 .. N /\ i + 1 \in 1 .. N + 1 /\ (i + 1) - 1 = i
        /\ (i - 1) + 1 = i
    BY <1>1
  <2>2. g[i + 1] = g[i] \o t[i]
    BY <1>1, <1>3, <2>1 DEF FlatTo
  <2>3. f[i] = f[i - 1] \o t[i]
    BY <1>2 DEF FlatTo
  <2>4. g[i] = q[1] \o f[i - 1]
    BY <1>7, <2>1
  <2>5. q[1] \in Seq(T) /\ f[i - 1] \in Seq(T) /\ t[i] \in Seq(T)
    BY <1>1, <1>2, <2>1
  <2>6. g[i + 1] = (q[1] \o f[i - 1]) \o t[i]
    BY <2>2, <2>4
  <2>7. (q[1] \o f[i - 1]) \o t[i] = q[1] \o (f[i - 1] \o t[i])
    BY <1>0, <2>5
  <2>8. g[i + 1] = q[1] \o f[i]
    BY <2>3, <2>6, <2>7
  <2> QED
    BY <2>1, <2>8
<1>8. N \in 0 .. N
  BY <1>1
<1>9. N \in Good
  BY <1>1, <1>6, <1>7, <1>8, UpTo
<1> QED
  BY <1>1, <1>4, <1>5, <1>9 DEF t
-----------------------------------------------------------------------------
(* The calls of a list of items.                                           *)
Full(list) == \A i \in DOMAIN list : list[i].calls # <<>>

LEMMA CallsAre ==
  ASSUME NEW s \in Seq(Items)
  PROVE  LET c == [i \in DOMAIN s |-> s[i].calls]
         IN  c \in Seq(Seq(Nat)) /\ Len(c) = Len(s)
<1>1. Len(s) \in Nat /\ DOMAIN s = 1 .. Len(s) /\ \A i \in 1 .. Len(s) : s[i] \in Items
  OBVIOUS
<1>2. \A i \in 1 .. Len(s) : s[i].calls \in Seq(Nat)
  BY <1>1 DEF Items
<1> QED
  BY <1>1, <1>2

LEMMA NoCalls == CallsOf(<<>>) = <<>>
<1> DEFINE c == [i \in DOMAIN <<>> |-> <<>>[i].calls]
<1>1. c = <<>>
  OBVIOUS
<1>2. FlattenSeq(<<>>) = <<>>
  BY DEF FlattenSeq
<1> QED
  BY <1>1, <1>2 DEF CallsOf

(* An item at the back brings its calls to the back ...                    *)
LEMMA CallsAppend ==
  ASSUME NEW s \in Seq(Items), NEW item \in Items
  PROVE  CallsOf(Append(s, item)) = CallsOf(s) \o item.calls /\ CallsOf(s) \in Seq(Nat)
<1> DEFINE c == [i \in DOMAIN s |-> s[i].calls]
           t == Append(s, item)
           d == [i \in DOMAIN t |-> t[i].calls]
<1>1. c \in Seq(Seq(Nat)) /\ Len(c) = Len(s)
  BY CallsAre
<1>2. item.calls \in Seq(Nat)
  BY DEF Items
<1>3. /\ Len(s) \in Nat /\ DOMAIN s = 1 .. Len(s) /\ DOMAIN t = 1 .. Len(s) + 1
      /\ t[Len(s) + 1] = item /\ \A i \in 1 .. Len(s) : t[i] = s[i]
  OBVIOUS
<1> HIDE DEF t
<1>4. /\ DOMAIN d = 1 .. Len(s) + 1 /\ d[Len(s) + 1] = item.calls
      /\ \A i \in 1 .. Len(s) : d[i] = c[i]
      /\ d = [i \in 1 .. Len(s) + 1 |-> d[i]]
  BY <1>3
<1>5. CallsOf(s) = FlattenSeq(c) /\ CallsOf(t) = FlattenSeq(d)
  BY DEF CallsOf
<1> HIDE DEF c, d
<1> DEFINE e == Append(c, item.calls)
<1>6. /\ e = [i \in 1 .. Len(s) + 1 |-> e[i]] /\ e[Len(s) + 1] = item.calls
      /\ \A i \in 1 .. Len(s) : e[i] = c[i]
  BY <1>1, <1>2, <1>3
<1> HIDE DEF e
<1>7. ASSUME NEW i \in 1 .. Len(s) + 1 PROVE d[i] = e[i]
  <2>1. CASE i = Len(s) + 1
    BY <1>4, <1>6, <2>1
  <2>2. CASE i # Len(s) + 1
    <3>1. i \in 1 .. Len(s)
      BY <1>3, <2>2
    <3> QED
      BY <1>4, <1>6, <3>1
  <2> QED
    BY <2>1, <2>2
<1>8. d = e
  BY <1>4, <1>6, <1>7
<1>9. FlattenSeq(e) = FlattenSeq(c) \o item.calls /\ FlattenSeq(c) \in Seq(Nat)
  BY <1>1, <1>2, FlattenAppend DEF e
<1> QED
  BY <1>5, <1>8, <1>9 DEF t

(* ... and the item at the front has its calls at the front.               *)
LEMMA CallsHead ==
  ASSUME NEW s \in Seq(Items), s # <<>>
  PROVE  /\ CallsOf(s) = Head(s).calls \o CallsOf(Tail(s))
         /\ CallsOf(Tail(s)) \in Seq(Nat)
<1> DEFINE c == [i \in DOMAIN s |-> s[i].calls]
           t == Tail(s)
           d == [i \in DOMAIN t |-> t[i].calls]
<1>1. c \in Seq(Seq(Nat)) /\ Len(c) = Len(s)
  BY CallsAre
<1>2. /\ Len(s) \in Nat \ {0} /\ DOMAIN s = 1 .. Len(s) /\ DOMAIN t = 1 .. Len(s) - 1
      /\ Head(s) = s[1] /\ \A i \in 1 .. Len(s) - 1 : t[i] = s[i + 1]
  OBVIOUS
<1> HIDE DEF t
<1>3. c[1] = Head(s).calls
  BY <1>2
<1>4. \A i \in 1 .. Len(s) - 1 : i + 1 \in 1 .. Len(s)
  BY <1>2
<1>5. \A i \in 1 .. Len(s) - 1 : d[i] = c[i + 1]
  BY <1>2, <1>4
<1>6. d = [i \in 1 .. Len(s) - 1 |-> d[i]]
  BY <1>2
<1>7. CallsOf(s) = FlattenSeq(c) /\ CallsOf(t) = FlattenSeq(d)
  BY DEF CallsOf
<1> HIDE DEF c, d
<1>8. c # <<>> /\ Head(c) = c[1]
  BY <1>1, <1>2
<1> DEFINE e == Tail(c)
<1>9. e \in Seq(Seq(Nat)) /\ Len(e) = Len(c) - 1
      /\ \A i \in 1 .. Len(c) - 1 : e[i] = c[i + 1]
  BY <1>1, <1>8
<1> HIDE DEF e
<1>10. d = e
  <2>1. e = [i \in 1 .. Len(e) |-> e[i]]
    BY <1>9
  <2>2. e = [i \in 1 .. Len(s) - 1 |-> e[i]]
    BY <1>1, <1>9, <2>1
  <2>3. \A i \in 1 .. Len(s) - 1 : d[i] = e[i]
    BY <1>1, <1>5, <1>9
  <2> QED
    BY <1>6, <2>2, <2>3
<1>11. FlattenSeq(c) = Head(c) \o FlattenSeq(e) /\ FlattenSeq(e) \in Seq(Nat)
  BY <1>1, <1>8, FlattenHead DEF e
<1> QED
  BY <1>3, <1>7, <1>8, <1>10, <1>11 DEF t

(* A call that joins the last item is at the back too.                     *)
LEMMA CallsJoin ==
  ASSUME NEW s \in Seq(Items), s # <<>>, NEW n \in Nat
  PROVE  LET t == [s EXCEPT ![Len(s)].calls = Append(@, n)]
         IN  CallsOf(t) = CallsOf(s) \o <<n>> /\ CallsOf(s) \in Seq(Nat)
<1> DEFINE N == Len(s)
           x == s[N]
           y == [x EXCEPT !.calls = Append(@, n)]
           t == [s EXCEPT ![N] = y]
           f == [i \in 1 .. N - 1 |-> s[i]]
<1>1. N \in Nat /\ N >= 1 /\ DOMAIN s = 1 .. N /\ x \in Items
  OBVIOUS
<1>2. x.calls \in Seq(Nat)
  BY <1>1 DEF Items
<1>3. Append(x.calls, n) \in Seq(Nat)
  BY <1>2
<1>4. y \in Items /\ y.calls = Append(x.calls, n)
  BY <1>1, <1>3 DEF Items
<1>5. t = [s EXCEPT ![Len(s)].calls = Append(@, n)]
  OBVIOUS
<1>6. \A i \in 1 .. N - 1 : s[i] \in Items
  BY <1>1
<1>7. f \in Seq(Items) /\ Len(f) = N - 1
  BY <1>1, <1>6
<1>8. \A i \in 1 .. N - 1 : f[i] = s[i]
  OBVIOUS
<1>a. s = [i \in 1 .. N |-> s[i]]
  BY <1>1
<1>9. t = [i \in 1 .. N |-> t[i]] /\ t[N] = y /\ \A i \in 1 .. N - 1 : t[i] = s[i]
  <2>1. N \in 1 .. N
    BY <1>1
  <2>a. \A i \in 1 .. N - 1 : i \in 1 .. N /\ i # N
    <3>1. \A m \in Nat : \A i \in 1 .. m - 1 : i \in 1 .. m /\ i # m
      OBVIOUS
    <3> QED
      BY <1>1, <3>1
  <2>2. DOMAIN t = 1 .. N /\ t = [i \in 1 .. N |-> IF i = N THEN y ELSE s[i]]
    BY <1>1
  <2> QED
    BY <2>1, <2>a, <2>2
<1>10. s[N] = x
  OBVIOUS
<1> HIDE DEF N, t, f, x, y
<1>11. ASSUME NEW z \in Items, NEW u, u = [i \in 1 .. N |-> u[i]], u[N] = z,
              \A i \in 1 .. N - 1 : u[i] = f[i]
       PROVE  u = Append(f, z)
  <2> DEFINE v == Append(f, z)
  <2>1. v \in Seq(Items) /\ Len(v) = Len(f) + 1 /\ v[Len(f) + 1] = z
        /\ \A i \in 1 .. Len(f) : v[i] = f[i]
    BY <1>7
  <2> HIDE DEF v
  <2>2. Len(v) = N /\ v[N] = z /\ \A i \in 1 .. N - 1 : v[i] = f[i]
    BY <1>1, <1>7, <2>1
  <2>3. v = [i \in 1 .. N |-> v[i]]
    BY <2>1, <2>2
  <2>4. ASSUME NEW i \in 1 .. N PROVE u[i] = v[i]
    <3>1. CASE i = N
      BY <1>11, <2>2, <3>1
    <3>2. CASE i # N
      <4>1. i \in 1 .. N - 1
        BY <1>1, <3>2
      <4> QED
        BY <1>11, <2>2, <4>1
    <3> QED
      BY <3>1, <3>2
  <2>5. u = v
    BY <1>11, <2>3, <2>4
  <2> QED
    BY <2>5 DEF v
<1>12. s = Append(f, x)
  BY <1>1, <1>8, <1>a, <1>10, <1>11
<1>13. t = Append(f, y)
  BY <1>4, <1>8, <1>9, <1>11
<1>14. CallsOf(s) = CallsOf(f) \o x.calls /\ CallsOf(f) \in Seq(Nat)
  BY <1>1, <1>7, <1>12, CallsAppend
<1>15. CallsOf(t) = CallsOf(f) \o Append(x.calls, n)
  BY <1>4, <1>7, <1>13, CallsAppend
<1>16. \A a, b \in Seq(Nat) : a \o b \in Seq(Nat) /\ a \o Append(b, n) = (a \o b) \o <<n>>
  OBVIOUS
<1>17. CallsOf(s) \in Seq(Nat) /\ CallsOf(t) = CallsOf(s) \o <<n>>
  BY <1>2, <1>14, <1>15, <1>16
<1> QED
  BY <1>5, <1>17
-----------------------------------------------------------------------------
(* What a dispatch has taken waits for the thread that took it, an item    *)
(* makes at least one call, and the lock of close() closes the queue and   *)
(* empties it for good.                                                    *)
RunInv ==
  /\ running # <<>> => \E d \in Dispatchers : dispatcher[d] \in {"next", "call"}
  /\ closed => head = <<>> /\ running = <<>>
  /\ closer.step \in {"open", "removed"} => ~closed
  /\ Full(head) /\ Full(running)

LEMMA AppendedFull ==
  ASSUME NEW s \in Seq(Items), NEW item \in Items, item.calls # <<>>, Full(s)
  PROVE  Full(Append(s, item))
<1> DEFINE t == Append(s, item)
<1>1. /\ t[Len(s) + 1] = item /\ \A i \in DOMAIN s : t[i] = s[i]
      /\ \A i \in DOMAIN t : i \in DOMAIN s \/ i = Len(s) + 1
  OBVIOUS
<1> HIDE DEF t
<1>2. Full(t)
  BY <1>1 DEF Full
<1> QED
  BY <1>2 DEF t

LEMMA TailFull ==
  ASSUME NEW s \in Seq(Items), s # <<>>, Full(s)
  PROVE  Head(s).calls # <<>> /\ Full(Tail(s))
<1> DEFINE t == Tail(s)
<1>1. /\ 1 \in DOMAIN s /\ Head(s) = s[1]
      /\ \A i \in DOMAIN t : i + 1 \in DOMAIN s /\ t[i] = s[i + 1]
  OBVIOUS
<1> HIDE DEF t
<1>2. Head(s).calls # <<>> /\ Full(t)
  BY <1>1 DEF Full
<1> QED
  BY <1>2 DEF t

(* The two ways in which a call enters.                                    *)
LEMMA NewItemIs ==
  ASSUME ItemInv, NEW r \in Registrations, NEW last \in BOOLEAN
  PROVE  /\ NewItem(r, last) \in Items
         /\ NewItem(r, last).calls = <<serial + 1>>
         /\ NewItem(r, last).calls # <<>>
<1>1. serial + 1 \in Nat
  BY DEF ItemInv
<1>2. <<serial + 1>> \in Seq(Nat) /\ <<serial + 1>> # <<>>
  BY <1>1
<1> QED
  BY <1>2 DEF NewItem, Items

LEMMA EventIs ==
  ASSUME ItemInv, NEW r \in Registrations, JoinsTail(r), AppendEvent(r)
  PROVE  /\ head # <<>> /\ serial + 1 \in Nat
         /\ head' = [head EXCEPT ![Len(head)].calls = Append(@, serial + 1)]
<1>1. head \in Seq(Items) /\ Len(head) \in EventItems(r) /\ EventItems(r) \subseteq DOMAIN head
      /\ serial \in Nat
  BY DEF ItemInv, JoinsTail, EventItems
<1>2. Len(head) \in Nat /\ DOMAIN head = 1 .. Len(head)
  BY <1>1
<1>3. \A i \in EventItems(r) : i \in 1 .. Len(head) /\ i <= Len(head)
  BY <1>1, <1>2
<1>4. Max(EventItems(r)) = Len(head)
  <2>1. \A y \in EventItems(r) : Len(head) >= y
    BY <1>2, <1>3
  <2>2. \A x \in EventItems(r) : (\A y \in EventItems(r) : x >= y) => x = Len(head)
    <3> SUFFICES ASSUME NEW x \in EventItems(r), \A y \in EventItems(r) : x >= y
                 PROVE  x = Len(head)
      OBVIOUS
    <3>1. x >= Len(head) /\ x \in 1 .. Len(head)
      BY <1>1, <1>3
    <3>2. \A m \in Nat : \A k \in 1 .. m : k >= m => k = m
      OBVIOUS
    <3> QED
      BY <1>2, <3>1, <3>2
  <2> QED
    BY <1>1, <2>1, <2>2 DEF Max
<1>5. head # <<>>
  <2>1. Len(head) \in 1 .. Len(head)
    BY <1>1, <1>2
  <2> QED
    BY <1>1, <1>2, <2>1
<1> QED
  BY <1>1, <1>4, <1>5 DEF AppendEvent

LEMMA EventFull ==
  ASSUME ItemInv, Full(head), NEW r \in Registrations, JoinsTail(r), AppendEvent(r)
  PROVE  Full(head')
<1> DEFINE n == Len(head)
           c == Append(head[n].calls, serial + 1)
<1>1. head \in Seq(Items) /\ head # <<>> /\ serial + 1 \in Nat
  BY EventIs DEF ItemInv
<1>2. head[n] \in Items
  BY <1>1
<1>3. head[n].calls \in Seq(Nat)
  BY <1>2 DEF Items
<1>4. c # <<>>
  <2>1. \A a \in Seq(Nat), m \in Nat : Append(a, m) # <<>>
    OBVIOUS
  <2> QED
    BY <1>1, <1>3, <2>1
<1>5. head' = [head EXCEPT ![n] = [head[n] EXCEPT !.calls = c]]
  BY EventIs
<1>6. [head[n] EXCEPT !.calls = c].calls = c
  BY <1>2 DEF Items
<1> HIDE DEF c, n
<1>7. DOMAIN head' = DOMAIN head
      /\ \A i \in DOMAIN head : head'[i].calls = IF i = n THEN c ELSE head[i].calls
  BY <1>5, <1>6
<1> QED
  BY <1>4, <1>7 DEF Full

LEMMA RunStep ==
  FlagInv /\ WakeInv /\ SettleInv /\ RunInv /\ [Next]_vars => RunInv'
<1> SUFFICES ASSUME FlagInv, WakeInv, SettleInv, RunInv, [Next]_vars PROVE RunInv'
  OBVIOUS
<1>t. ItemInv /\ head \in Seq(Items) /\ running \in Seq(Items)
  BY DEF SettleInv, ItemInv
<1>1. ASSUME NEW r \in Registrations, RegistrationStep(r) PROVE RunInv'
  <2>1. UNCHANGED <<running, closed, closer, dispatcher>>
    BY <1>1 DEF RegistrationStep, thread_vars, close_vars
  <2>2. ASSUME NEW last \in BOOLEAN, AppendItem(r, last) PROVE Full(head')
    <3>1. head' = Append(head, NewItem(r, last))
      BY <2>2 DEF AppendItem, Appended
    <3> QED
      BY <1>t, <3>1, NewItemIs, AppendedFull DEF RunInv
  <2>3. UNCHANGED head \/ (~closed /\ Full(head'))
    <3>1. CASE Push(r)
      <4>1. CASE JoinsTail(r) /\ AppendEvent(r)
        BY <1>t, <3>1, <4>1, EventFull DEF Push, RunInv
      <4> QED
        BY <2>2, <3>1, <4>1 DEF Push
    <3>2. CASE Retire(r)
      BY <2>2, <3>2 DEF Retire
    <3>3. CASE Resolve(r) \/ Construct(r) \/ AcceptRegistration(r) \/ RejectRegistration(r)
      BY <3>3 DEF Resolve, Construct, AcceptRegistration, RejectRegistration
    <3> QED
      BY <1>1, <3>1, <3>2, <3>3 DEF RegistrationStep
  <2> QED
    BY <2>1, <2>3 DEF RunInv
<1>2. CASE UNCHANGED <<running, head, closed, closer, dispatcher>>
  BY <1>2 DEF RunInv
<1>3. ASSUME NEW d \in Dispatchers, HostDispatch(d) \/ DispatchStep(d) PROVE RunInv'
  <2>1. UNCHANGED <<closed, closer>>
    BY <1>3 DEF HostDispatch, DispatchStep, KeptByDispatch, close_vars
  <2>2. ASSUME NEW step, Goto(d, step), UNCHANGED <<head, running>>,
               dispatcher[d] \in {"next", "call"} => step \in {"next", "call"} \/ running = <<>>
        PROVE  RunInv'
    <3>1. dispatcher'[d] = step /\ \A e \in Dispatchers \ {d} : dispatcher'[e] = dispatcher[e]
      BY <2>2 DEF Goto, FlagInv
    <3>2. running # <<>> => \E e \in Dispatchers : dispatcher'[e] \in {"next", "call"}
      <4> SUFFICES ASSUME running # <<>>
                   PROVE  \E e \in Dispatchers : dispatcher'[e] \in {"next", "call"}
        OBVIOUS
      <4>1. PICK e \in Dispatchers : dispatcher[e] \in {"next", "call"}
        BY DEF RunInv
      <4>2. CASE e = d
        BY <2>2, <3>1, <4>1, <4>2
      <4>3. CASE e # d
        BY <3>1, <4>1, <4>3
      <4> QED
        BY <4>2, <4>3
    <3> QED
      BY <2>1, <2>2, <3>2 DEF RunInv
  <2>3. CASE DispatchBegin(d)
    BY <2>2, <2>3 DEF DispatchBegin, At
  <2>4. CASE DispatchExchange(d)
    BY <2>2, <2>4 DEF DispatchExchange, At
  <2>5. CASE DispatchCheck(d)
    BY <2>2, <2>5 DEF DispatchCheck, At
  <2>6. CASE DispatchTake(d)
    <3>1. CASE closed
      BY <2>2, <2>6, <3>1 DEF DispatchTake, At
    <3>2. CASE ~closed
      <4>1. running' = head /\ head' = <<>> /\ dispatcher'[d] = "next"
        BY <2>6, <3>2 DEF DispatchTake, Goto, FlagInv
      <4>2. Full(<<>>)
        BY DEF Full
      <4> QED
        BY <2>1, <3>2, <4>1, <4>2 DEF RunInv
    <3> QED
      BY <3>1, <3>2
  <2>7. CASE DispatchNext(d)
    <3>1. CASE closed \/ running = <<>>
      BY <2>2, <2>7, <3>1 DEF DispatchNext, RunInv
    <3>2. CASE ~closed /\ running # <<>>
      <4>1. running' = Tail(running) /\ UNCHANGED head /\ dispatcher'[d] = "call"
        BY <2>7, <3>2 DEF DispatchNext, Goto, FlagInv
      <4>2. Full(Tail(running))
        BY <1>t, <3>2, TailFull DEF RunInv
      <4> QED
        BY <2>1, <3>2, <4>1, <4>2 DEF RunInv
    <3> QED
      BY <3>1, <3>2
  <2>8. CASE DispatchReturn(d)
    BY <2>2, <2>8 DEF DispatchReturn
  <2>9. CASE DispatchNested(d)
    BY <1>2, <2>1, <2>9 DEF DispatchNested, thread_vars
  <2>10. CASE DispatchClear(d)
    BY <2>2, <2>10 DEF DispatchClear, At
  <2>11. CASE DispatchRecheck(d)
    BY <2>2, <2>11 DEF DispatchRecheck, At
  <2> QED
    BY <1>3, <2>3, <2>4, <2>5, <2>6, <2>7, <2>8, <2>9, <2>10, <2>11
    DEF HostDispatch, DispatchStep
<1>4. CASE HostRelease
  <2>1. PICK who : ReleaseQueue(who)
    BY <1>4 DEF HostRelease
  <2>2. ~closed /\ UNCHANGED <<running, head, closed, dispatcher>>
    BY <1>4, <2>1 DEF HostRelease, ReleaseQueue, queue_vars, KeptByClose, thread_vars,
       SettleInv, LifeInv
  <2> QED
    BY <2>2 DEF RunInv
<1>5. CASE CloseStep
  <2>1. UNCHANGED dispatcher
    BY <1>5 DEF CloseStep, KeptByClose, thread_vars
  <2>2. ASSUME NEW step, closer' = [closer EXCEPT !.step = step] PROVE closer'.step = step
    BY <2>2 DEF WakeInv
  <2>3. CASE CloseLock
    <3>1. closer'.step = "closing wake" /\ running' = <<>> /\ head' = <<>>
      BY <2>2, <2>3 DEF CloseLock
    <3>2. Full(<<>>)
      BY DEF Full
    <3> QED
      BY <3>1, <3>2 DEF RunInv
  <2>4. CASE CloseWake
    <3>1. closer'.step = "abandoning" /\ UNCHANGED <<running, head, closed>>
      BY <2>2, <2>4 DEF CloseWake, queue_vars
    <3> QED
      BY <2>1, <3>1 DEF RunInv
  <2>5. CASE AbandonItem \/ AbandonHeld
    BY <1>2, <2>1, <2>5 DEF AbandonItem, AbandonHeld, queue_vars
  <2>6. CASE CloseReturn
    <3>1. closer'.step = "closed" /\ UNCHANGED <<running, head, closed>>
      BY <2>2, <2>6 DEF CloseReturn, queue_vars
    <3> QED
      BY <2>1, <3>1 DEF RunInv
  <2> QED
    BY <1>5, <2>3, <2>4, <2>5, <2>6 DEF CloseStep
<1>6. ASSUME NEW r \in Registrations, NotifyStep(r) PROVE RunInv'
  BY <1>2, <1>6 DEF NotifyStep, queue_vars, thread_vars, close_vars
<1>7. CASE UNCHANGED vars
  BY <1>2, <1>7 DEF vars, queue_vars, thread_vars, close_vars
<1> QED
  BY <1>1, <1>3, <1>4, <1>5, <1>6, <1>7 DEF Next
-----------------------------------------------------------------------------
(* The contract's view of an append, of a burst and of a call.             *)
Pending == CallsOf(running \o head)

LEMMA SplitCalls ==
  ASSUME NEW a \in Seq(Nat), NEW b \in Seq(Nat), a # <<>>
  PROVE  /\ Len(a) \in 1 .. Len(a \o b)
         /\ SubSeq(a \o b, 1, Len(a)) = a
         /\ SubSeq(a \o b, Len(a) + 1, Len(a \o b)) = b
<1> DEFINE j == a \o b
           p == SubSeq(j, 1, Len(a))
           q == SubSeq(j, Len(a) + 1, Len(j))
<1>1. /\ Len(a) \in Nat /\ Len(a) >= 1 /\ Len(b) \in Nat
      /\ j \in Seq(Nat) /\ Len(j) = Len(a) + Len(b)
      /\ \A i \in 1 .. Len(a) : j[i] = a[i]
      /\ \A i \in 1 .. Len(b) : j[Len(a) + i] = b[i]
  OBVIOUS
<1> HIDE DEF j
<1>2. p = [i \in 1 .. Len(a) |-> j[i]]
  BY <1>1
<1>3. a = [i \in 1 .. Len(a) |-> a[i]] /\ b = [i \in 1 .. Len(b) |-> b[i]]
  OBVIOUS
<1>4. p = a
  BY <1>1, <1>2, <1>3
<1> DEFINE m == Len(a) + 1
           n == Len(j)
<1>5. q \in Seq(Nat) /\ Len(q) = Len(b) /\ \A i \in 1 .. Len(b) : q[i] = j[Len(a) + i]
  <2>1. /\ m \in Int /\ n \in Int /\ n - m + 1 = Len(b) /\ (m <= n <=> Len(b) # 0)
        /\ \A i \in 1 .. Len(b) : m + i - 1 = Len(a) + i
        /\ \A i \in m .. n : i \in 1 .. n
    BY <1>1
  <2>2. q = SubSeq(j, m, n) /\ \A i \in 1 .. n : j[i] \in Nat
    BY <1>1
  <2> HIDE DEF m, n, q
  <2>3. \A i \in m .. n : j[i] \in Nat
    BY <2>1, <2>2
  <2>4. /\ q \in Seq(Nat) /\ Len(q) = IF m <= n THEN n - m + 1 ELSE 0
        /\ \A i \in 1 .. n - m + 1 : q[i] = j[m + i - 1]
    BY <2>1, <2>2, <2>3, SubSeqProperties
  <2>5. Len(q) = Len(b)
    BY <1>1, <2>1, <2>4
  <2>6. \A i \in 1 .. Len(b) : q[i] = j[Len(a) + i]
    BY <2>1, <2>4
  <2> QED
    BY <2>4, <2>5, <2>6
<1> HIDE DEF q
<1>6. q = [i \in 1 .. Len(b) |-> q[i]]
  BY <1>5
<1>7. q = b
  BY <1>1, <1>3, <1>5, <1>6
<1> QED
  BY <1>1, <1>4, <1>7 DEF j, p, q

LEMMA AcceptIs ==
  ASSUME NEW n \in Nat, Pending \in Seq(Nat), Pending' = Pending \o <<n>>,
         ~closed, UNCHANGED <<ran, closed>>
  PROVE  Contract!Accept
<1> DEFINE p == Pending
           q == p \o <<n>>
<1>1. p \in Seq(Nat) /\ Pending' = q
  OBVIOUS
<1> HIDE DEF p
<1>2. Len(p) \in Nat /\ q \in Seq(Nat) /\ Len(q) = Len(p) + 1
      /\ \A i \in 1 .. Len(p) : q[i] = p[i]
  BY <1>1
<1> HIDE DEF q
<1>3. SubSeq(p, 1, Len(p)) = SubSeq(q, 1, Len(p))
  BY <1>1, <1>2
<1>4. IsPrefix(p, q)
  BY <1>2, <1>3 DEF IsPrefix
<1>5. Contract!IsPrefix(p, q)
  BY <1>4 DEF IsPrefix, Contract!IsPrefix
<1> QED
  BY <1>1, <1>2, <1>5 DEF Contract!Accept, Pending, p

LEMMA ItemAccepted ==
  ASSUME ItemInv, NEW r \in Registrations, NEW last \in BOOLEAN, AppendItem(r, last),
         ~closed, UNCHANGED <<running, ran, closed>>
  PROVE  Contract!Accept
<1> DEFINE item == NewItem(r, last)
<1>1. head \in Seq(Items) /\ running \in Seq(Items) /\ serial + 1 \in Nat
  BY DEF ItemInv
<1>2. item \in Items /\ item.calls = <<serial + 1>>
  BY NewItemIs
<1>3. head' = Append(head, item)
  BY DEF AppendItem, Appended
<1> HIDE DEF item
<1>4. running \o head \in Seq(Items)
      /\ running \o Append(head, item) = Append(running \o head, item)
  BY <1>1, <1>2
<1>5. Pending' = Pending \o item.calls /\ Pending \in Seq(Nat)
  BY <1>2, <1>3, <1>4, CallsAppend DEF Pending
<1> QED
  BY <1>1, <1>2, <1>5, AcceptIs

LEMMA EventAccepted ==
  ASSUME ItemInv, NEW r \in Registrations, JoinsTail(r), AppendEvent(r),
         ~closed, UNCHANGED <<running, ran, closed>>
  PROVE  Contract!Accept
<1> DEFINE n == serial + 1
           y == [head[Len(head)] EXCEPT !.calls = Append(@, n)]
           u == running \o head
           v == [u EXCEPT ![Len(u)].calls = Append(@, n)]
           w == running \o head'
<1>1. head \in Seq(Items) /\ running \in Seq(Items) /\ head # <<>> /\ n \in Nat
  BY EventIs DEF ItemInv
<1>2. head' = [head EXCEPT ![Len(head)] = y]
  BY EventIs
<1>3. head' \in Seq(Items)
  BY EventJoins
<1>4. /\ Len(head) \in Nat /\ Len(head) >= 1 /\ Len(running) \in Nat
      /\ u \in Seq(Items) /\ Len(u) = Len(running) + Len(head)
      /\ \A i \in 1 .. Len(running) : u[i] = running[i]
      /\ \A i \in 1 .. Len(head) : u[Len(running) + i] = head[i]
  BY <1>1
<1>a. DOMAIN head = 1 .. Len(head) /\ DOMAIN head' = 1 .. Len(head')
  BY <1>1, <1>3
<1>b. DOMAIN head' = DOMAIN head /\ \A i \in DOMAIN head : head'[i] =
        IF i = Len(head) THEN y ELSE head[i]
  BY <1>2
<1>c. Len(head) \in 1 .. Len(head)
  BY <1>4
<1>d. Len(head') = Len(head)
  <2> HIDE DEF y
  <2>a. Len(head') \in Nat
    BY <1>3
  <2>b. 1 .. Len(head') = DOMAIN head' /\ DOMAIN head' = DOMAIN head
    BY <1>a, <1>b
  <2>c. DOMAIN head = 1 .. Len(head)
    BY <1>a
  <2>1. Len(head') \in Nat /\ 1 .. Len(head') = 1 .. Len(head)
    BY <2>a, <2>b, <2>c, Zenon
  <2>2. Len(head) \in 1 .. Len(head')
    BY <1>c, <2>1
  <2>3. Len(head') >= 1
    BY <1>4, <2>1, <2>2
  <2>4. Len(head') \in 1 .. Len(head)
    BY <2>1, <2>3
  <2> QED
    BY <1>4, <2>1, <2>2, <2>4
<1>5. /\ Len(head') = Len(head) /\ head'[Len(head)] = y
      /\ \A i \in 1 .. Len(head) : i # Len(head) => head'[i] = head[i]
  BY <1>a, <1>b, <1>c, <1>d
<1>6. /\ w \in Seq(Items) /\ Len(w) = Len(u)
      /\ \A i \in 1 .. Len(running) : w[i] = running[i]
      /\ \A i \in 1 .. Len(head) : w[Len(running) + i] = head'[i]
  <2> DEFINE k == head'
  <2>1. k \in Seq(Items) /\ running \in Seq(Items) /\ Len(k) = Len(head)
    BY <1>1, <1>3, <1>d
  <2>2. w = running \o k
    OBVIOUS
  <2> HIDE DEF k, w, y
  <2>3. /\ w \in Seq(Items) /\ Len(w) = Len(running) + Len(k)
        /\ \A i \in 1 .. Len(running) : w[i] = running[i]
        /\ \A i \in 1 .. Len(k) : w[Len(running) + i] = k[i]
    BY <2>1, <2>2
  <2>4. Len(w) = Len(u)
    BY <1>4, <2>1, <2>3
  <2> QED
    BY <2>1, <2>3, <2>4 DEF k
<1>7. u[Len(u)] = head[Len(head)]
  <2>1. Len(head) \in 1 .. Len(head)
    BY <1>4
  <2> QED
    BY <1>4, <2>1
<1>8. v = [u EXCEPT ![Len(u)] = y]
  BY <1>7
<1> HIDE DEF u, w, y, n
<1>9. v = [i \in 1 .. Len(u) |-> IF i = Len(u) THEN y ELSE u[i]]
  <2>1. DOMAIN u = 1 .. Len(u)
    BY <1>4
  <2> QED
    BY <1>8, <2>1
<1>10. w = [i \in 1 .. Len(u) |-> w[i]]
  BY <1>6
<1> HIDE DEF v
<1>11. ASSUME NEW i \in 1 .. Len(u) PROVE w[i] = IF i = Len(u) THEN y ELSE u[i]
  <2>1. CASE i <= Len(running)
    <3>1. i \in 1 .. Len(running) /\ i # Len(u)
      BY <1>4, <2>1
    <3> QED
      BY <1>4, <1>6, <3>1
  <2>2. CASE ~(i <= Len(running))
    <3>1. PICK k \in 1 .. Len(head) : i = Len(running) + k
      <4>1. i - Len(running) \in 1 .. Len(head) /\ i = Len(running) + (i - Len(running))
        BY <1>4, <2>2
      <4> QED
        BY <4>1
    <3>a. w[i] = head'[k] /\ u[i] = head[k]
      BY <1>4, <1>6, <3>1
    <3>b. i = Len(u) <=> k = Len(head)
      <4>1. \A l, a, b \in Nat : l + a = l + b <=> a = b
        OBVIOUS
      <4>2. Len(running) \in Nat /\ Len(head) \in Nat /\ k \in Nat
            /\ i = Len(running) + k /\ Len(u) = Len(running) + Len(head)
        BY <1>4, <3>1
      <4> QED
        BY <4>1, <4>2
    <3>2. w[i] = head'[k] /\ u[i] = head[k] /\ (i = Len(u) <=> k = Len(head))
      BY <3>a, <3>b
    <3> QED
      BY <1>5, <3>2
  <2> QED
    BY <2>1, <2>2
<1>12. v = w
  BY <1>9, <1>10, <1>11
<1>13. u # <<>>
  BY <1>4
<1>14. CallsOf(v) = CallsOf(u) \o <<n>> /\ CallsOf(u) \in Seq(Nat)
  BY <1>1, <1>4, <1>13, CallsJoin DEF v
<1>15. Pending' = Pending \o <<n>> /\ Pending \in Seq(Nat)
  BY <1>12, <1>14 DEF Pending, u, w
<1> QED
  BY <1>1, <1>15, AcceptIs

LEMMA CallDelivered ==
  ASSUME ItemInv, RunInv, running # <<>>, ~closed, UNCHANGED <<head, closed>>,
         running' = Tail(running), ran' = ran \o Head(running).calls
  PROVE  Contract!Deliver
<1> DEFINE h == Head(running)
           u == running \o head
<1>1. head \in Seq(Items) /\ running \in Seq(Items) /\ h \in Items /\ h.calls # <<>>
  BY TailFull DEF ItemInv, RunInv
<1>2. u \in Seq(Items) /\ u # <<>> /\ Head(u) = h /\ Tail(u) = running' \o head'
  BY <1>1
<1>3. h.calls \in Seq(Nat)
  BY <1>1 DEF Items
<1>4. Pending = CallsOf(u) /\ Pending' = CallsOf(Tail(u))
  BY <1>2 DEF Pending
<1> HIDE DEF h, u
<1>5. Pending = h.calls \o Pending' /\ Pending' \in Seq(Nat)
  BY <1>2, <1>4, CallsHead
<1> DEFINE n == Len(h.calls)
<1>6. /\ n \in 1 .. Len(Pending) /\ SubSeq(Pending, 1, n) = h.calls
      /\ SubSeq(Pending, n + 1, Len(Pending)) = Pending'
  BY <1>1, <1>3, <1>5, SplitCalls
<1> HIDE DEF n
<1>7. ran' = ran \o SubSeq(Pending, 1, n) /\ Pending' = SubSeq(Pending, n + 1, Len(Pending))
  BY <1>6 DEF h
<1> QED
  BY <1>6, <1>7 DEF Contract!Deliver, Pending
-----------------------------------------------------------------------------
LEMMA ContractStep ==
  FlagInv /\ WakeInv /\ SettleInv /\ RunInv /\ [Next]_vars
    => [Contract!Next]_(Contract!vars)
<1> SUFFICES ASSUME FlagInv, WakeInv, SettleInv, RunInv, [Next]_vars
             PROVE  Contract!Next \/ UNCHANGED Contract!vars
  OBVIOUS
<1>t. ItemInv /\ head \in Seq(Items) /\ running \in Seq(Items)
  BY DEF SettleInv, ItemInv
<1>1. ASSUME UNCHANGED <<running \o head, ran, closed>> PROVE UNCHANGED Contract!vars
  BY <1>1 DEF Contract!vars, CallsOf
<1>2. CASE UNCHANGED <<running, head, ran, closed>>
  <2>1. UNCHANGED (running \o head)
    BY <1>2
  <2> QED
    BY <1>1, <1>2, <2>1
<1>3. ASSUME NEW r \in Registrations, RegistrationStep(r)
      PROVE  Contract!Next \/ UNCHANGED Contract!vars
  <2>1. UNCHANGED <<running, closed, ran>>
    BY <1>3 DEF RegistrationStep
  <2>2. CASE UNCHANGED head
    BY <1>2, <2>1, <2>2
  <2>3. ASSUME NEW last \in BOOLEAN, AppendItem(r, last), ~closed PROVE Contract!Next
    BY <1>t, <2>1, <2>3, ItemAccepted DEF Contract!Next
  <2>4. ASSUME JoinsTail(r), AppendEvent(r), ~closed PROVE Contract!Next
    BY <1>t, <2>1, <2>4, EventAccepted DEF Contract!Next
  <2>5. CASE Push(r)
    BY <2>2, <2>3, <2>4, <2>5 DEF Push
  <2>6. CASE Retire(r)
    BY <2>2, <2>3, <2>6 DEF Retire
  <2>7. CASE Resolve(r) \/ Construct(r) \/ AcceptRegistration(r) \/ RejectRegistration(r)
    BY <2>2, <2>7 DEF Resolve, Construct, AcceptRegistration, RejectRegistration
  <2> QED
    BY <1>3, <2>5, <2>6, <2>7 DEF RegistrationStep
<1>4. ASSUME NEW d \in Dispatchers, HostDispatch(d) \/ DispatchStep(d)
      PROVE  Contract!Next \/ UNCHANGED Contract!vars
  <2>1. UNCHANGED closed
    BY <1>4 DEF HostDispatch, DispatchStep, KeptByDispatch
  <2>2. CASE DispatchTake(d)
    <3>1. CASE closed
      BY <1>2, <2>1, <2>2, <3>1 DEF DispatchTake
    <3>2. CASE ~closed
      <4>1. running = <<>>
        <5>1. Inside(d) /\ dispatcher[d] = "take"
          BY <2>2 DEF DispatchTake, At, Inside
        <5>2. \A e \in Dispatchers : dispatcher[e] \notin {"next", "call"}
          BY <5>1 DEF FlagInv, Inside
        <5> QED
          BY <5>2 DEF RunInv
      <4>2. running' = head /\ head' = <<>> /\ UNCHANGED ran
        BY <2>2, <3>2 DEF DispatchTake
      <4>3. running' \o head' = head /\ running \o head = head
        BY <1>t, <4>1, <4>2
      <4> QED
        BY <1>1, <2>1, <4>2, <4>3
    <3> QED
      BY <3>1, <3>2
  <2>3. CASE DispatchNext(d)
    <3>1. CASE closed \/ running = <<>>
      BY <1>2, <2>1, <2>3, <3>1 DEF DispatchNext
    <3>2. CASE ~closed /\ running # <<>>
      BY <1>t, <2>1, <2>3, <3>2, CallDelivered DEF DispatchNext, Contract!Next
    <3> QED
      BY <3>1, <3>2
  <2>4. CASE DispatchBegin(d) \/ DispatchExchange(d) \/ DispatchCheck(d) \/ DispatchReturn(d)
             \/ DispatchNested(d) \/ DispatchClear(d) \/ DispatchRecheck(d)
    BY <1>2, <2>1, <2>4 DEF DispatchBegin, DispatchExchange, DispatchCheck, DispatchReturn,
       DispatchNested, DispatchClear, DispatchRecheck
  <2> QED
    BY <1>4, <2>2, <2>3, <2>4 DEF HostDispatch, DispatchStep
<1>5. CASE HostRelease
  BY <1>2, <1>5 DEF HostRelease, ReleaseQueue, queue_vars, KeptByClose
<1>6. CASE CloseStep
  <2>1. UNCHANGED ran
    BY <1>6 DEF CloseStep, KeptByClose
  <2>2. CASE CloseLock
    <3>1. ~closed /\ closed' = TRUE /\ running' = <<>> /\ head' = <<>>
      BY <2>2 DEF CloseLock, RunInv
    <3>2. running' \o head' = <<>>
      BY <3>1
    <3>3. CallsOf(running \o head)' = <<>>
      BY <3>2, NoCalls DEF CallsOf
    <3> QED
      BY <2>1, <3>1, <3>3 DEF Contract!Next, Contract!Release
  <2>3. CASE CloseWake \/ AbandonItem \/ AbandonHeld \/ CloseReturn
    BY <1>2, <2>1, <2>3 DEF CloseWake, AbandonItem, AbandonHeld, CloseReturn, queue_vars
  <2> QED
    BY <1>6, <2>2, <2>3 DEF CloseStep
<1>7. ASSUME NEW r \in Registrations, NotifyStep(r)
      PROVE  Contract!Next \/ UNCHANGED Contract!vars
  BY <1>2, <1>7 DEF NotifyStep, queue_vars
<1>8. CASE UNCHANGED vars
  BY <1>2, <1>8 DEF vars, queue_vars
<1> QED
  BY <1>3, <1>4, <1>5, <1>6, <1>7, <1>8 DEF Next

(* A delivery queue, however its threads overlap, is one first-in          *)
(* first-out channel of calls: append() and push_event() accept a call at  *)
(* the back, dispatch() starts those at the front, none is lost, repeated  *)
(* or overtaken, and close() ends the channel for good.                    *)
THEOREM DeliversInOrder == Safety => ImplementsContract
<1>1. Init => Contract!Init /\ RunInv
  <2> SUFFICES ASSUME Init PROVE Contract!Init /\ RunInv
    OBVIOUS
  <2>1. running = <<>> /\ head = <<>> /\ ran = <<>> /\ closed = FALSE
    BY DEF Init
  <2>2. CallsOf(running \o head) = <<>>
    <3>1. running \o head = <<>>
      BY <2>1
    <3> QED
      BY <3>1, NoCalls
  <2>3. Full(<<>>)
    BY DEF Full
  <2> QED
    BY <2>1, <2>2, <2>3 DEF Contract!Init, RunInv
<1>2. FlagInv /\ WakeInv /\ SettleInv /\ RunInv /\ [Next]_vars => RunInv'
  BY RunStep
<1>3. FlagInv /\ WakeInv /\ SettleInv /\ RunInv /\ [Next]_vars
        => [Contract!Next]_(Contract!vars)
  BY ContractStep
<1> QED
  BY <1>1, <1>2, <1>3, Invariance, PTL DEF Safety, ImplementsContract, Contract!Spec
=============================================================================
