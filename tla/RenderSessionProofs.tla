-------------------------- MODULE RenderSessionProofs --------------------------
(***************************************************************************)
(* Proofs about RenderSession, for either driver, any ring and any bounds: *)
(* what each step does to the session, its type, and its life.             *)
(***************************************************************************)
EXTENDS RenderSession, FiniteSetTheorems, SequenceTheorems, WellFoundedInduction, TLAPS

Fields == {"kind", "state", "created", "target", "open", "work", "demands", "waiting", "log",
           "barriers", "passed", "releases", "retargets", "changes", "drawn", "awaited",
           "serviced", "slot", "ready", "views", "reading", "flight", "asked", "call",
           "called", "owed", "disposed", "due", "invalid", "stop", "hook", "waiters",
           "objects", "complete"}

(* What of a session the invariants read, apart from its state and work.   *)
LifeOf(t)    == <<t.kind, t.views, t.call, t.disposed, t.due, t.hook, t.objects>>
SlotsOf(t)   == <<t.slot, t.ready, t.reading, t.retargets>>
DemandsOf(t) == <<t.demands, t.waiting, t.log, t.barriers, t.passed>>
PartsOf(t)   == <<LifeOf(t), SlotsOf(t), DemandsOf(t), t.state, t.work>>

States == {"attaching", "attached", "detaching", "detached", "abandoned", "failed"}
WorkKinds == {"attach", "frame", "service", "barrier", "release", "untarget", "retarget",
              "detach"}
Works  == [kind : WorkKinds, of : Nat]
Steps  == {"idle", "dispose", "run", "stopped", "done", "loop", "took", "render", "draw",
           "publish", "wait", "disposing", "detached", "handover"}
Rendering == {"took", "render", "draw", "publish", "wait"}

Entries == [policy : Policies, needs : Nat, results : Seq(Int), looked : Nat]

SessionType(t) ==
  /\ DOMAIN t = Fields
  /\ t.kind \in {"core", "caller"} /\ t.state \in States /\ t.work \in Seq(Works)
  /\ t.demands \in Seq(Nat) /\ t.waiting \in Seq(Nat) /\ t.log \in Seq(Entries)
  /\ t.call \in BOOLEAN /\ t.disposed \in BOOLEAN /\ t.due \in BOOLEAN
  /\ t.hook \in BOOLEAN /\ t.objects \in BOOLEAN
  /\ t.slot \in [Slots -> {"free", "rendering", "held", "returning", "quarantined"}]
  /\ t.ready \in Seq(Slots) /\ t.views \subseteq Slots /\ t.reading \subseteq Slots
  /\ t.barriers \in Int /\ t.passed \in Nat /\ t.retargets \in Int

Drivers == [at : Steps, item : Works \union {NoItem}, demand : Nat, releasing : BOOLEAN,
            slot : {0} \union Slots, update : Nat, shows : Nat]
Lanes == [queued : Nat, parked : Nat,
          at : {"idle", "abandon", "retire", "destroy", "refused", "reap", "done"}]
Maps == [sent : Nat, applied : Nat, update : Nat, shows : Nat, announce : BOOLEAN,
         at : {"idle", "ran", "counted", "notice"}, closed : BOOLEAN]

TypeInv ==
  /\ SessionType(s) /\ driver \in Drivers /\ lane \in Lanes /\ map \in Maps
  /\ abandoner \in {"idle", "waiting", "retiring"} /\ disposer \in {"idle", "hooking"}
  /\ driver.at \in {"render", "draw", "publish"} => driver.slot # 0

(* The retirement of a disposed session is in one hand: the driver was     *)
(* told of it, is at it, or the lane has it.                               *)
InLane    == lane.queued + lane.parked + (IF lane.at = "idle" THEN 0 ELSE 1)
Disposing == \/ driver.at \in {"dispose", "disposing", "handover"}
             \/ driver.at = "detached" /\ driver.item.kind # "detach"

HandInv ==
  /\ ~s.disposed => ~s.due /\ ~Disposing /\ InLane = 0
  /\ s.due \/ Disposing => InLane = 0
  /\ s.due /\ Disposing => driver.at = "dispose" /\ s.kind = "core"
  /\ InLane <= 1
  /\ s.hook \/ disposer = "hooking" => s.kind = "caller"

(* A driver in a call, and the graphics calls and lane steps that must not *)
(* meet one another.                                                       *)
CallInv ==
  /\ driver.at \notin {"idle", "stopped", "dispose", "handover"} => s.call
  /\ driver.at \in {"dispose", "handover"} /\ s.kind = "caller" => s.call
  /\ lane.at \in {"abandon", "retire"} => ~s.call /\ s.views = {}
  /\ lane.at = "retire" \/ abandoner = "retiring" => s.state = "abandoned"
  /\ lane.at \notin {"idle", "abandon"} => Over(s)
  /\ lane.at # "refused"

(* What the driver runs in which state: an abandoned or failed session has *)
(* no work, and a detach is the last work that uses graphics.              *)
Harmless == {"frame", "service"}

StateInv ==
  /\ s.state \in {"abandoned", "failed"} =>
       s.work = <<>> /\ driver.at \notin Rendering \union {"run", "disposing", "detached"}
  /\ driver.at \in Rendering => Live(s)
  /\ Running("detach") \/ driver.at \in {"disposing", "detached"} => s.state = "detaching"
  /\ \A i \in DOMAIN s.work : s.work[i].kind = "detach" => s.state = "detaching"
  /\ \A i, j \in DOMAIN s.work : s.work[i].kind = "detach" /\ i < j => s.work[j].kind \in Harmless
  /\ Running("detach") \/ driver.at \in {"disposing", "detached"} \/ s.state = "detached" =>
       \A i \in DOMAIN s.work : s.work[i].kind \in Harmless
  /\ driver.at = "run" /\ s.state = "detached" => driver.item.kind \in Harmless
  /\ driver.at = "run" => driver.item \in Works
  /\ Running("attach") => s.state = "attaching"
  /\ \A i \in DOMAIN s.work : s.work[i].kind = "attach" =>
       i = 1 /\ s.state = "attaching" /\ ~Running("attach")
  /\ s.state \in {"detaching", "detached", "abandoned"} => s.views = {}
  /\ s.state \in {"detaching", "detached"} => Held(s) = {}
  /\ ~s.objects => s.state \in {"detached", "abandoned"} \/ driver.at = "detached"

(* A session that is over or has failed keeps no demand.                   *)
EndInv == Over(s) \/ s.state = "failed" => s.demands = <<>> /\ s.waiting = <<>>

LifeInv == HandInv /\ CallInv /\ StateInv /\ EndInv

Changes == {"untarget", "retarget"}
-----------------------------------------------------------------------------
(* Sequences, and the least member of a set of numbers, which stands for   *)
(* an induction.                                                           *)
LEMMA Least ==
  ASSUME NEW T \in SUBSET Nat, T # {}
  PROVE  \E n \in T : \A m \in T : n <= m
<1> DEFINE R == OpToRel(<, Nat)
<1>1. IsWellFoundedOn(R, Nat)
  BY NatLessThanWellFounded
<1>2. \A m, n \in Nat : m < n => <<m, n>> \in R
  BY DEF OpToRel
<1> HIDE DEF R
<1>3. PICK n \in T : \A m \in T : <<m, n>> \notin R
  BY <1>1, WFMin
<1>4. \A m \in T : m \in Nat /\ n \in Nat /\ ~(m < n)
  BY <1>2, <1>3
<1>5. \A m \in T : n <= m
  BY <1>4
<1> QED
  BY <1>3, <1>5

LEMMA UpTo ==
  ASSUME NEW N \in Nat, NEW G, 0 \in G, \A n \in 1 .. N : n - 1 \in G => n \in G
  PROVE  \A n \in 0 .. N : n \in G
<1> DEFINE T == {n \in 0 .. N : n \notin G}
<1>1. T \in SUBSET Nat /\ \A n : n \in T <=> n \in 0 .. N /\ n \notin G
  OBVIOUS
<1> HIDE DEF T
<1>2. ASSUME T # {} PROVE FALSE
  <2>1. PICK n \in T : \A m \in T : n <= m
    BY <1>1, <1>2, Least
  <2>2. n \in 1 .. N /\ n - 1 \in 0 .. N /\ ~(n <= n - 1)
    BY <1>1, <2>1
  <2> QED
    BY <1>1, <2>1, <2>2
<1> QED
  BY <1>1, <1>2

LEMMA ToSetIs ==
  ASSUME NEW S, NEW q \in Seq(S)
  PROVE  /\ \A x : x \in ToSet(q) <=> \E i \in DOMAIN q : q[i] = x
         /\ \A i \in 1 .. Len(q) : q[i] \in ToSet(q)
         /\ ToSet(q) \subseteq S
         /\ q = <<>> <=> ToSet(q) = {}
BY DEF ToSet

LEMMA JoinedIs ==
  ASSUME NEW T, NEW p \in Seq(T), NEW q \in Seq(T)
  PROVE  \A x : x \in ToSet(p \o q) <=> x \in ToSet(p) \/ x \in ToSet(q)
<1> DEFINE r == p \o q
<1>1. /\ r \in Seq(T) /\ Len(r) = Len(p) + Len(q)
      /\ \A i \in 1 .. Len(p) : r[i] = p[i]
      /\ \A i \in 1 .. Len(q) : r[Len(p) + i] = q[i]
  OBVIOUS
<1> HIDE DEF r
<1>2. /\ \A x : x \in ToSet(r) <=> \E i \in 1 .. Len(r) : r[i] = x
      /\ \A x : x \in ToSet(p) <=> \E i \in 1 .. Len(p) : p[i] = x
      /\ \A x : x \in ToSet(q) <=> \E i \in 1 .. Len(q) : q[i] = x
  <2>1. r \in Seq(T)
    BY <1>1
  <2>2. \A u \in Seq(T) : \A x : x \in ToSet(u) <=> \E i \in 1 .. Len(u) : u[i] = x
    BY DEF ToSet
  <2> QED
    BY <2>1, <2>2
<1>3. ASSUME NEW x \in ToSet(r) PROVE x \in ToSet(p) \/ x \in ToSet(q)
  <2>1. PICK i \in 1 .. Len(r) : r[i] = x
    BY <1>2
  <2>2. CASE i <= Len(p)
    BY <1>1, <1>2, <2>1, <2>2
  <2>3. CASE i > Len(p)
    <3>1. i - Len(p) \in 1 .. Len(q) /\ Len(p) + (i - Len(p)) = i
      BY <1>1, <2>1, <2>3
    <3>2. q[i - Len(p)] = r[Len(p) + (i - Len(p))]
      BY <1>1, <3>1
    <3> QED
      BY <1>2, <2>1, <3>1, <3>2
  <2> QED
    BY <1>1, <2>1, <2>2, <2>3
<1>4. ASSUME NEW x \in ToSet(p) PROVE x \in ToSet(r)
  <2>1. PICK i \in 1 .. Len(p) : p[i] = x
    BY <1>2
  <2> QED
    BY <1>1, <1>2, <2>1
<1>5. ASSUME NEW x \in ToSet(q) PROVE x \in ToSet(r)
  <2>1. PICK i \in 1 .. Len(q) : q[i] = x
    BY <1>2
  <2>2. Len(p) + i \in 1 .. Len(r)
    BY <1>1
  <2> QED
    BY <1>1, <1>2, <2>1, <2>2
<1> QED
  BY <1>3, <1>4, <1>5 DEF r

(* Only frames and tiles are added behind what a queue held.               *)
Grown(w, v) ==
  /\ w \in Seq(Works) /\ Len(v) <= Len(w)
  /\ \A i \in 1 .. Len(v) : w[i] = v[i]
  /\ \A i \in 1 .. Len(w) : i > Len(v) => w[i].kind \in Harmless

LEMMA GrownSelf ==
  ASSUME NEW v \in Seq(Works)
  PROVE  Grown(v, v)
BY DEF Grown

LEMMA GrownBy ==
  ASSUME NEW v \in Seq(Works), NEW ws \in Seq(Works),
         \A i \in 1 .. Len(ws) : ws[i].kind \in Harmless
  PROVE  Grown(v \o ws, v)
BY DEF Grown

LEMMA ItemIs ==
  ASSUME NEW kind \in WorkKinds, NEW of \in Nat
  PROVE  Item(kind, of) \in Works /\ Item(kind, of).kind = kind /\ Item(kind, of).of = of
BY DEF Item, Works

LEMMA FrameIs ==
  ASSUME NEW of \in Nat
  PROVE  /\ Item("frame", of) \in Works /\ Item("frame", of).kind \in Harmless
         /\ Item("service", of) \in Works /\ Item("service", of).kind \in Harmless
BY DEF Item, Works, WorkKinds, Harmless
-----------------------------------------------------------------------------
(* What the functions of a session keep.                                   *)
LEMMA ToldIs ==
  ASSUME NEW t, DOMAIN t = Fields
  PROVE  DOMAIN Told(t) = Fields /\ PartsOf(Told(t)) = PartsOf(t)
BY DEF Fields, PartsOf, LifeOf, SlotsOf, DemandsOf, Told

LEMMA CheckedIs ==
  ASSUME NEW t, DOMAIN t = Fields
  PROVE  DOMAIN Checked(t) = Fields /\ PartsOf(Checked(t)) = PartsOf(t)
BY DEF Fields, PartsOf, LifeOf, SlotsOf, DemandsOf, Checked

LEMMA NotifiedIs ==
  ASSUME NEW t, DOMAIN t = Fields
  PROVE  DOMAIN Notified(t) = Fields /\ PartsOf(Notified(t)) = PartsOf(t)
BY DEF Fields, PartsOf, LifeOf, SlotsOf, DemandsOf, Notified

LEMMA PublishedIs ==
  ASSUME NEW t, DOMAIN t = Fields
  PROVE  DOMAIN Published(t) = Fields /\ PartsOf(Published(t)) = PartsOf(t)
BY ToldIs, CheckedIs DEF Published

LEMMA UnreadyIs ==
  ASSUME NEW t, DOMAIN t = Fields
  PROVE  DOMAIN Unready(t) = Fields /\ PartsOf(Unready(t)) = PartsOf(t)
BY DEF Fields, PartsOf, LifeOf, SlotsOf, DemandsOf, Unready

(* The type reads nothing but the parts.                                   *)
LEMMA SameParts ==
  ASSUME NEW t, NEW u, SessionType(t), DOMAIN u = Fields, PartsOf(u) = PartsOf(t)
  PROVE  SessionType(u)
BY DEF SessionType, PartsOf, LifeOf, SlotsOf, DemandsOf

LEMMA PushedAllIs ==
  ASSUME NEW t, SessionType(t), NEW ws \in Seq(Works)
  PROVE  /\ SessionType(PushedAll(t, ws)) /\ PushedAll(t, ws).work = t.work \o ws
         /\ LifeOf(PushedAll(t, ws)) = LifeOf(t) /\ SlotsOf(PushedAll(t, ws)) = SlotsOf(t)
         /\ DemandsOf(PushedAll(t, ws)) = DemandsOf(t)
         /\ PushedAll(t, ws).state = t.state
<1> DEFINE u == [t EXCEPT !.work = @ \o ws]
<1>1. DOMAIN t = Fields /\ t.work \in Seq(Works)
  BY DEF SessionType
<1>2. DOMAIN u = Fields /\ LifeOf(u) = LifeOf(t) /\ SlotsOf(u) = SlotsOf(t)
      /\ DemandsOf(u) = DemandsOf(t) /\ u.state = t.state /\ u.work = t.work \o ws
  BY <1>1 DEF Fields, LifeOf, SlotsOf, DemandsOf
<1>3. PushedAll(t, ws) = IF ws = <<>> THEN t ELSE Published(u)
  BY DEF PushedAll
<1> HIDE DEF u
<1>4. CASE ws = <<>>
  BY <1>1, <1>3, <1>4
<1>5. CASE ws # <<>>
  <2>1. DOMAIN Published(u) = Fields /\ PartsOf(Published(u)) = PartsOf(u)
    BY <1>2, PublishedIs
  <2>2. SessionType(u)
    BY <1>1, <1>2 DEF SessionType, LifeOf, SlotsOf, DemandsOf
  <2>3. SessionType(Published(u))
    BY <2>1, <2>2, SameParts
  <2> QED
    BY <1>2, <1>3, <1>5, <2>1, <2>3 DEF PartsOf
<1> QED
  BY <1>4, <1>5

LEMMA PushedIs ==
  ASSUME NEW t, SessionType(t), NEW w \in Works
  PROVE  /\ SessionType(Pushed(t, w)) /\ Pushed(t, w).work = Append(t.work, w)
         /\ LifeOf(Pushed(t, w)) = LifeOf(t) /\ SlotsOf(Pushed(t, w)) = SlotsOf(t)
         /\ DemandsOf(Pushed(t, w)) = DemandsOf(t) /\ Pushed(t, w).state = t.state
<1>1. <<w>> \in Seq(Works) /\ t.work \in Seq(Works)
  BY DEF SessionType
<1>2. t.work \o <<w>> = Append(t.work, w)
  BY <1>1
<1> QED
  BY <1>1, <1>2, PushedAllIs DEF Pushed

LEMMA QueueFrameIs ==
  ASSUME NEW t, SessionType(t), NEW d \in Nat
  PROVE  /\ SessionType(QueueFrame(t, d)) /\ Grown(QueueFrame(t, d).work, t.work)
         /\ LifeOf(QueueFrame(t, d)) = LifeOf(t) /\ SlotsOf(QueueFrame(t, d)) = SlotsOf(t)
         /\ DemandsOf(QueueFrame(t, d)) = DemandsOf(t) /\ QueueFrame(t, d).state = t.state
<1>1. t.work \in Seq(Works)
  BY DEF SessionType
<1>2. Grown(Append(t.work, Item("frame", d)), t.work)
  BY <1>1, FrameIs DEF Grown
<1> QED
  BY <1>2, FrameIs, PushedIs DEF QueueFrame

LEMMA ResumeParkedIs ==
  ASSUME NEW t, SessionType(t)
  PROVE  /\ SessionType(ResumeParked(t)) /\ Grown(ResumeParked(t).work, t.work)
         /\ LifeOf(ResumeParked(t)) = LifeOf(t) /\ SlotsOf(ResumeParked(t)) = SlotsOf(t)
         /\ DemandsOf(ResumeParked(t)) = DemandsOf(t) /\ ResumeParked(t).state = t.state
         /\ ~Live(t) => ResumeParked(t).work = t.work
<1>1. t.work \in Seq(Works) /\ t.demands \in Seq(Nat)
  BY DEF SessionType
<1>2. CASE t.demands # <<>> /\ Live(t)
  <2>1. Head(t.demands) \in Nat
    BY <1>1, <1>2
  <2> QED
    BY <1>2, <2>1, QueueFrameIs DEF ResumeParked
<1>3. CASE ~(t.demands # <<>> /\ Live(t))
  BY <1>1, <1>3, GrownSelf DEF ResumeParked
<1> QED
  BY <1>2, <1>3

LEMMA EntryIs ==
  ASSUME NEW e \in Entries, NEW shows \in Int
  PROVE  [e EXCEPT !.results = Append(@, shows)] \in Entries
<1>1. Append(e.results, shows) \in Seq(Int)
  BY DEF Entries
<1> DEFINE r == Append(e.results, shows)
<1> HIDE DEF r
<1>2. [e EXCEPT !.results = r] \in Entries
  BY <1>1 DEF Entries, r
<1> QED
  BY <1>2 DEF r

(* The demands of ds have a result more, which shows no frame.             *)
Finishes(u, t, ds) ==
  /\ u.barriers = t.barriers /\ u.passed = t.passed
  /\ Len(u.log) = Len(t.log)
  /\ \A d \in 1 .. Len(t.log) :
       u.log[d] = IF d \in ds THEN [t.log[d] EXCEPT !.results = Append(@, Nothing)]
                  ELSE t.log[d]

LEMMA FinishedIs ==
  ASSUME NEW t, SessionType(t), NEW ds
  PROVE  /\ SessionType(Finished(t, ds)) /\ Finished(t, ds).work = t.work
         /\ LifeOf(Finished(t, ds)) = LifeOf(t) /\ SlotsOf(Finished(t, ds)) = SlotsOf(t)
         /\ Finished(t, ds).state = t.state
         /\ Finished(t, ds).demands = t.demands /\ Finished(t, ds).waiting = t.waiting
         /\ Finishes(Finished(t, ds), t, ds)
<1> DEFINE ended == [d \in DOMAIN t.log |->
              IF d \in ds THEN [t.log[d] EXCEPT !.results = Append(@, Nothing)] ELSE t.log[d]]
           u == [t EXCEPT !.log = ended]
<1>1. DOMAIN t = Fields /\ t.log \in Seq(Entries)
  BY DEF SessionType
<1>2. \A e \in Entries : [e EXCEPT !.results = Append(@, Nothing)] \in Entries
  BY EntryIs, Nothing \in Int DEF Nothing
<1>3. ended \in Seq(Entries) /\ Len(ended) = Len(t.log)
      /\ \A d \in 1 .. Len(t.log) : ended[d] =
           IF d \in ds THEN [t.log[d] EXCEPT !.results = Append(@, Nothing)] ELSE t.log[d]
  BY <1>1, <1>2
<1> HIDE DEF ended
<1>4. DOMAIN u = Fields /\ LifeOf(u) = LifeOf(t) /\ SlotsOf(u) = SlotsOf(t)
      /\ u.state = t.state /\ u.work = t.work /\ u.log = ended
      /\ u.demands = t.demands /\ u.waiting = t.waiting /\ u.barriers = t.barriers
      /\ u.passed = t.passed
  BY <1>1 DEF Fields, LifeOf, SlotsOf
<1>5. Finished(t, ds) = u
  BY DEF Finished, ended
<1> HIDE DEF u
<1>6. SessionType(u)
  BY <1>3, <1>4 DEF SessionType, LifeOf, SlotsOf
<1> QED
  BY <1>3, <1>4, <1>5, <1>6 DEF Finishes

LEMMA EmptiedIs ==
  ASSUME NEW t, SessionType(t)
  PROVE  LET u == [t EXCEPT !.demands = <<>>, !.waiting = <<>>]
         IN  /\ SessionType(u) /\ u.work = t.work /\ LifeOf(u) = LifeOf(t)
             /\ SlotsOf(u) = SlotsOf(t) /\ u.state = t.state
             /\ u.demands = <<>> /\ u.waiting = <<>> /\ u.log = t.log
             /\ u.barriers = t.barriers /\ u.passed = t.passed
<1> DEFINE u == [t EXCEPT !.demands = <<>>, !.waiting = <<>>]
<1>1. DOMAIN t = Fields
  BY DEF SessionType
<1>2. /\ DOMAIN u = Fields /\ u.work = t.work /\ LifeOf(u) = LifeOf(t)
      /\ SlotsOf(u) = SlotsOf(t) /\ u.state = t.state
      /\ u.demands = <<>> /\ u.waiting = <<>> /\ u.log = t.log
      /\ u.barriers = t.barriers /\ u.passed = t.passed
  BY <1>1 DEF Fields, LifeOf, SlotsOf
<1> HIDE DEF u
<1>3. SessionType(u)
  BY <1>2 DEF SessionType, LifeOf, SlotsOf
<1> QED
  BY <1>2, <1>3 DEF u

(* The end of demands: some have a result more, of the queues nothing is   *)
(* new.                                                                    *)
LEMMA FinishDemandsIs ==
  ASSUME NEW t, SessionType(t)
  PROVE  /\ SessionType(FinishDemands(t)) /\ FinishDemands(t).work = t.work
         /\ LifeOf(FinishDemands(t)) = LifeOf(t) /\ SlotsOf(FinishDemands(t)) = SlotsOf(t)
         /\ FinishDemands(t).state = t.state
         /\ FinishDemands(t).demands = <<>> /\ FinishDemands(t).waiting = <<>>
         /\ Finishes(FinishDemands(t), t, ToSet(t.demands \o t.waiting))
<1> DEFINE f == Finished(t, ToSet(t.demands \o t.waiting))
<1>1. /\ SessionType(f) /\ f.work = t.work /\ LifeOf(f) = LifeOf(t)
      /\ SlotsOf(f) = SlotsOf(t) /\ f.state = t.state
      /\ Finishes(f, t, ToSet(t.demands \o t.waiting))
  BY FinishedIs
<1> DEFINE v == [f EXCEPT !.demands = <<>>, !.waiting = <<>>]
<1>2. FinishDemands(t) = v
  BY DEF FinishDemands
<1> HIDE DEF f
<1>3. /\ SessionType(v) /\ v.work = f.work /\ LifeOf(v) = LifeOf(f)
      /\ SlotsOf(v) = SlotsOf(f) /\ v.state = f.state /\ v.demands = <<>>
      /\ v.waiting = <<>> /\ v.log = f.log /\ v.barriers = f.barriers /\ v.passed = f.passed
  BY <1>1, EmptiedIs
<1> HIDE DEF v
<1>4. Finishes(v, t, ToSet(t.demands \o t.waiting))
  BY <1>1, <1>3 DEF Finishes
<1> QED
  BY <1>1, <1>2, <1>3, <1>4

LEMMA FinishWaitingIs ==
  ASSUME NEW t, SessionType(t)
  PROVE  /\ SessionType(FinishWaiting(t)) /\ FinishWaiting(t).work = t.work
         /\ LifeOf(FinishWaiting(t)) = LifeOf(t) /\ SlotsOf(FinishWaiting(t)) = SlotsOf(t)
         /\ FinishWaiting(t).state = t.state
         /\ FinishWaiting(t).demands = t.demands /\ FinishWaiting(t).waiting = <<>>
         /\ Finishes(FinishWaiting(t), t, ToSet(t.waiting))
<1> DEFINE f == Finished(t, ToSet(t.waiting))
<1>1. /\ SessionType(f) /\ f.work = t.work /\ LifeOf(f) = LifeOf(t)
      /\ SlotsOf(f) = SlotsOf(t) /\ f.state = t.state /\ f.demands = t.demands
      /\ Finishes(f, t, ToSet(t.waiting))
  BY FinishedIs
<1> DEFINE v == [f EXCEPT !.waiting = <<>>]
<1>2. FinishWaiting(t) = v
  BY DEF FinishWaiting
<1> HIDE DEF f
<1>3. /\ SessionType(v) /\ v.work = f.work /\ LifeOf(v) = LifeOf(f)
      /\ SlotsOf(v) = SlotsOf(f) /\ v.state = f.state /\ v.demands = f.demands
      /\ v.waiting = <<>> /\ v.log = f.log /\ v.barriers = f.barriers /\ v.passed = f.passed
  BY <1>1 DEF SessionType, Fields, LifeOf, SlotsOf
<1> HIDE DEF v
<1>4. Finishes(v, t, ToSet(t.waiting))
  BY <1>1, <1>3 DEF Finishes
<1> QED
  BY <1>1, <1>2, <1>3, <1>4

LEMMA EndDemandsIs ==
  ASSUME NEW t, SessionType(t)
  PROVE  /\ SessionType(EndDemands(t)) /\ EndDemands(t).work = t.work
         /\ LifeOf(EndDemands(t)) = LifeOf(t) /\ SlotsOf(EndDemands(t)) = SlotsOf(t)
         /\ EndDemands(t).state = t.state
         /\ EndDemands(t).demands = <<>> /\ EndDemands(t).waiting = <<>>
         /\ Finishes(EndDemands(t), t, IF t.disposed THEN {} ELSE ToSet(t.demands \o t.waiting))
<1>1. CASE t.disposed
  <2>1. EndDemands(t) = [t EXCEPT !.demands = <<>>, !.waiting = <<>>]
    BY <1>1 DEF EndDemands
  <2> QED
    BY <1>1, <2>1, EmptiedIs DEF Finishes
<1>2. CASE ~t.disposed
  BY <1>2, FinishDemandsIs DEF EndDemands
<1> QED
  BY <1>1, <1>2

LEMMA ResumeWaitingIs ==
  ASSUME NEW t, SessionType(t)
  PROVE  /\ SessionType(ResumeWaiting(t)) /\ Grown(ResumeWaiting(t).work, t.work)
         /\ LifeOf(ResumeWaiting(t)) = LifeOf(t) /\ SlotsOf(ResumeWaiting(t)) = SlotsOf(t)
         /\ ResumeWaiting(t).state = t.state
         /\ ResumeWaiting(t).demands = t.waiting \o t.demands
         /\ ResumeWaiting(t).waiting = <<>>
         /\ ResumeWaiting(t).log = t.log
         /\ ResumeWaiting(t).barriers = t.barriers /\ ResumeWaiting(t).passed = t.passed
         /\ t.waiting = <<>> => ResumeWaiting(t).work = t.work
<1> DEFINE u == [t EXCEPT !.demands = t.waiting \o @, !.waiting = <<>>]
           ws == [i \in DOMAIN t.waiting |-> Item("frame", t.waiting[i])]
<1>1. t.waiting \in Seq(Nat) /\ t.demands \in Seq(Nat) /\ t.work \in Seq(Works)
      /\ DOMAIN t = Fields
  BY DEF SessionType
<1>2. \A i \in DOMAIN t.waiting : t.waiting[i] \in Nat
  BY <1>1
<1>3. ws \in Seq(Works) /\ \A i \in 1 .. Len(ws) : ws[i].kind \in Harmless
  <2>1. \A i \in DOMAIN t.waiting :
          Item("frame", t.waiting[i]) \in Works /\ Item("frame", t.waiting[i]).kind \in Harmless
    BY <1>2, FrameIs
  <2>2. DOMAIN t.waiting = 1 .. Len(t.waiting) /\ Len(t.waiting) \in Nat
    BY <1>1
  <2>3. ws \in Seq(Works) /\ Len(ws) = Len(t.waiting)
    BY <2>1, <2>2
  <2> QED
    BY <2>1, <2>2, <2>3
<1>4. t.waiting = <<>> => ws = <<>>
  OBVIOUS
<1>5. LifeOf(u) = LifeOf(t) /\ SlotsOf(u) = SlotsOf(t) /\ u.state = t.state
      /\ u.work = t.work /\ u.demands = t.waiting \o t.demands /\ u.waiting = <<>>
      /\ u.log = t.log /\ u.barriers = t.barriers /\ u.passed = t.passed
      /\ DOMAIN u = Fields
  BY <1>1 DEF Fields, LifeOf, SlotsOf
<1>6. ResumeWaiting(t) = PushedAll(u, ws)
  BY DEF ResumeWaiting
<1> HIDE DEF u, ws
<1>7. t.waiting \o t.demands \in Seq(Nat)
  BY <1>1
<1>8. SessionType(u)
  BY <1>5, <1>7 DEF SessionType, LifeOf, SlotsOf
<1>9. Grown(t.work \o ws, t.work)
  BY <1>1, <1>3, GrownBy
<1>10. ws = <<>> => t.work \o ws = t.work
  BY <1>1
<1> DEFINE v == PushedAll(u, ws)
<1>11. /\ SessionType(v) /\ v.work = t.work \o ws /\ LifeOf(v) = LifeOf(t)
       /\ SlotsOf(v) = SlotsOf(t) /\ v.state = t.state /\ DemandsOf(v) = DemandsOf(u)
  BY <1>3, <1>5, <1>8, PushedAllIs
<1> HIDE DEF v
<1>12. /\ v.demands = u.demands /\ v.waiting = u.waiting /\ v.log = u.log
       /\ v.barriers = u.barriers /\ v.passed = u.passed
  BY <1>11 DEF DemandsOf
<1> QED
  BY <1>4, <1>5, <1>6, <1>9, <1>10, <1>11, <1>12 DEF v

(* The driver's demand gets the result.                                    *)
Answers(u, t, d, shows) ==
  /\ u.barriers = t.barriers /\ u.passed = t.passed
  /\ Len(u.log) = Len(t.log)
  /\ \A e \in 1 .. Len(t.log) :
       u.log[e] = IF e = d THEN [t.log[d] EXCEPT !.results = Append(@, shows)] ELSE t.log[e]

LEMMA AnsweredIs ==
  ASSUME NEW t, SessionType(t), NEW d \in Nat, NEW shows \in Int
  PROVE  /\ SessionType(Answered(t, d, shows)) /\ Answered(t, d, shows).work = t.work
         /\ LifeOf(Answered(t, d, shows)) = LifeOf(t)
         /\ SlotsOf(Answered(t, d, shows)) = SlotsOf(t)
         /\ Answered(t, d, shows).state = t.state
         /\ Answered(t, d, shows).demands = t.demands
         /\ Answered(t, d, shows).waiting = t.waiting
         /\ Answers(Answered(t, d, shows), t, d, shows)
<1> DEFINE entry == [t.log[d] EXCEPT !.results = Append(@, shows)]
           ended == [t.log EXCEPT ![d] = entry]
           u == [t EXCEPT !.log = ended]
<1>1. DOMAIN t = Fields /\ t.log \in Seq(Entries)
  BY DEF SessionType
<1>2. d \in DOMAIN t.log => t.log[d] \in Entries
  BY <1>1
<1>3. d \in DOMAIN t.log => entry \in Entries
  BY <1>2, EntryIs
<1>4. Answered(t, d, shows) = u
  BY <1>1 DEF Answered, Fields
<1>5. entry = [t.log[d] EXCEPT !.results = Append(@, shows)]
  OBVIOUS
<1> HIDE DEF entry
<1>6. /\ ended \in Seq(Entries) /\ Len(ended) = Len(t.log)
      /\ \A e \in 1 .. Len(t.log) : ended[e] = IF e = d THEN entry ELSE t.log[e]
  <2>1. CASE d \in 1 .. Len(t.log)
    BY <1>1, <1>3, <2>1, ExceptSeq
  <2>2. CASE d \notin 1 .. Len(t.log)
    <3>1. ended = t.log
      BY <1>1, <2>2
    <3> QED
      BY <1>1, <2>2, <3>1
  <2> QED
    BY <2>1, <2>2
<1> HIDE DEF ended
<1>7. DOMAIN u = Fields /\ LifeOf(u) = LifeOf(t) /\ SlotsOf(u) = SlotsOf(t)
      /\ u.state = t.state /\ u.work = t.work /\ u.log = ended
      /\ u.demands = t.demands /\ u.waiting = t.waiting /\ u.barriers = t.barriers
      /\ u.passed = t.passed
  BY <1>1 DEF Fields, LifeOf, SlotsOf
<1> HIDE DEF u
<1>8. SessionType(u)
  BY <1>6, <1>7 DEF SessionType, LifeOf, SlotsOf
<1> QED
  BY <1>4, <1>5, <1>6, <1>7, <1>8 DEF Answers

(* One texture of u is not as in t.                                        *)
Sets(u, t, i, is) == u.slot = [t.slot EXCEPT ![i] = is]

LEMMA WithSlot ==
  ASSUME NEW t, SessionType(t), NEW i,
         NEW is \in {"free", "rendering", "held", "returning", "quarantined"}
  PROVE  LET u == [t EXCEPT !.slot[i] = is]
         IN  /\ SessionType(u) /\ LifeOf(u) = LifeOf(t) /\ DemandsOf(u) = DemandsOf(t)
             /\ u.state = t.state /\ u.work = t.work /\ Sets(u, t, i, is)
             /\ u.ready = t.ready /\ u.reading = t.reading /\ u.retargets = t.retargets
<1> DEFINE f == [t.slot EXCEPT ![i] = is]
           u == [t EXCEPT !.slot = f]
<1>1. DOMAIN t = Fields
      /\ t.slot \in [Slots -> {"free", "rendering", "held", "returning", "quarantined"}]
  BY DEF SessionType
<1>2. f \in [Slots -> {"free", "rendering", "held", "returning", "quarantined"}]
  BY <1>1
<1>3. [t EXCEPT !.slot[i] = is] = u
  BY <1>1 DEF Fields
<1>4. f = [t.slot EXCEPT ![i] = is]
  OBVIOUS
<1> HIDE DEF f
<1>5. /\ DOMAIN u = Fields /\ LifeOf(u) = LifeOf(t) /\ DemandsOf(u) = DemandsOf(t)
      /\ u.state = t.state /\ u.work = t.work /\ u.slot = f
      /\ u.ready = t.ready /\ u.reading = t.reading /\ u.retargets = t.retargets
  BY <1>1 DEF Fields, LifeOf, DemandsOf
<1> HIDE DEF u
<1>6. SessionType(u)
  BY <1>2, <1>5 DEF SessionType, LifeOf, DemandsOf
<1> QED
  BY <1>3, <1>4, <1>5, <1>6 DEF Sets

LEMMA QuarantinedIs ==
  ASSUME NEW t, SessionType(t), NEW i
  PROVE  LET u == Quarantined(t, i)
         IN  /\ SessionType(u) /\ LifeOf(u) = LifeOf(t) /\ u.state = t.state
             /\ Grown(u.work, t.work)
             /\ t.state # "attached" => u.work = t.work
             /\ Sets(u, t, i, "quarantined")
             /\ u.ready = t.ready /\ u.reading = t.reading /\ u.retargets = t.retargets
             /\ \/ DemandsOf(u) = DemandsOf(t)
                \/ /\ t.state = "attached" /\ u.demands = t.demands /\ u.waiting = <<>>
                   /\ Finishes(u, t, ToSet(t.waiting))
<1> DEFINE v == [t EXCEPT !.slot[i] = "quarantined"]
           w == FinishWaiting(v)
           r == ResumeParked(w)
<1>1. /\ SessionType(v) /\ LifeOf(v) = LifeOf(t) /\ DemandsOf(v) = DemandsOf(t)
      /\ v.state = t.state /\ v.work = t.work
      /\ Sets(v, t, i, "quarantined")
      /\ v.ready = t.ready /\ v.reading = t.reading /\ v.retargets = t.retargets
  BY WithSlot
<1>2. Quarantined(t, i) = IF t.state = "attached" /\ AllQuarantined(v) THEN r ELSE v
  BY DEF Quarantined
<1>3. v.work \in Seq(Works) /\ Grown(v.work, t.work)
  BY <1>1, GrownSelf DEF SessionType
<1> HIDE DEF v
<1>4. /\ SessionType(w) /\ w.work = v.work /\ LifeOf(w) = LifeOf(v)
      /\ SlotsOf(w) = SlotsOf(v) /\ w.state = v.state /\ w.demands = v.demands
      /\ w.waiting = <<>> /\ Finishes(w, v, ToSet(v.waiting))
  BY <1>1, FinishWaitingIs
<1> HIDE DEF w
<1>5. /\ SessionType(r) /\ Grown(r.work, w.work) /\ LifeOf(r) = LifeOf(w)
      /\ SlotsOf(r) = SlotsOf(w) /\ DemandsOf(r) = DemandsOf(w) /\ r.state = w.state
  BY <1>4, ResumeParkedIs
<1> HIDE DEF r
<1>6. /\ r.slot = v.slot /\ r.ready = v.ready /\ r.reading = v.reading
      /\ r.retargets = v.retargets
  BY <1>4, <1>5 DEF SlotsOf
<1>7. r.demands = t.demands /\ r.waiting = <<>> /\ Finishes(r, t, ToSet(t.waiting))
  BY <1>1, <1>4, <1>5 DEF Finishes, DemandsOf
<1>8. CASE t.state = "attached" /\ AllQuarantined(v)
  BY <1>1, <1>2, <1>4, <1>5, <1>6, <1>7, <1>8 DEF Sets
<1>9. CASE ~(t.state = "attached" /\ AllQuarantined(v))
  BY <1>1, <1>2, <1>3, <1>9
<1> QED
  BY <1>8, <1>9

LEMMA ReturnedIs ==
  ASSUME NEW t, SessionType(t), NEW i
  PROVE  LET u    == Returned(t, i)
             lost == t.state \in {"abandoned", "failed"}
         IN  /\ SessionType(u) /\ LifeOf(u) = LifeOf(t) /\ u.state = t.state
             /\ DemandsOf(u) = DemandsOf(t)
             /\ Grown(u.work, t.work)
             /\ ~Live(t) => u.work = t.work
             /\ u.ready = t.ready /\ u.retargets = t.retargets
             /\ lost => Sets(u, t, i, "quarantined") /\ u.reading = t.reading
             /\ ~lost => /\ Sets(u, t, i, "free")
                         /\ u.reading = IF t.objects THEN t.reading \ {i} ELSE t.reading
<1>1. CASE t.state \in {"abandoned", "failed"}
  <2>1. t.state # "attached" /\ Returned(t, i) = Quarantined(t, i)
    BY <1>1 DEF Returned
  <2>2. Quarantined(t, i) = [t EXCEPT !.slot[i] = "quarantined"]
    BY <2>1 DEF Quarantined
  <2>3. t.work \in Seq(Works) /\ Grown(t.work, t.work)
    BY GrownSelf DEF SessionType
  <2> DEFINE v == [t EXCEPT !.slot[i] = "quarantined"]
  <2>4. /\ SessionType(v) /\ LifeOf(v) = LifeOf(t) /\ DemandsOf(v) = DemandsOf(t)
        /\ v.state = t.state /\ v.work = t.work
        /\ Sets(v, t, i, "quarantined")
        /\ v.ready = t.ready /\ v.reading = t.reading /\ v.retargets = t.retargets
    BY "quarantined" \in {"free", "rendering", "held", "returning", "quarantined"}, WithSlot
  <2> HIDE DEF v
  <2>5. Returned(t, i) = v
    BY <2>1, <2>2 DEF v
  <2> QED
    BY <1>1, <2>3, <2>4, <2>5
<1>2. CASE t.state \notin {"abandoned", "failed"}
  <2> DEFINE v == [t EXCEPT !.slot[i] = "free"]
             w == [v EXCEPT !.reading = IF t.objects THEN @ \ {i} ELSE @]
             r == ResumeParked(w)
  <2>1. /\ SessionType(v) /\ LifeOf(v) = LifeOf(t) /\ DemandsOf(v) = DemandsOf(t)
        /\ v.state = t.state /\ v.work = t.work
        /\ Sets(v, t, i, "free")
        /\ v.ready = t.ready /\ v.reading = t.reading /\ v.retargets = t.retargets
    <3>1. "free" \in {"free", "rendering", "held", "returning", "quarantined"}
      OBVIOUS
    <3> QED
      BY <3>1, WithSlot, ZenonT(20)
  <2>2. Returned(t, i) = r
    BY <1>2 DEF Returned
  <2> HIDE DEF v
  <2>3. /\ SessionType(w) /\ LifeOf(w) = LifeOf(v) /\ DemandsOf(w) = DemandsOf(v)
        /\ w.state = v.state /\ w.work = v.work /\ w.slot = v.slot
        /\ w.ready = v.ready /\ w.retargets = v.retargets
        /\ w.reading = IF t.objects THEN v.reading \ {i} ELSE v.reading
    BY <2>1 DEF SessionType, Fields, LifeOf, DemandsOf
  <2> HIDE DEF w
  <2>4. /\ SessionType(r) /\ Grown(r.work, w.work) /\ LifeOf(r) = LifeOf(w)
        /\ SlotsOf(r) = SlotsOf(w) /\ DemandsOf(r) = DemandsOf(w) /\ r.state = w.state
        /\ ~Live(w) => r.work = w.work
    BY <2>3, ResumeParkedIs
  <2> HIDE DEF r
  <2>5. Live(w) <=> Live(t)
    BY <2>1, <2>3 DEF Live
  <2>6. /\ r.slot = w.slot /\ r.ready = w.ready /\ r.reading = w.reading
        /\ r.retargets = w.retargets
    BY <2>4 DEF SlotsOf
  <2> QED
    BY <1>2, <2>1, <2>2, <2>3, <2>4, <2>5, <2>6 DEF Sets
<1> QED
  BY <1>1, <1>2

(* The textures whose release is cancelled.                                *)
LEMMA CancelledIs ==
  ASSUME NEW t, SessionType(t)
  PROVE  /\ Cancelled(t) \subseteq Slots /\ Cardinality(Cancelled(t)) \in Nat
         /\ \A i \in Slots : i \in Cancelled(t) <=>
              \E n \in DOMAIN t.work : t.work[n].kind = "release" /\ t.work[n].of = i
<1>1. Cancelled(t) \subseteq Slots
  BY DEF Cancelled
<1>2. IsFiniteSet(Slots)
  BY BoundAssumption, FS_Interval DEF Slots
<1>3. Cardinality(Cancelled(t)) \in Nat
  BY <1>1, <1>2, FS_Subset, FS_CardinalityType
<1>4. \A n \in DOMAIN t.work : t.work[n] \in Works
  BY DEF SessionType
<1>5. \A i \in Slots, w \in Works : w = Item("release", i) <=> w.kind = "release" /\ w.of = i
  BY DEF Works, Item
<1>6. \A i \in Slots : i \in Cancelled(t) <=>
        \E n \in DOMAIN t.work : t.work[n] = Item("release", i)
  BY DEF Cancelled, ToSet
<1> QED
  BY <1>1, <1>3, <1>4, <1>5, <1>6

(* The cancelled releases have their textures freed or quarantined.        *)
Cuts(u, t, to) ==
  u.slot = [i \in Slots |-> IF i \in Cancelled(t) THEN to ELSE t.slot[i]]

LEMMA CancelWorkIs ==
  ASSUME NEW t, SessionType(t)
  PROVE  LET u    == CancelWork(t)
             lost == t.state \in {"abandoned", "failed"}
         IN  /\ SessionType(u) /\ LifeOf(u) = LifeOf(t) /\ u.state = t.state
             /\ DemandsOf(u) = DemandsOf(t)
             /\ \A i \in DOMAIN u.work : u.work[i].kind = "frame"
             /\ ~Live(t) => u.work = <<>>
             /\ Cuts(u, t, IF lost THEN "quarantined" ELSE "free")
             /\ u.ready = t.ready /\ u.retargets = t.retargets
             /\ u.reading = IF lost \/ ~t.objects THEN t.reading
                            ELSE t.reading \ Cancelled(t)
<1> DEFINE lost == t.state \in {"abandoned", "failed"}
           cut == [i \in Slots |-> IF i \notin Cancelled(t) THEN t.slot[i]
                                   ELSE IF lost THEN "quarantined" ELSE "free"]
           still == IF lost \/ ~t.objects THEN t.reading ELSE t.reading \ Cancelled(t)
           v == [t EXCEPT !.work = <<>>, !.slot = cut, !.reading = still]
           n == Cardinality(Cancelled(t))
           ws == [k \in 1 .. n |-> Item("frame", Head(t.demands))]
<1>1. DOMAIN t = Fields /\ t.demands \in Seq(Nat) /\ t.reading \subseteq Slots
      /\ t.slot \in [Slots -> {"free", "rendering", "held", "returning", "quarantined"}]
  BY DEF SessionType
<1>2. n \in Nat
  BY CancelledIs
<1>3. cut \in [Slots -> {"free", "rendering", "held", "returning", "quarantined"}]
  BY <1>1
<1>4. still \subseteq Slots
  BY <1>1
<1>5. CancelWork(t) = IF t.demands # <<>> /\ Live(t) THEN PushedAll(v, ws) ELSE v
  BY <1>1 DEF CancelWork, Fields
<1>6. cut = [i \in Slots |-> IF i \in Cancelled(t) THEN IF lost THEN "quarantined" ELSE "free"
                             ELSE t.slot[i]]
  OBVIOUS
<1> HIDE DEF cut
<1>7. still = IF lost \/ ~t.objects THEN t.reading ELSE t.reading \ Cancelled(t)
  OBVIOUS
<1> HIDE DEF still
<1>8. /\ DOMAIN v = Fields /\ LifeOf(v) = LifeOf(t) /\ DemandsOf(v) = DemandsOf(t)
      /\ v.state = t.state /\ v.work = <<>> /\ v.slot = cut
      /\ v.ready = t.ready /\ v.reading = still /\ v.retargets = t.retargets
  BY <1>1 DEF Fields, LifeOf, DemandsOf
<1> HIDE DEF v
<1>9. SessionType(v)
  BY <1>3, <1>4, <1>8 DEF SessionType, LifeOf, DemandsOf
<1>10. CASE t.demands # <<>> /\ Live(t)
  <2>1. Item("frame", Head(t.demands)) \in Works
        /\ Item("frame", Head(t.demands)).kind = "frame"
    <3>1. Head(t.demands) \in Nat /\ "frame" \in WorkKinds
      BY <1>1, <1>10 DEF WorkKinds
    <3> QED
      BY <3>1, ItemIs
  <2>2. ws \in Seq(Works) /\ \A k \in DOMAIN ws : ws[k].kind = "frame"
    BY <1>2, <2>1
  <2> HIDE DEF ws
  <2> DEFINE r == PushedAll(v, ws)
  <2>3. /\ SessionType(r) /\ r.work = <<>> \o ws /\ LifeOf(r) = LifeOf(v)
        /\ SlotsOf(r) = SlotsOf(v) /\ DemandsOf(r) = DemandsOf(v) /\ r.state = v.state
    BY <1>8, <1>9, <2>2, PushedAllIs
  <2>4. <<>> \o ws = ws
    BY <2>2
  <2> HIDE DEF r
  <2>5. /\ r.slot = v.slot /\ r.ready = v.ready /\ r.reading = v.reading
        /\ r.retargets = v.retargets
    BY <2>3 DEF SlotsOf
  <2>6. CancelWork(t) = r
    BY <1>5, <1>10 DEF r
  <2> QED
    BY <1>6, <1>7, <1>8, <1>10, <2>2, <2>3, <2>4, <2>5, <2>6 DEF Cuts
<1>11. CASE ~(t.demands # <<>> /\ Live(t))
  <2>1. CancelWork(t) = v
    BY <1>5, <1>11
  <2> QED
    BY <1>6, <1>7, <1>8, <1>9, <2>1 DEF Cuts
<1> QED
  BY <1>10, <1>11

LEMMA FailedIs ==
  ASSUME NEW t, SessionType(t), t.state # "failed", ~Over(t)
  PROVE  LET u == Failed(t)
         IN  /\ SessionType(u) /\ LifeOf(u) = LifeOf(t) /\ u.state = "failed"
             /\ u.demands = <<>> /\ u.waiting = <<>>
             /\ Finishes(u, t, ToSet(t.demands \o t.waiting))
             /\ u.work = <<>> /\ Cuts(u, t, "quarantined")
             /\ u.ready = <<>> /\ u.retargets = t.retargets /\ u.reading = t.reading
<1> DEFINE a == [Unready(t) EXCEPT !.state = "failed", !.ready = <<>>, !.stop = TRUE]
           b == FinishDemands(a)
           c == Notified(b)
           d == CancelWork(c)
<1>1. Failed(t) = d
  BY DEF Failed
<1>2. DOMAIN t = Fields
  BY DEF SessionType
<1>3. /\ DOMAIN a = Fields /\ LifeOf(a) = LifeOf(t) /\ DemandsOf(a) = DemandsOf(t)
      /\ a.state = "failed" /\ a.work = t.work /\ a.slot = t.slot /\ a.ready = <<>>
      /\ a.reading = t.reading /\ a.retargets = t.retargets
  BY <1>2 DEF Unready, Fields, LifeOf, DemandsOf
<1> HIDE DEF a
<1>4. SessionType(a)
  BY <1>3 DEF SessionType, States, LifeOf, DemandsOf
<1>5. /\ SessionType(b) /\ b.work = a.work /\ LifeOf(b) = LifeOf(a)
      /\ SlotsOf(b) = SlotsOf(a) /\ b.state = a.state /\ b.demands = <<>>
      /\ b.waiting = <<>> /\ Finishes(b, a, ToSet(a.demands \o a.waiting))
  BY <1>4, FinishDemandsIs
<1> HIDE DEF b
<1>6. DOMAIN c = Fields /\ PartsOf(c) = PartsOf(b)
  BY <1>5, NotifiedIs DEF SessionType
<1> HIDE DEF c
<1>7. SessionType(c)
  BY <1>5, <1>6, SameParts
<1>8. /\ LifeOf(c) = LifeOf(t) /\ c.state = "failed" /\ c.work = t.work
      /\ c.slot = t.slot /\ c.ready = <<>> /\ c.reading = t.reading
      /\ c.retargets = t.retargets /\ DemandsOf(c) = DemandsOf(b)
  BY <1>3, <1>5, <1>6 DEF PartsOf, SlotsOf
<1>9. /\ SessionType(d) /\ LifeOf(d) = LifeOf(c) /\ d.state = c.state
      /\ DemandsOf(d) = DemandsOf(c) /\ d.work = <<>> /\ Cuts(d, c, "quarantined")
      /\ d.ready = c.ready /\ d.retargets = c.retargets /\ d.reading = c.reading
  BY <1>7, <1>8, CancelWorkIs DEF Live
<1> HIDE DEF d
<1>10. Cuts(d, t, "quarantined")
  BY <1>8, <1>9 DEF Cuts, Cancelled
<1>11. d.demands = <<>> /\ d.waiting = <<>> /\ Finishes(d, t, ToSet(t.demands \o t.waiting))
  <2>1. /\ a.demands = t.demands /\ a.waiting = t.waiting /\ a.log = t.log
        /\ a.barriers = t.barriers /\ a.passed = t.passed
    BY <1>3 DEF DemandsOf
  <2>2. /\ d.demands = b.demands /\ d.waiting = b.waiting /\ d.log = b.log
        /\ d.barriers = b.barriers /\ d.passed = b.passed
    BY <1>8, <1>9 DEF DemandsOf
  <2>3. Finishes(b, t, ToSet(t.demands \o t.waiting))
    BY <1>5, <2>1 DEF Finishes
  <2> QED
    BY <1>5, <2>2, <2>3 DEF Finishes
<1> QED
  BY <1>1, <1>8, <1>9, <1>10, <1>11

LEMMA AbandonedIs ==
  ASSUME NEW t, SessionType(t)
  PROVE  LET u == Abandoned(t)
         IN  /\ SessionType(u) /\ LifeOf(u) = LifeOf(t) /\ u.state = "abandoned"
             /\ u.demands = <<>> /\ u.waiting = <<>>
             /\ Finishes(u, t, IF t.disposed THEN {} ELSE ToSet(t.demands \o t.waiting))
             /\ u.work = <<>> /\ Cuts(u, t, "quarantined")
             /\ u.ready = t.ready /\ u.retargets = t.retargets /\ u.reading = t.reading
<1> DEFINE b == EndDemands(t)
           a == [b EXCEPT !.state = "abandoned", !.invalid = TRUE, !.stop = TRUE,
                          !.open = FALSE]
           c == Notified(a)
           d == CancelWork(c)
           ds == IF t.disposed THEN {} ELSE ToSet(t.demands \o t.waiting)
<1>1. Abandoned(t) = d
  BY DEF Abandoned
<1>2. /\ SessionType(b) /\ b.work = t.work /\ LifeOf(b) = LifeOf(t)
      /\ SlotsOf(b) = SlotsOf(t) /\ b.state = t.state /\ b.demands = <<>>
      /\ b.waiting = <<>> /\ Finishes(b, t, ds)
  BY EndDemandsIs
<1> HIDE DEF b, ds
<1>3. DOMAIN b = Fields
  BY <1>2 DEF SessionType
<1>4. /\ DOMAIN a = Fields /\ LifeOf(a) = LifeOf(b) /\ DemandsOf(a) = DemandsOf(b)
      /\ a.state = "abandoned" /\ a.work = b.work /\ SlotsOf(a) = SlotsOf(b)
  BY <1>3 DEF Fields, LifeOf, DemandsOf, SlotsOf
<1> HIDE DEF a
<1>5. SessionType(a)
  BY <1>2, <1>4 DEF SessionType, States, LifeOf, DemandsOf, SlotsOf
<1>6. DOMAIN c = Fields /\ PartsOf(c) = PartsOf(a)
  BY <1>4, NotifiedIs
<1> HIDE DEF c
<1>7. SessionType(c)
  BY <1>5, <1>6, SameParts
<1>8. /\ LifeOf(c) = LifeOf(t) /\ c.state = "abandoned" /\ c.work = t.work
      /\ c.slot = t.slot /\ c.ready = t.ready /\ c.reading = t.reading
      /\ c.retargets = t.retargets /\ DemandsOf(c) = DemandsOf(b)
  BY <1>2, <1>4, <1>6 DEF PartsOf, SlotsOf
<1>9. /\ SessionType(d) /\ LifeOf(d) = LifeOf(c) /\ d.state = c.state
      /\ DemandsOf(d) = DemandsOf(c) /\ d.work = <<>> /\ Cuts(d, c, "quarantined")
      /\ d.ready = c.ready /\ d.retargets = c.retargets /\ d.reading = c.reading
  BY <1>7, <1>8, CancelWorkIs DEF Live
<1> HIDE DEF d
<1>10. Cuts(d, t, "quarantined")
  BY <1>8, <1>9 DEF Cuts, Cancelled
<1>11. d.demands = <<>> /\ d.waiting = <<>> /\ Finishes(d, t, ds)
  BY <1>2, <1>8, <1>9 DEF Finishes, DemandsOf
<1> QED
  BY <1>1, <1>8, <1>9, <1>10, <1>11 DEF ds

LEMMA NewRingIs ==
  ASSUME NEW t, SessionType(t)
  PROVE  LET u == NewRing(t)
         IN  /\ SessionType(u) /\ LifeOf(u) = LifeOf(t) /\ DemandsOf(u) = DemandsOf(t)
             /\ u.state = t.state /\ u.work = t.work /\ u.slot = [i \in Slots |-> "free"]
             /\ u.ready = <<>> /\ u.reading = {} /\ u.retargets = t.retargets
<1> DEFINE u == NewRing(t)
<1>1. DOMAIN t = Fields
  BY DEF SessionType
<1>2. /\ DOMAIN u = Fields /\ LifeOf(u) = LifeOf(t) /\ DemandsOf(u) = DemandsOf(t)
      /\ u.state = t.state /\ u.work = t.work /\ u.slot = [i \in Slots |-> "free"]
      /\ u.ready = <<>> /\ u.reading = {} /\ u.retargets = t.retargets
  BY <1>1 DEF NewRing, Fields, LifeOf, DemandsOf
<1> HIDE DEF u
<1>3. SessionType(u)
  BY <1>2 DEF SessionType, LifeOf, DemandsOf
<1> QED
  BY <1>2, <1>3 DEF u

LEMMA NextItemIs ==
  ASSUME NEW t, SessionType(t), t.work # <<>>
  PROVE  LET u == NextItem(t)
         IN  /\ SessionType(u) /\ u.call = TRUE /\ u.work = Tail(t.work)
             /\ LifeOf(u) = LifeOf([t EXCEPT !.call = TRUE])
             /\ SlotsOf(u) = SlotsOf(t) /\ DemandsOf(u) = DemandsOf(t) /\ u.state = t.state
<1> DEFINE v == Checked(t)
           u == [v EXCEPT !.work = Tail(@), !.call = TRUE]
<1>1. DOMAIN t = Fields /\ t.work \in Seq(Works)
  BY DEF SessionType
<1>2. Tail(t.work) \in Seq(Works)
  BY <1>1
<1>3. DOMAIN v = Fields /\ PartsOf(v) = PartsOf(t)
  BY <1>1, CheckedIs
<1> HIDE DEF v
<1>4. /\ DOMAIN u = Fields /\ u.work = Tail(t.work) /\ u.call = TRUE
      /\ LifeOf(u) = LifeOf([t EXCEPT !.call = TRUE])
      /\ SlotsOf(u) = SlotsOf(t) /\ DemandsOf(u) = DemandsOf(t) /\ u.state = t.state
  BY <1>1, <1>3 DEF Fields, PartsOf, LifeOf, SlotsOf, DemandsOf
<1>5. NextItem(t) = u
  BY DEF NextItem, v
<1>6. LifeOf([t EXCEPT !.call = TRUE])
        = <<t.kind, t.views, TRUE, t.disposed, t.due, t.hook, t.objects>>
  BY <1>1 DEF Fields, LifeOf
<1> HIDE DEF u
<1>7. SessionType(u)
  BY <1>2, <1>4, <1>6 DEF SessionType, LifeOf, SlotsOf, DemandsOf
<1> QED
  BY <1>4, <1>5, <1>7

LEMMA EndsCallIs ==
  ASSUME NEW t, DOMAIN t = Fields
  PROVE  DOMAIN EndsCall(t) = Fields /\ PartsOf(EndsCall(t)) = PartsOf(t)
<1> DEFINE v == Checked(t)
           owed == t.due \/ Runnable(t)
           called == v.called \/ (owed /\ t.open)
<1>1. DOMAIN v = Fields /\ PartsOf(v) = PartsOf(t)
  BY CheckedIs
<1>2. t.kind # "core" =>
        EndsCall(t) = [v EXCEPT !.owed = owed, !.called = called]
  BY <1>1 DEF EndsCall, Fields
<1> HIDE DEF v, owed, called
<1>3. CASE t.kind = "core"
  BY <1>3, NotifiedIs DEF EndsCall
<1>4. CASE t.kind # "core"
  <2> DEFINE u == [v EXCEPT !.owed = owed, !.called = called]
  <2>1. DOMAIN u = Fields /\ PartsOf(u) = PartsOf(v)
    BY <1>1 DEF Fields, PartsOf, LifeOf, SlotsOf, DemandsOf
  <2> QED
    BY <1>1, <1>2, <1>4, <2>1
<1> QED
  BY <1>3, <1>4

LEMMA RetiredIs ==
  ASSUME NEW t, SessionType(t)
  PROVE  LET u == Retired(t)
         IN  /\ SessionType(u)
             /\ LifeOf(u) = <<t.kind, t.views, t.call, t.disposed, t.due, FALSE, FALSE>>
             /\ SlotsOf(u) = SlotsOf(t) /\ DemandsOf(u) = DemandsOf(t)
             /\ u.state = t.state /\ u.work = t.work
<1> DEFINE v == [t EXCEPT !.objects = FALSE, !.complete = TRUE, !.hook = FALSE]
           u == Notified(v)
<1>1. DOMAIN t = Fields
  BY DEF SessionType
<1>2. /\ DOMAIN v = Fields
      /\ LifeOf(v) = <<t.kind, t.views, t.call, t.disposed, t.due, FALSE, FALSE>>
      /\ SlotsOf(v) = SlotsOf(t) /\ DemandsOf(v) = DemandsOf(t)
      /\ v.state = t.state /\ v.work = t.work
  BY <1>1 DEF Fields, LifeOf, SlotsOf, DemandsOf
<1>3. Retired(t) = u
  BY DEF Retired
<1> HIDE DEF v
<1>4. DOMAIN u = Fields /\ PartsOf(u) = PartsOf(v)
  BY <1>2, NotifiedIs
<1> HIDE DEF u
<1>5. SessionType(v)
  BY <1>2 DEF SessionType, LifeOf, SlotsOf, DemandsOf
<1>6. SessionType(u)
  BY <1>4, <1>5, SameParts
<1> QED
  BY <1>2, <1>3, <1>4, <1>6 DEF PartsOf
-----------------------------------------------------------------------------
(* Without(q, S) is q without the members of S: its recursion is unfolded  *)
(* at the least prefix of q for which this might fail.                     *)
Keeps(f, q, S) ==
  f = [n \in 0 .. Len(q) |->
         IF n = 0 THEN <<>>
         ELSE IF q[n] \in S THEN f[n - 1] ELSE Append(f[n - 1], q[n])]

KeepsTo(f, q, S, n) ==
  /\ f[0] = <<>>
  /\ \A i \in 1 .. n : f[i] = IF q[i] \in S THEN f[i - 1] ELSE Append(f[i - 1], q[i])

LEMMA KeepsOneMore ==
  ASSUME NEW T, NEW q \in Seq(T), NEW S, NEW n \in 1 .. Len(q),
         NEW f \in [0 .. n - 1 -> Seq(T)], KeepsTo(f, q, S, n - 1)
  PROVE  \E g \in [0 .. n -> Seq(T)] : KeepsTo(g, q, S, n)
<1> DEFINE x == IF q[n] \in S THEN f[n - 1] ELSE Append(f[n - 1], q[n])
           g == [i \in 0 .. n |-> IF i = n THEN x ELSE f[i]]
<1>1. n \in Nat /\ n - 1 \in Nat /\ n - 1 \in 0 .. n - 1 /\ q[n] \in T
  OBVIOUS
<1>2. f[n - 1] \in Seq(T)
  BY <1>1
<1>3. x \in Seq(T)
  BY <1>1, <1>2
<1>4. x = IF q[n] \in S THEN f[n - 1] ELSE Append(f[n - 1], q[n])
  OBVIOUS
<1> HIDE DEF x
<1>5. g \in [0 .. n -> Seq(T)] /\ g[n] = x /\ \A i \in 0 .. n - 1 : g[i] = f[i]
  BY <1>1, <1>3
<1> HIDE DEF g
<1>6. g[0] = <<>>
  BY <1>1, <1>5 DEF KeepsTo
<1>7. ASSUME NEW i \in 1 .. n
      PROVE  g[i] = IF q[i] \in S THEN g[i - 1] ELSE Append(g[i - 1], q[i])
  <2>1. CASE i = n
    BY <1>1, <1>4, <1>5, <2>1
  <2>2. CASE i # n
    <3>1. i \in 1 .. n - 1 /\ i \in 0 .. n - 1 /\ i - 1 \in 0 .. n - 1
      BY <1>1, <2>2
    <3> QED
      BY <1>5, <3>1 DEF KeepsTo
  <2> QED
    BY <2>1, <2>2
<1> QED
  BY <1>5, <1>6, <1>7 DEF KeepsTo

LEMMA KeepsExists ==
  ASSUME NEW T, NEW q \in Seq(T), NEW S
  PROVE  \E f \in [0 .. Len(q) -> Seq(T)] : KeepsTo(f, q, S, Len(q))
<1> DEFINE Kept(n) == \E f \in [0 .. n -> Seq(T)] : KeepsTo(f, q, S, n)
           Good == {n \in 0 .. Len(q) : Kept(n)}
<1>1. Len(q) \in Nat
  OBVIOUS
<1>2. Kept(0)
  <2> DEFINE g == [i \in 0 .. 0 |-> <<>>]
  <2>1. g \in [0 .. 0 -> Seq(T)] /\ KeepsTo(g, q, S, 0)
    BY DEF KeepsTo
  <2> QED
    BY <2>1
<1>3. \A n \in 1 .. Len(q) : Kept(n - 1) => Kept(n)
  BY KeepsOneMore
<1> HIDE DEF Kept
<1>4. 0 \in Good /\ \A n \in 1 .. Len(q) : n - 1 \in Good => n \in Good
  BY <1>1, <1>2, <1>3
<1>5. \A n \in 0 .. Len(q) : n \in Good
  BY <1>1, <1>4, UpTo
<1>6. Kept(Len(q))
  BY <1>1, <1>5
<1> QED
  BY <1>6 DEF Kept

LEMMA WithoutKeeps ==
  ASSUME NEW T, NEW q \in Seq(T), NEW S
  PROVE  \E f \in [0 .. Len(q) -> Seq(T)] :
           KeepsTo(f, q, S, Len(q)) /\ Without(q, S) = f[Len(q)]
<1> DEFINE N == Len(q)
           f == CHOOSE g : Keeps(g, q, S)
<1>1. N \in Nat
  OBVIOUS
<1>2. Without(q, S) = f[N]
  BY DEF Without, Keeps
<1>3. PICK h \in [0 .. N -> Seq(T)] : KeepsTo(h, q, S, N)
  BY KeepsExists
<1>4. N = Len(q)
  OBVIOUS
<1> HIDE DEF N
<1>5. \A n \in 0 .. N : h[n] = IF n = 0 THEN <<>>
        ELSE IF q[n] \in S THEN h[n - 1] ELSE Append(h[n - 1], q[n])
  <2>1. h[0] = <<>> /\ \A n \in 1 .. N :
          h[n] = IF q[n] \in S THEN h[n - 1] ELSE Append(h[n - 1], q[n])
    BY <1>3 DEF KeepsTo
  <2>2. \A n \in 0 .. N : n # 0 => n \in 1 .. N
    BY <1>1
  <2> QED
    BY <2>1, <2>2
<1>6. h = [n \in 0 .. N |-> h[n]]
  BY <1>3
<1>7. Keeps(h, q, S)
  BY <1>4, <1>5, <1>6 DEF Keeps
<1>8. Keeps(f, q, S)
  BY <1>7
<1> HIDE DEF f
<1>9. f[0] = <<>> /\ \A n \in 1 .. N :
        f[n] = IF q[n] \in S THEN f[n - 1] ELSE Append(f[n - 1], q[n])
  <2>1. f = [n \in 0 .. N |-> IF n = 0 THEN <<>>
               ELSE IF q[n] \in S THEN f[n - 1] ELSE Append(f[n - 1], q[n])]
    BY <1>4, <1>8 DEF Keeps
  <2>2. \A n \in 0 .. N : f[n] = IF n = 0 THEN <<>>
               ELSE IF q[n] \in S THEN f[n - 1] ELSE Append(f[n - 1], q[n])
    BY <2>1
  <2> QED
    BY <1>1, <2>2
<1>10. KeepsTo(f, q, S, N) /\ DOMAIN f = 0 .. N
  BY <1>4, <1>8, <1>9 DEF KeepsTo, Keeps
<1> DEFINE Good == {n \in 0 .. N : f[n] \in Seq(T)}
<1>11. \A n \in 0 .. N : n \in Good
  <2>1. 0 \in Good
    <3>1. f[0] = <<>>
      BY <1>9
    <3>2. f[0] \in Seq(T)
      BY <3>1
    <3> QED
      BY <1>1, <3>2
  <2>2. ASSUME NEW n \in 1 .. N, n - 1 \in Good
        PROVE  n \in Good
    <3>1. f[n - 1] \in Seq(T) /\ q[n] \in T /\ n \in 0 .. N
      BY <1>1, <1>4, <2>2
    <3>2. Append(f[n - 1], q[n]) \in Seq(T)
      BY <3>1
    <3> QED
      BY <1>9, <3>1, <3>2
  <2> QED
    BY <1>1, <2>1, <2>2, UpTo
<1>12. f \in [0 .. N -> Seq(T)]
  <2>1. \A n \in 0 .. N : f[n] \in Seq(T)
    BY <1>11
  <2>2. f = [n \in 0 .. N |-> f[n]]
    BY <1>4, <1>8, <1>10 DEF Keeps
  <2> QED
    BY <2>1, <2>2
<1> QED
  BY <1>2, <1>4, <1>10, <1>12

(* w has what the first n of q have, but the members of S.                 *)
Filters(w, q, S, n) ==
  /\ \A x : (\E j \in 1 .. Len(w) : w[j] = x) <=> x \notin S /\ \E i \in 1 .. n : q[i] = x
  /\ IsInjective(q) => \A j, k \in 1 .. Len(w) : w[j] = w[k] => j = k

LEMMA FiltersOneMore ==
  ASSUME NEW T, NEW q \in Seq(T), NEW S, NEW n \in 1 .. Len(q),
         NEW v \in Seq(T), Filters(v, q, S, n - 1)
  PROVE  Filters(IF q[n] \in S THEN v ELSE Append(v, q[n]), q, S, n)
<1>1. n \in Nat /\ q[n] \in T /\ n - 1 \in Nat /\ DOMAIN q = 1 .. Len(q) /\ Len(q) \in Nat
  OBVIOUS
<1>2. \A x : (\E i \in 1 .. n : q[i] = x) <=> q[n] = x \/ \E i \in 1 .. n - 1 : q[i] = x
  BY <1>1
<1>3. IsInjective(q) => \A i \in 1 .. n - 1 : q[i] # q[n]
  BY <1>1 DEF IsInjective
<1>4. CASE q[n] \in S
  BY <1>2, <1>4 DEF Filters
<1>5. CASE q[n] \notin S
  <2> DEFINE w == Append(v, q[n])
  <2>1. /\ w \in Seq(T) /\ Len(v) \in Nat /\ Len(w) = Len(v) + 1
        /\ \A j \in 1 .. Len(v) : w[j] = v[j]
        /\ w[Len(v) + 1] = q[n]
    BY <1>1
  <2> HIDE DEF w
  <2>2. \A x : (\E j \in 1 .. Len(w) : w[j] = x) <=>
                 x = q[n] \/ \E j \in 1 .. Len(v) : v[j] = x
    <3>1. \A j \in 1 .. Len(w) : j = Len(v) + 1 \/ j \in 1 .. Len(v)
      BY <2>1
    <3>2. \A j \in 1 .. Len(v) : j \in 1 .. Len(w)
      BY <2>1
    <3>3. Len(v) + 1 \in 1 .. Len(w)
      BY <2>1
    <3> QED
      BY <2>1, <3>1, <3>2, <3>3
  <2>3. \A x : (\E j \in 1 .. Len(w) : w[j] = x) <=> x \notin S /\ \E i \in 1 .. n : q[i] = x
    BY <1>2, <1>5, <2>2 DEF Filters
  <2>4. IsInjective(q) => \A j \in 1 .. Len(v) : v[j] # q[n]
    BY <1>3 DEF Filters
  <2>5. ASSUME IsInjective(q), NEW j \in 1 .. Len(w), NEW k \in 1 .. Len(w), w[j] = w[k]
        PROVE  j = k
    BY <2>1, <2>4, <2>5 DEF Filters
  <2>6. Filters(w, q, S, n)
    BY <2>3, <2>5 DEF Filters
  <2> QED
    BY <1>5, <2>6 DEF w
<1> QED
  BY <1>4, <1>5

LEMMA WithoutIs ==
  ASSUME NEW T, NEW q \in Seq(T), NEW S
  PROVE  /\ Without(q, S) \in Seq(T)
         /\ \A x : x \in ToSet(Without(q, S)) <=> x \in ToSet(q) /\ x \notin S
         /\ IsInjective(q) => IsInjective(Without(q, S))
<1> DEFINE N == Len(q)
<1>1. PICK f \in [0 .. N -> Seq(T)] : KeepsTo(f, q, S, N) /\ Without(q, S) = f[N]
  BY WithoutKeeps
<1>2. N \in Nat /\ DOMAIN q = 1 .. N
  OBVIOUS
<1>3. \A n \in 1 .. N : Filters(f[n - 1], q, S, n - 1) => Filters(f[n], q, S, n)
  <2> TAKE n \in 1 .. N
  <2>1. n - 1 \in 0 .. N
    BY <1>2
  <2>2. f[n - 1] \in Seq(T)
    BY <2>1
  <2>3. f[n] = IF q[n] \in S THEN f[n - 1] ELSE Append(f[n - 1], q[n])
    BY <1>1 DEF KeepsTo
  <2> QED
    BY <2>2, <2>3, FiltersOneMore
<1> HIDE DEF N
<1> DEFINE Good == {n \in 0 .. N : Filters(f[n], q, S, n)}
<1>4. Filters(f[0], q, S, 0)
  BY <1>1 DEF Filters, KeepsTo
<1>5. \A n \in 0 .. N : n \in Good
  <2>1. 0 \in Good /\ \A n \in 1 .. N : n - 1 \in Good => n \in Good
    BY <1>2, <1>3, <1>4
  <2> QED
    BY <1>2, <2>1, UpTo
<1>6. Filters(f[N], q, S, N) /\ f[N] \in Seq(T)
  BY <1>2, <1>5
<1> DEFINE w == f[N]
<1>7. Without(q, S) = w /\ w \in Seq(T) /\ Filters(w, q, S, N)
  BY <1>1, <1>6
<1> HIDE DEF w
<1>8. DOMAIN w = 1 .. Len(w)
  BY <1>7
<1>9. \A x : x \in ToSet(w) <=> x \in ToSet(q) /\ x \notin S
  <2>1. \A x : x \in ToSet(w) <=> \E i \in 1 .. Len(w) : w[i] = x
    BY <1>7, <1>8, ToSetIs
  <2>2. \A x : x \in ToSet(q) <=> \E i \in 1 .. N : q[i] = x
    BY <1>2, ToSetIs
  <2>3. \A x : (\E i \in 1 .. Len(w) : w[i] = x) <=> x \notin S /\ \E i \in 1 .. N : q[i] = x
    BY <1>7 DEF Filters
  <2> QED
    BY <2>1, <2>2, <2>3
<1>10. IsInjective(q) => IsInjective(w)
  BY <1>7, <1>8 DEF Filters, IsInjective
<1> QED
  BY <1>7, <1>9, <1>10
-----------------------------------------------------------------------------
(* What each action does to the session, the driver and the lane.          *)
LEMMA EndsIs ==
  ASSUME Ends
  PROVE  /\ driver' \in Drivers /\ driver'.at \in {"done", "loop"}
         /\ driver'.item = NoItem /\ driver'.demand = 0 /\ driver'.slot = 0
         /\ driver'.at = "done" <=> s.kind = "core"
BY DEF Ends, AtRest, Drivers, Steps, NoItem

LEMMA GoesIs ==
  ASSUME TypeInv, NEW at \in Steps, Goes(at)
  PROVE  /\ driver' \in Drivers /\ driver'.at = at
         /\ driver'.item = driver.item /\ driver'.demand = driver.demand
         /\ driver'.slot = driver.slot
         /\ driver'.update = driver.update /\ driver'.shows = driver.shows
BY DEF Goes, TypeInv, Drivers

LEMMA WorkIs ==
  ASSUME TypeInv, s.work # <<>>
  PROVE  Head(s.work) \in Works /\ Tail(s.work) \in Seq(Works)
         /\ Head(s.work) = s.work[1] /\ Len(Tail(s.work)) = Len(s.work) - 1
         /\ \A i \in 1 .. Len(s.work) - 1 : Tail(s.work)[i] = s.work[i + 1]
BY DEF TypeInv, SessionType

LEMMA CoreWaitsIs ==
  ASSUME TypeInv, CoreWaits
  PROVE  SessionType(s') /\ PartsOf(s') = PartsOf(s) /\ UNCHANGED <<driver, lane>>
<1> DEFINE v == IF s.waiters = 0 THEN Checked(s) ELSE s
<1>1. SessionType(s) /\ DOMAIN s = Fields
  BY DEF TypeInv, SessionType
<1>2. DOMAIN v = Fields /\ PartsOf(v) = PartsOf(s)
  BY <1>1, CheckedIs
<1>3. s' = [v EXCEPT !.called = FALSE]
  BY DEF CoreWaits
<1> HIDE DEF v
<1>4. DOMAIN s' = Fields /\ PartsOf(s') = PartsOf(v)
  BY <1>2, <1>3 DEF Fields, PartsOf, LifeOf, SlotsOf, DemandsOf
<1>5. UNCHANGED <<driver, lane>>
  BY DEF CoreWaits
<1> QED
  BY <1>1, <1>2, <1>4, <1>5, SameParts

LEMMA CoreDisposesIs ==
  ASSUME TypeInv, CoreDisposes
  PROVE  /\ s' = s /\ lane' = lane /\ driver' \in Drivers /\ driver'.at = "dispose"
         /\ driver'.item = driver.item /\ driver'.demand = driver.demand
         /\ driver'.slot = driver.slot
         /\ driver.at = "idle" /\ s.kind = "core" /\ s.due
<1>1. Goes("dispose") /\ "dispose" \in Steps
  BY DEF CoreDisposes, Steps
<1> QED
  BY <1>1, GoesIs DEF CoreDisposes, Core

LEMMA TakesIs ==
  ASSUME TypeInv, CoreTakes \/ LoopTakes
  PROVE  /\ s.work # <<>> /\ SessionType(s') /\ s'.work = Tail(s.work)
         /\ LifeOf(s') = <<s.kind, s.views, TRUE, s.disposed, s.due, s.hook, s.objects>>
         /\ SlotsOf(s') = SlotsOf(s) /\ DemandsOf(s') = DemandsOf(s) /\ s'.state = s.state
         /\ lane' = lane /\ driver' \in Drivers /\ driver'.at = "run"
         /\ driver'.item = Head(s.work) /\ driver'.demand = driver.demand
         /\ driver'.slot = driver.slot /\ driver.at \in {"idle", "loop"} /\ ~s.due
<1>1. Runs(s) /\ Runnable(s) /\ lane' = lane /\ driver.at \in {"idle", "loop"} /\ ~s.due
  BY DEF CoreTakes, LoopTakes, Core
<1>2. s.work # <<>> /\ SessionType(s) /\ DOMAIN s = Fields
  BY <1>1 DEF Runnable, TypeInv, SessionType
<1>3. s' = NextItem(s)
  BY <1>1 DEF Runs
<1>4. /\ driver' \in Drivers /\ driver'.at = "run" /\ driver'.item = Head(s.work)
      /\ driver'.demand = driver.demand /\ driver'.slot = driver.slot
  BY <1>1, <1>2, WorkIs DEF Runs, TypeInv, Drivers, Steps
<1>5. LifeOf([s EXCEPT !.call = TRUE])
        = <<s.kind, s.views, TRUE, s.disposed, s.due, s.hook, s.objects>>
  BY <1>2 DEF Fields, LifeOf
<1> QED
  BY <1>1, <1>2, <1>3, <1>4, <1>5, NextItemIs

LEMMA CoreAsksIs ==
  ASSUME TypeInv, CoreAsks
  PROVE  /\ SessionType(s')
         /\ LifeOf(s') = <<s.kind, s.views, TRUE, s.disposed, s.due, s.hook, s.objects>>
         /\ SlotsOf(s') = SlotsOf(s) /\ DemandsOf(s') = DemandsOf(s)
         /\ s'.state = s.state /\ s'.work = s.work
         /\ lane' = lane /\ driver' \in Drivers /\ driver'.at = "done"
         /\ driver'.item = driver.item /\ driver'.demand = driver.demand
         /\ driver'.slot = driver.slot
         /\ driver.at = "idle" /\ ~s.due
<1>1. /\ s' = [s EXCEPT !.asked = TRUE, !.call = TRUE] /\ Goes("done") /\ lane' = lane
      /\ driver.at = "idle" /\ ~s.due /\ "done" \in Steps
  BY DEF CoreAsks, Core, Steps
<1>2. SessionType(s) /\ DOMAIN s = Fields
  BY DEF TypeInv, SessionType
<1>3. /\ DOMAIN s' = Fields
      /\ LifeOf(s') = <<s.kind, s.views, TRUE, s.disposed, s.due, s.hook, s.objects>>
      /\ SlotsOf(s') = SlotsOf(s) /\ DemandsOf(s') = DemandsOf(s)
      /\ s'.state = s.state /\ s'.work = s.work
  BY <1>1, <1>2 DEF Fields, LifeOf, SlotsOf, DemandsOf
<1>4. SessionType(s')
  BY <1>2, <1>3 DEF SessionType, LifeOf, SlotsOf, DemandsOf
<1> QED
  BY <1>1, <1>3, <1>4, GoesIs

LEMMA CoreStopsIs ==
  ASSUME TypeInv, CoreStops
  PROVE  /\ s' = s /\ lane' = lane /\ driver' \in Drivers /\ driver'.at = "stopped"
         /\ driver'.item = driver.item /\ driver'.demand = driver.demand
         /\ driver'.slot = driver.slot /\ driver.at = "idle"
<1>1. Goes("stopped") /\ "stopped" \in Steps
  BY DEF CoreStops, Steps
<1> QED
  BY <1>1, GoesIs DEF CoreStops, Core

LEMMA ServiceIs ==
  ASSUME TypeInv, Service
  PROVE  /\ SessionType(s') /\ lane' = lane /\ driver.at = "idle" /\ s.kind = "caller"
         /\ SlotsOf(s') = SlotsOf(s) /\ DemandsOf(s') = DemandsOf(s)
         /\ s'.state = s.state /\ s'.work = s.work
         /\ \/ LifeOf(s') = LifeOf(s) /\ driver' = driver
            \/ /\ LifeOf(s') = <<s.kind, s.views, TRUE, s.disposed, s.due, s.hook, s.objects>>
               /\ driver' \in Drivers /\ driver'.at = "loop"
               /\ driver'.item = driver.item /\ driver'.demand = driver.demand
               /\ driver'.slot = driver.slot
               /\ s.disposed => s.due
<1>1. SessionType(s) /\ DOMAIN s = Fields /\ "loop" \in Steps
  BY DEF TypeInv, SessionType, Steps
<1>2. /\ driver.at = "idle" /\ s.kind = "caller" /\ lane' = lane
      /\ \/ s' = [s EXCEPT !.called = FALSE] /\ driver' = driver
         \/ /\ s' = [s EXCEPT !.called = FALSE, !.call = TRUE] /\ Goes("loop")
            /\ s.disposed => s.due
  BY DEF Service
<1>3. CASE s' = [s EXCEPT !.called = FALSE] /\ driver' = driver
  <2>1. DOMAIN s' = Fields /\ PartsOf(s') = PartsOf(s)
    BY <1>1, <1>3 DEF Fields, PartsOf, LifeOf, SlotsOf, DemandsOf
  <2>2. SessionType(s')
    BY <1>1, <2>1, SameParts
  <2> QED
    BY <1>2, <1>3, <2>1, <2>2 DEF PartsOf
<1>4. CASE /\ s' = [s EXCEPT !.called = FALSE, !.call = TRUE] /\ Goes("loop")
           /\ s.disposed => s.due
  <2>1. /\ DOMAIN s' = Fields
        /\ LifeOf(s') = <<s.kind, s.views, TRUE, s.disposed, s.due, s.hook, s.objects>>
        /\ SlotsOf(s') = SlotsOf(s) /\ DemandsOf(s') = DemandsOf(s)
        /\ s'.state = s.state /\ s'.work = s.work
    BY <1>1, <1>4 DEF Fields, LifeOf, SlotsOf, DemandsOf
  <2>2. SessionType(s')
    BY <1>1, <2>1 DEF SessionType, LifeOf, SlotsOf, DemandsOf
  <2> QED
    BY <1>1, <1>2, <1>4, <2>1, <2>2, GoesIs
<1> QED
  BY <1>2, <1>3, <1>4

LEMMA LoopDisposesIs ==
  ASSUME TypeInv, LoopDisposes
  PROVE  /\ SessionType(s')
         /\ LifeOf(s') = <<s.kind, s.views, s.call, s.disposed, FALSE, s.hook, s.objects>>
         /\ SlotsOf(s') = SlotsOf(s) /\ DemandsOf(s') = DemandsOf(s)
         /\ s'.state = s.state /\ s'.work = s.work
         /\ lane' = lane /\ driver' \in Drivers /\ driver'.at = "dispose"
         /\ driver'.item = driver.item /\ driver'.demand = driver.demand
         /\ driver'.slot = driver.slot /\ driver.at = "loop" /\ s.due
<1>1. /\ s' = [s EXCEPT !.due = FALSE] /\ Goes("dispose") /\ lane' = lane
      /\ driver.at = "loop" /\ s.due /\ "dispose" \in Steps
  BY DEF LoopDisposes, Steps
<1>2. SessionType(s) /\ DOMAIN s = Fields
  BY DEF TypeInv, SessionType
<1>3. /\ DOMAIN s' = Fields
      /\ LifeOf(s') = <<s.kind, s.views, s.call, s.disposed, FALSE, s.hook, s.objects>>
      /\ SlotsOf(s') = SlotsOf(s) /\ DemandsOf(s') = DemandsOf(s)
      /\ s'.state = s.state /\ s'.work = s.work
  BY <1>1, <1>2 DEF Fields, LifeOf, SlotsOf, DemandsOf
<1>4. SessionType(s')
  BY <1>2, <1>3 DEF SessionType, LifeOf, SlotsOf, DemandsOf
<1> QED
  BY <1>1, <1>3, <1>4, GoesIs

LEMMA LoopEndsIs ==
  ASSUME TypeInv, LoopEnds
  PROVE  /\ SessionType(s') /\ PartsOf(s') = PartsOf(s) /\ lane' = lane
         /\ driver' \in Drivers /\ driver'.at = "done"
         /\ driver'.item = driver.item /\ driver'.demand = driver.demand
         /\ driver'.slot = driver.slot /\ driver.at = "loop"
<1> DEFINE v == Checked(s)
           asked == v.asked \/ FrameWaitsForGpu(s)
<1>1. SessionType(s) /\ DOMAIN s = Fields /\ "done" \in Steps
  BY DEF TypeInv, SessionType, Steps
<1>2. DOMAIN v = Fields /\ PartsOf(v) = PartsOf(s)
  BY <1>1, CheckedIs
<1>3. s' = [v EXCEPT !.asked = asked]
  BY <1>2 DEF LoopEnds, Fields
<1> HIDE DEF v, asked
<1>4. DOMAIN s' = Fields /\ PartsOf(s') = PartsOf(v)
  BY <1>2, <1>3 DEF Fields, PartsOf, LifeOf, SlotsOf, DemandsOf
<1>5. SessionType(s')
  BY <1>1, <1>2, <1>4, SameParts
<1> QED
  BY <1>1, <1>2, <1>4, <1>5, GoesIs DEF LoopEnds

LEMMA EndCallIs ==
  ASSUME TypeInv, EndCall
  PROVE  /\ SessionType(s')
         /\ LifeOf(s') = <<s.kind, s.views, FALSE, s.disposed, s.due, s.hook, s.objects>>
         /\ SlotsOf(s') = SlotsOf(s) /\ DemandsOf(s') = DemandsOf(s)
         /\ s'.state = s.state /\ s'.work = s.work
         /\ lane' = IF s.views # {} THEN lane
                    ELSE [lane EXCEPT !.queued = @ + lane.parked, !.parked = 0]
         /\ driver' \in Drivers /\ driver'.at = "idle"
         /\ driver'.item = driver.item /\ driver'.demand = driver.demand
         /\ driver'.slot = driver.slot /\ driver.at = "done"
<1> DEFINE v == [s EXCEPT !.call = FALSE]
<1>1. SessionType(s) /\ DOMAIN s = Fields /\ "idle" \in Steps
  BY DEF TypeInv, SessionType, Steps
<1>2. /\ DOMAIN v = Fields
      /\ LifeOf(v) = <<s.kind, s.views, FALSE, s.disposed, s.due, s.hook, s.objects>>
      /\ SlotsOf(v) = SlotsOf(s) /\ DemandsOf(v) = DemandsOf(s)
      /\ v.state = s.state /\ v.work = s.work /\ v.call = FALSE /\ v.views = s.views
  BY <1>1 DEF Fields, LifeOf, SlotsOf, DemandsOf
<1>3. SessionType(v)
  BY <1>1, <1>2 DEF SessionType, LifeOf, SlotsOf, DemandsOf
<1>4. s' = EndsCall(v) /\ lane' = Unparked(v) /\ Goes("idle") /\ driver.at = "done"
  BY DEF EndCall
<1> HIDE DEF v
<1>5. DOMAIN s' = Fields /\ PartsOf(s') = PartsOf(v)
  BY <1>2, <1>4, EndsCallIs
<1>6. SessionType(s')
  BY <1>3, <1>5, SameParts
<1>7. lane' = IF s.views # {} THEN lane
              ELSE [lane EXCEPT !.queued = @ + lane.parked, !.parked = 0]
  BY <1>2, <1>4 DEF Unparked
<1>8. /\ LifeOf(s') = LifeOf(v) /\ SlotsOf(s') = SlotsOf(v) /\ DemandsOf(s') = DemandsOf(v)
      /\ s'.state = v.state /\ s'.work = v.work
  BY <1>5 DEF PartsOf
<1> QED
  BY <1>1, <1>2, <1>4, <1>6, <1>7, <1>8, GoesIs

(* A session that fails.                                                   *)
Fails(u, t) ==
  /\ SessionType(u) /\ LifeOf(u) = LifeOf(t) /\ u.state = "failed"
  /\ u.demands = <<>> /\ u.waiting = <<>>
  /\ Finishes(u, t, ToSet(t.demands \o t.waiting))
  /\ u.work = <<>> /\ Cuts(u, t, "quarantined")
  /\ u.ready = <<>> /\ u.retargets = t.retargets /\ u.reading = t.reading

LEMMA AttachIs ==
  ASSUME TypeInv, StateInv, Attach
  PROVE  /\ SessionType(s') /\ lane' = lane /\ Ends /\ Running("attach")
         /\ \/ /\ LifeOf(s') = LifeOf(s) /\ SlotsOf(s') = SlotsOf(s)
               /\ DemandsOf(s') = DemandsOf(s) /\ s'.work = s.work /\ s'.state = "attached"
            \/ Fails(s', s)
<1>1. SessionType(s) /\ DOMAIN s = Fields
  BY DEF TypeInv, SessionType
<1>2. lane' = lane /\ Ends /\ Running("attach") /\ s.state = "attaching"
  BY DEF Attach, StateInv
<1>3. CASE s' = [s EXCEPT !.state = "attached"]
  <2>1. /\ DOMAIN s' = Fields /\ LifeOf(s') = LifeOf(s) /\ SlotsOf(s') = SlotsOf(s)
        /\ DemandsOf(s') = DemandsOf(s) /\ s'.work = s.work /\ s'.state = "attached"
    BY <1>1, <1>3 DEF Fields, LifeOf, SlotsOf, DemandsOf
  <2>2. SessionType(s')
    BY <1>1, <2>1 DEF SessionType, States, LifeOf, SlotsOf, DemandsOf
  <2> QED
    BY <1>2, <2>1, <2>2
<1>4. CASE s' = Failed(s)
  <2>1. s.state # "failed" /\ ~Over(s)
    BY <1>2 DEF Over
  <2>2. Fails(s', s)
    BY <1>1, <1>4, <2>1, FailedIs DEF Fails
  <2> QED
    BY <1>2, <2>2 DEF Fails
<1> QED
  BY <1>3, <1>4 DEF Attach

LEMMA RunBarrierIs ==
  ASSUME TypeInv, RunBarrier
  PROVE  /\ SessionType(s') /\ lane' = lane /\ Ends /\ Running("barrier")
         /\ LifeOf(s') = LifeOf(s) /\ SlotsOf(s') = SlotsOf(s)
         /\ DemandsOf(s') = <<s.demands, s.waiting, s.log, s.barriers - 1, driver.item.of>>
         /\ s'.work = s.work /\ s'.state = s.state
<1>1. SessionType(s) /\ DOMAIN s = Fields /\ driver.item.of \in Nat
  BY DEF TypeInv, SessionType, Drivers, Works, NoItem
<1>2. /\ s' = [s EXCEPT !.barriers = @ - 1, !.passed = driver.item.of]
      /\ lane' = lane /\ Ends /\ Running("barrier")
  BY DEF RunBarrier
<1>3. /\ DOMAIN s' = Fields /\ LifeOf(s') = LifeOf(s) /\ SlotsOf(s') = SlotsOf(s)
      /\ DemandsOf(s') = <<s.demands, s.waiting, s.log, s.barriers - 1, driver.item.of>>
      /\ s'.work = s.work /\ s'.state = s.state
  BY <1>1, <1>2 DEF Fields, LifeOf, SlotsOf, DemandsOf
<1>4. SessionType(s')
  BY <1>1, <1>3 DEF SessionType, LifeOf, SlotsOf, DemandsOf
<1> QED
  BY <1>2, <1>3, <1>4

LEMMA RunReleaseIs ==
  ASSUME TypeInv, StateInv, RunRelease
  PROVE  /\ SessionType(s') /\ lane' = lane /\ Ends /\ Running("release")
         /\ s.state \notin {"failed", "abandoned", "detached"}
         /\ LifeOf(s') = LifeOf(s) /\ s'.retargets = s.retargets
         /\ \/ /\ s'.state = s.state /\ DemandsOf(s') = DemandsOf(s) /\ Grown(s'.work, s.work)
               /\ Sets(s', s, driver.item.of, "free")
               /\ s'.ready = s.ready
               /\ s'.reading = IF s.objects THEN s.reading \ {driver.item.of} ELSE s.reading
            \/ \E u : /\ Fails(u, s) /\ s'.state = "failed" /\ DemandsOf(s') = DemandsOf(u)
                      /\ s'.work = <<>>
                      /\ Sets(s', u, driver.item.of, "quarantined")
                      /\ s'.ready = <<>> /\ s'.reading = s.reading
<1> DEFINE of == driver.item.of
<1>1. SessionType(s) /\ driver.item \in Works /\ of \in Nat
  BY DEF TypeInv, StateInv, RunRelease, Running, Works
<1>6. SessionType(s) /\ of \in Nat /\ of = driver.item.of
  BY <1>1
<1>7. \/ s' = Returned(s, of)
      \/ s' = Quarantined(Failed(s), of)
  BY DEF RunRelease
<1> HIDE DEF of
<1>2. lane' = lane /\ Ends /\ Running("release")
  BY DEF RunRelease
<1>3. s.state \notin {"failed", "abandoned", "detached"} /\ ~Over(s) /\ s.state # "failed"
  BY <1>2 DEF StateInv, Running, Harmless, Over
<1>4. CASE s' = Returned(s, of)
  <2>1. /\ SessionType(s') /\ LifeOf(s') = LifeOf(s) /\ s'.state = s.state
        /\ DemandsOf(s') = DemandsOf(s) /\ Grown(s'.work, s.work)
        /\ Sets(s', s, of, "free")
        /\ s'.ready = s.ready /\ s'.retargets = s.retargets
        /\ s'.reading = IF s.objects THEN s.reading \ {of} ELSE s.reading
    BY <1>3, <1>4, <1>6, ReturnedIs
  <2> QED
    BY <1>2, <1>3, <1>6, <2>1
<1>5. CASE s' = Quarantined(Failed(s), of)
  <2> DEFINE u == Failed(s)
  <2>1. Fails(u, s)
    BY <1>1, <1>3, FailedIs DEF Fails
  <2>4. s' = Quarantined(u, of)
    BY <1>5
  <2> HIDE DEF u
  <2>2. /\ SessionType(u) /\ u.state = "failed" /\ u.work = <<>> /\ u.ready = <<>>
        /\ u.retargets = s.retargets /\ u.reading = s.reading /\ LifeOf(u) = LifeOf(s)
    BY <2>1 DEF Fails
  <2>3. /\ SessionType(s') /\ LifeOf(s') = LifeOf(u) /\ s'.state = u.state
        /\ s'.work = u.work /\ Sets(s', u, of, "quarantined")
        /\ s'.ready = u.ready /\ s'.reading = u.reading /\ s'.retargets = u.retargets
        /\ DemandsOf(s') = DemandsOf(u)
    BY <1>6, <2>2, <2>4, QuarantinedIs
  <2> QED
    BY <1>2, <1>3, <1>6, <2>1, <2>2, <2>3
<1> QED
  BY <1>4, <1>5, <1>7

(* A change of the target ends, with a new ring or refused.                *)
LEMMA ChangeIs ==
  ASSUME TypeInv, RunUntarget \/ RunRetarget
  PROVE  /\ SessionType(s') /\ lane' = lane /\ Ends
         /\ Running("untarget") \/ Running("retarget")
         /\ LifeOf(s') = LifeOf(s) /\ s'.state = s.state /\ s'.retargets = s.retargets - 1
         /\ \/ /\ DemandsOf(s') = DemandsOf(s) /\ s'.work = s.work /\ s'.slot = s.slot
               /\ s'.ready = s.ready /\ s'.reading = s.reading
            \/ /\ ~s.disposed /\ Grown(s'.work, s.work)
               /\ DemandsOf(s') = <<s.waiting \o s.demands, <<>>, s.log, s.barriers, s.passed>>
               /\ s'.slot = [i \in Slots |-> "free"] /\ s'.ready = <<>> /\ s'.reading = {}
<1>1. SessionType(s) /\ DOMAIN s = Fields
  BY DEF TypeInv, SessionType
<1>2. lane' = lane /\ Ends /\ (Running("untarget") \/ Running("retarget"))
  BY DEF RunUntarget, RunRetarget
<1>3. PICK t :
        /\ DOMAIN t = Fields /\ LifeOf(t) = LifeOf(s) /\ DemandsOf(t) = DemandsOf(s)
        /\ t.state = s.state /\ t.work = s.work
        /\ SlotsOf(t) = <<s.slot, s.ready, s.reading, s.retargets - 1>>
        /\ \/ s' = t
           \/ ~s.disposed /\ s' = ResumeWaiting(NewRing(Unready([t EXCEPT !.target = FALSE])))
           \/ ~s.disposed /\ s' = ResumeWaiting(NewRing(Unready([t EXCEPT !.target = TRUE])))
  <2> DEFINE a == [s EXCEPT !.releases = @ - 1, !.retargets = @ - 1]
             b == [s EXCEPT !.retargets = @ - 1]
  <2>1. /\ DOMAIN a = Fields /\ LifeOf(a) = LifeOf(s) /\ DemandsOf(a) = DemandsOf(s)
        /\ a.state = s.state /\ a.work = s.work
        /\ SlotsOf(a) = <<s.slot, s.ready, s.reading, s.retargets - 1>>
    BY <1>1 DEF Fields, LifeOf, DemandsOf, SlotsOf
  <2>2. /\ DOMAIN b = Fields /\ LifeOf(b) = LifeOf(s) /\ DemandsOf(b) = DemandsOf(s)
        /\ b.state = s.state /\ b.work = s.work
        /\ SlotsOf(b) = <<s.slot, s.ready, s.reading, s.retargets - 1>>
    BY <1>1 DEF Fields, LifeOf, DemandsOf, SlotsOf
  <2>3. RunUntarget => \/ s' = a
                       \/ /\ ~s.disposed
                          /\ s' = ResumeWaiting(NewRing(Unready([a EXCEPT !.target = FALSE])))
    BY DEF RunUntarget
  <2>4. RunRetarget => \/ s' = b
                       \/ /\ ~s.disposed
                          /\ s' = ResumeWaiting(NewRing(Unready([b EXCEPT !.target = TRUE])))
    BY DEF RunRetarget
  <2> HIDE DEF a, b
  <2>5. CASE RunUntarget
    BY <2>1, <2>3, <2>5
  <2>6. CASE RunRetarget
    BY <2>2, <2>4, <2>6
  <2> QED
    BY <2>5, <2>6
<1>4. SessionType(t)
  BY <1>1, <1>3 DEF SessionType, LifeOf, DemandsOf, SlotsOf
<1>5. CASE s' = t
  BY <1>2, <1>3, <1>4, <1>5 DEF SlotsOf
<1>6. ASSUME NEW target \in BOOLEAN, ~s.disposed,
             s' = ResumeWaiting(NewRing(Unready([t EXCEPT !.target = target])))
      PROVE  /\ SessionType(s') /\ LifeOf(s') = LifeOf(s) /\ s'.state = s.state
             /\ s'.retargets = s.retargets - 1 /\ Grown(s'.work, s.work)
             /\ DemandsOf(s') = <<s.waiting \o s.demands, <<>>, s.log, s.barriers, s.passed>>
             /\ s'.slot = [i \in Slots |-> "free"] /\ s'.ready = <<>> /\ s'.reading = {}
  <2> DEFINE x == [t EXCEPT !.target = target]
             y == Unready(x)
             z == NewRing(y)
  <2>1. DOMAIN x = Fields /\ PartsOf(x) = PartsOf(t)
    BY <1>3 DEF Fields, PartsOf, LifeOf, DemandsOf, SlotsOf
  <2> HIDE DEF x
  <2>2. DOMAIN y = Fields /\ PartsOf(y) = PartsOf(t)
    BY <2>1, UnreadyIs
  <2>3. s' = ResumeWaiting(z)
    BY <1>6 DEF x
  <2> HIDE DEF y
  <2>4. SessionType(y)
    BY <1>4, <2>2, SameParts
  <2>5. /\ SessionType(z) /\ LifeOf(z) = LifeOf(y) /\ DemandsOf(z) = DemandsOf(y)
        /\ z.state = y.state /\ z.work = y.work /\ z.slot = [i \in Slots |-> "free"]
        /\ z.ready = <<>> /\ z.reading = {} /\ z.retargets = y.retargets
    BY <2>4, NewRingIs
  <2> HIDE DEF z
  <2>6. /\ SessionType(s') /\ Grown(s'.work, z.work) /\ LifeOf(s') = LifeOf(z)
        /\ SlotsOf(s') = SlotsOf(z) /\ s'.state = z.state
        /\ s'.demands = z.waiting \o z.demands /\ s'.waiting = <<>> /\ s'.log = z.log
        /\ s'.barriers = z.barriers /\ s'.passed = z.passed
    BY <2>3, <2>5, ResumeWaitingIs
  <2>7. /\ LifeOf(z) = LifeOf(s) /\ DemandsOf(z) = DemandsOf(s) /\ z.state = s.state
        /\ z.work = s.work /\ z.retargets = s.retargets - 1
    BY <1>3, <2>2, <2>5 DEF PartsOf, SlotsOf
  <2>8. DemandsOf(s') = <<s.waiting \o s.demands, <<>>, s.log, s.barriers, s.passed>>
    BY <2>6, <2>7 DEF DemandsOf
  <2>9. /\ s'.slot = z.slot /\ s'.ready = z.ready /\ s'.reading = z.reading
        /\ s'.retargets = z.retargets
    BY <2>6 DEF SlotsOf
  <2> QED
    BY <2>5, <2>6, <2>7, <2>8, <2>9
<1> QED
  BY <1>2, <1>3, <1>5, <1>6

LEMMA FreeGraphicsIs ==
  ASSUME TypeInv, FreeGraphics
  PROVE  /\ SessionType(s') /\ lane' = lane
         /\ Running("detach") \/ driver.at = "disposing"
         /\ LifeOf(s') = <<s.kind, s.views, s.call, s.disposed, s.due, FALSE, FALSE>>
         /\ SlotsOf(s') = SlotsOf(s) /\ DemandsOf(s') = DemandsOf(s)
         /\ s'.work = s.work /\ s'.state = s.state
         /\ driver' \in Drivers /\ driver'.at = "detached"
         /\ driver'.item = driver.item /\ driver'.demand = driver.demand
         /\ driver'.slot = driver.slot
<1>1. SessionType(s) /\ DOMAIN s = Fields /\ "detached" \in Steps
  BY DEF TypeInv, SessionType, Steps
<1>2. /\ s' = [s EXCEPT !.objects = FALSE, !.hook = FALSE, !.drawn = Nothing]
      /\ Goes("detached") /\ lane' = lane /\ (Running("detach") \/ driver.at = "disposing")
  BY DEF FreeGraphics
<1>3. /\ DOMAIN s' = Fields
      /\ LifeOf(s') = <<s.kind, s.views, s.call, s.disposed, s.due, FALSE, FALSE>>
      /\ SlotsOf(s') = SlotsOf(s) /\ DemandsOf(s') = DemandsOf(s)
      /\ s'.work = s.work /\ s'.state = s.state
  BY <1>1, <1>2 DEF Fields, LifeOf, SlotsOf, DemandsOf
<1>4. SessionType(s')
  BY <1>1, <1>3 DEF SessionType, LifeOf, SlotsOf, DemandsOf
<1> QED
  BY <1>1, <1>2, <1>3, <1>4, GoesIs

LEMMA FinishDetachIs ==
  ASSUME TypeInv, FinishDetach
  PROVE  /\ SessionType(s') /\ lane' = lane /\ driver.at = "detached"
         /\ LifeOf(s') = LifeOf(s) /\ SlotsOf(s') = SlotsOf(s)
         /\ s'.work = s.work /\ s'.state = "detached"
         /\ s'.demands = <<>> /\ s'.waiting = <<>>
         /\ Finishes(s', s, IF s.disposed THEN {} ELSE ToSet(s.demands \o s.waiting))
         /\ driver' \in Drivers
         /\ \/ driver.item.kind = "detach" /\ Ends
            \/ /\ driver.item.kind # "detach" /\ driver'.at = "handover"
               /\ driver'.item = driver.item /\ driver'.demand = driver.demand
               /\ driver'.slot = driver.slot
<1> DEFINE t == [s EXCEPT !.state = "detached"]
<1>1. SessionType(s) /\ DOMAIN s = Fields /\ "handover" \in Steps
  BY DEF TypeInv, SessionType, Steps
<1>2. /\ DOMAIN t = Fields /\ LifeOf(t) = LifeOf(s) /\ SlotsOf(t) = SlotsOf(s)
      /\ DemandsOf(t) = DemandsOf(s) /\ t.work = s.work /\ t.state = "detached"
  BY <1>1 DEF Fields, LifeOf, SlotsOf, DemandsOf
<1>3. s' = EndDemands(t)
  BY DEF FinishDetach
<1> HIDE DEF t
<1>4. SessionType(t)
  BY <1>1, <1>2 DEF SessionType, States, LifeOf, SlotsOf, DemandsOf
<1>5. /\ SessionType(s') /\ s'.work = t.work /\ LifeOf(s') = LifeOf(t)
      /\ SlotsOf(s') = SlotsOf(t) /\ s'.state = t.state
      /\ s'.demands = <<>> /\ s'.waiting = <<>>
      /\ Finishes(s', t, IF t.disposed THEN {} ELSE ToSet(t.demands \o t.waiting))
  BY <1>3, <1>4, EndDemandsIs
<1>6. Finishes(s', s, IF s.disposed THEN {} ELSE ToSet(s.demands \o s.waiting))
  <2>1. /\ t.disposed = s.disposed /\ t.demands = s.demands /\ t.waiting = s.waiting
        /\ t.log = s.log /\ t.barriers = s.barriers /\ t.passed = s.passed
    BY <1>2 DEF LifeOf, DemandsOf
  <2> QED
    BY <1>5, <2>1 DEF Finishes
<1>7. /\ lane' = lane /\ driver.at = "detached"
      /\ IF driver.item.kind = "detach" THEN Ends ELSE Goes("handover")
  BY DEF FinishDetach
<1>8. CASE driver.item.kind = "detach"
  BY <1>2, <1>5, <1>6, <1>7, <1>8, EndsIs
<1>9. CASE driver.item.kind # "detach"
  BY <1>1, <1>2, <1>5, <1>6, <1>7, <1>9, GoesIs
<1> QED
  BY <1>8, <1>9

LEMMA BeginDisposalIs ==
  ASSUME TypeInv, BeginDisposal
  PROVE  /\ SessionType(s') /\ lane' = lane /\ driver.at = "dispose" /\ driver' \in Drivers
         /\ driver'.item = driver.item /\ driver'.demand = driver.demand
         /\ driver'.slot = driver.slot /\ DemandsOf(s') = DemandsOf(s)
         /\ s'.ready = s.ready /\ s'.retargets = s.retargets
         /\ \/ /\ s.state = "attached" /\ Held(s) = {} /\ s.views = {}
               /\ driver'.at = "disposing" /\ s'.state = "detaching"
               /\ LifeOf(s') = <<s.kind, s.views, TRUE, s.disposed, FALSE, s.hook, s.objects>>
               /\ \A i \in DOMAIN s'.work : s'.work[i].kind = "frame"
               /\ Cuts(s', s, "free")
               /\ s'.reading = IF s.objects THEN s.reading \ Cancelled(s) ELSE s.reading
            \/ /\ driver'.at = "handover" /\ s'.state = s.state /\ s'.work = s.work
               /\ s'.slot = s.slot /\ s'.reading = s.reading
               /\ LifeOf(s') = <<s.kind, s.views, s.call, s.disposed, FALSE, s.hook, s.objects>>
<1> DEFINE t == [s EXCEPT !.due = FALSE]
           u == [t EXCEPT !.state = "detaching", !.drawn = Nothing, !.call = TRUE]
<1>1. SessionType(s) /\ DOMAIN s = Fields /\ {"handover", "disposing"} \subseteq Steps
  BY DEF TypeInv, SessionType, Steps
<1>2. /\ DOMAIN t = Fields /\ SlotsOf(t) = SlotsOf(s) /\ DemandsOf(t) = DemandsOf(s)
      /\ LifeOf(t) = <<s.kind, s.views, s.call, s.disposed, FALSE, s.hook, s.objects>>
      /\ t.state = s.state /\ t.work = s.work /\ Held(t) = Held(s) /\ t.views = s.views
  BY <1>1 DEF Fields, SlotsOf, LifeOf, DemandsOf, Held, SlotsThat
<1>3. /\ DOMAIN u = Fields /\ SlotsOf(u) = SlotsOf(s) /\ DemandsOf(u) = DemandsOf(s)
      /\ LifeOf(u) = <<s.kind, s.views, TRUE, s.disposed, FALSE, s.hook, s.objects>>
      /\ u.state = "detaching" /\ u.work = s.work
  BY <1>1 DEF Fields, SlotsOf, LifeOf, DemandsOf
<1>4. /\ lane' = lane /\ driver.at = "dispose"
      /\ \/ Detachable(t) /\ s' = CancelWork(u) /\ Goes("disposing")
         \/ s' = t /\ Goes("handover")
  BY DEF BeginDisposal
<1> HIDE DEF t, u
<1>5. CASE Detachable(t) /\ s' = CancelWork(u) /\ Goes("disposing")
  <2>1. s.state = "attached" /\ Held(s) = {} /\ s.views = {}
    BY <1>2, <1>5 DEF Detachable
  <2>2. SessionType(u)
    BY <1>1, <1>3 DEF SessionType, States, SlotsOf, LifeOf, DemandsOf
  <2>3. /\ SessionType(s') /\ LifeOf(s') = LifeOf(u) /\ s'.state = u.state
        /\ DemandsOf(s') = DemandsOf(u)
        /\ \A i \in DOMAIN s'.work : s'.work[i].kind = "frame"
        /\ Cuts(s', u, "free") /\ s'.ready = u.ready /\ s'.retargets = u.retargets
        /\ s'.reading = IF ~u.objects THEN u.reading ELSE u.reading \ Cancelled(u)
    BY <1>3, <1>5, <2>2, CancelWorkIs
  <2>4. /\ u.slot = s.slot /\ u.ready = s.ready /\ u.reading = s.reading
        /\ u.retargets = s.retargets /\ u.objects = s.objects /\ Cancelled(u) = Cancelled(s)
    BY <1>3 DEF SlotsOf, LifeOf, Cancelled
  <2>5. Cuts(s', s, "free")
    BY <2>3, <2>4 DEF Cuts
  <2>6. /\ driver' \in Drivers /\ driver'.at = "disposing"
        /\ driver'.item = driver.item /\ driver'.demand = driver.demand
        /\ driver'.slot = driver.slot
    BY <1>1, <1>5, GoesIs
  <2> QED
    BY <1>3, <1>4, <2>1, <2>3, <2>4, <2>5, <2>6
<1>6. CASE s' = t /\ Goes("handover")
  <2>1. SessionType(t)
    BY <1>1, <1>2 DEF SessionType, SlotsOf, LifeOf, DemandsOf
  <2>2. /\ driver' \in Drivers /\ driver'.at = "handover"
        /\ driver'.item = driver.item /\ driver'.demand = driver.demand
        /\ driver'.slot = driver.slot
    BY <1>1, <1>6, GoesIs
  <2> QED
    BY <1>2, <1>4, <1>6, <2>1, <2>2 DEF SlotsOf
<1> QED
  BY <1>4, <1>5, <1>6

LEMMA HandOverIs ==
  ASSUME TypeInv, HandOver
  PROVE  /\ SessionType(s') /\ driver.at = "handover" /\ driver' \in Drivers
         /\ driver'.at = IF s.kind = "core" THEN "stopped" ELSE "done"
         /\ driver'.item = NoItem /\ driver'.demand = 0 /\ driver'.slot = 0
         /\ lane' = [lane EXCEPT !.queued = @ + 1]
         /\ LifeOf(s') = <<s.kind, s.views, s.call /\ s.kind = "caller", s.disposed, s.due,
                           s.hook, s.objects>>
         /\ DemandsOf(s') = DemandsOf(s) /\ s'.state = s.state
         /\ s'.ready = s.ready /\ s'.retargets = s.retargets
         /\ \/ /\ s.state = "detached" /\ s'.work = <<>> /\ Cuts(s', s, "free")
               /\ s'.reading = IF s.objects THEN s.reading \ Cancelled(s) ELSE s.reading
            \/ s'.work = s.work /\ s'.slot = s.slot /\ s'.reading = s.reading
<1> DEFINE t == IF s.state = "detached" THEN CancelWork(s) ELSE s
           call == t.call /\ s.kind = "caller"
           u == [t EXCEPT !.invalid = TRUE, !.stop = TRUE, !.call = call]
<1>1. SessionType(s)
  BY DEF TypeInv
<1>2. s.state = "detached" => ~Live(s)
  BY DEF Live
<1>3. /\ SessionType(t) /\ LifeOf(t) = LifeOf(s) /\ t.state = s.state
      /\ DemandsOf(t) = DemandsOf(s) /\ t.ready = s.ready /\ t.retargets = s.retargets
      /\ \/ /\ s.state = "detached" /\ t.work = <<>> /\ Cuts(t, s, "free")
            /\ t.reading = IF s.objects THEN s.reading \ Cancelled(s) ELSE s.reading
         \/ t.work = s.work /\ t.slot = s.slot /\ t.reading = s.reading
  BY <1>1, <1>2, CancelWorkIs
<1>4. DOMAIN t = Fields /\ t.call = s.call /\ s.call \in BOOLEAN
  BY <1>1, <1>3 DEF SessionType, LifeOf
<1>5. /\ s' = Notified(u) /\ driver.at = "handover" /\ lane' = Submitted
      /\ driver' = AtRest(IF s.kind = "core" THEN "stopped" ELSE "done")
  BY <1>4 DEF HandOver, Fields
<1>6. call = (s.call /\ s.kind = "caller") /\ call \in BOOLEAN
  BY <1>4
<1> HIDE DEF t, call
<1>7. /\ DOMAIN u = Fields /\ SlotsOf(u) = SlotsOf(t) /\ DemandsOf(u) = DemandsOf(t)
      /\ LifeOf(u) = <<t.kind, t.views, call, t.disposed, t.due, t.hook, t.objects>>
      /\ u.state = t.state /\ u.work = t.work
  BY <1>4 DEF Fields, SlotsOf, LifeOf, DemandsOf
<1> HIDE DEF u
<1>8. SessionType(u)
  BY <1>3, <1>6, <1>7 DEF SessionType, SlotsOf, LifeOf, DemandsOf
<1>9. DOMAIN s' = Fields /\ PartsOf(s') = PartsOf(u)
  BY <1>5, <1>7, NotifiedIs
<1>10. SessionType(s')
  BY <1>8, <1>9, SameParts
<1>11. /\ driver' \in Drivers /\ driver'.at = IF s.kind = "core" THEN "stopped" ELSE "done"
       /\ driver'.item = NoItem /\ driver'.demand = 0 /\ driver'.slot = 0
  BY <1>5 DEF AtRest, Drivers, Steps, NoItem
<1>12. LifeOf(s') = <<s.kind, s.views, s.call /\ s.kind = "caller", s.disposed, s.due,
                      s.hook, s.objects>>
  BY <1>3, <1>6, <1>7, <1>9 DEF PartsOf, LifeOf
<1>13. /\ SlotsOf(s') = SlotsOf(t) /\ DemandsOf(s') = DemandsOf(s) /\ s'.state = s.state
       /\ s'.work = t.work
  BY <1>3, <1>7, <1>9 DEF PartsOf
<1>14. /\ s'.slot = t.slot /\ s'.ready = s.ready /\ s'.reading = t.reading
       /\ s'.retargets = s.retargets
  BY <1>3, <1>13 DEF SlotsOf
<1>15. \/ /\ s.state = "detached" /\ s'.work = <<>> /\ Cuts(s', s, "free")
          /\ s'.reading = IF s.objects THEN s.reading \ Cancelled(s) ELSE s.reading
       \/ s'.work = s.work /\ s'.slot = s.slot /\ s'.reading = s.reading
  BY <1>3, <1>13, <1>14 DEF Cuts
<1> QED
  BY <1>5, <1>10, <1>11, <1>12, <1>13, <1>14, <1>15 DEF Submitted

(* The driver's texture, if it has one, is free again.                     *)
Frees(u, t) ==
  /\ driver.slot = 0 => u.slot = t.slot
  /\ driver.slot # 0 => Sets(u, t, driver.slot, "free")
  /\ u.ready = t.ready /\ u.reading = t.reading /\ u.retargets = t.retargets

LEMMA SlotFreedIs ==
  ASSUME NEW t, SessionType(t)
  PROVE  LET u == SlotFreed(t)
         IN  /\ SessionType(u) /\ LifeOf(u) = LifeOf(t) /\ DemandsOf(u) = DemandsOf(t)
             /\ u.state = t.state /\ u.work = t.work /\ Frees(u, t)
<1>1. CASE driver.slot = 0
  BY <1>1 DEF SlotFreed, Frees
<1>2. CASE driver.slot # 0
  <2> DEFINE v == [t EXCEPT !.slot[driver.slot] = "free"]
  <2>1. /\ SessionType(v) /\ LifeOf(v) = LifeOf(t) /\ DemandsOf(v) = DemandsOf(t)
        /\ v.state = t.state /\ v.work = t.work /\ Sets(v, t, driver.slot, "free")
        /\ v.ready = t.ready /\ v.reading = t.reading /\ v.retargets = t.retargets
    BY "free" \in {"free", "rendering", "held", "returning", "quarantined"}, WithSlot
  <2>2. SlotFreed(t) = v
    BY <1>2 DEF SlotFreed
  <2> HIDE DEF v
  <2> QED
    BY <1>2, <2>1, <2>2 DEF Frees
<1> QED
  BY <1>1, <1>2

(* The driver's demand ends with the result.                               *)
EndsWith(u, t, shows) ==
  /\ SessionType(u) /\ LifeOf(u) = LifeOf(t) /\ u.state = t.state
  /\ u.demands = t.demands /\ u.waiting = t.waiting
  /\ Answers(u, t, driver.demand, shows)

LEMMA AnsweredEnds ==
  ASSUME TypeInv, NEW t, SessionType(t), NEW shows \in Int
  PROVE  LET u == Answered(t, driver.demand, shows)
         IN  EndsWith(u, t, shows) /\ u.work = t.work /\ SlotsOf(u) = SlotsOf(t)
<1>1. driver.demand \in Nat
  BY DEF TypeInv, Drivers
<1> QED
  BY <1>1, AnsweredIs DEF EndsWith

LEMMA EndsUnshownIs ==
  ASSUME TypeInv, NEW t, SessionType(t), EndsUnshown(t)
  PROVE  EndsWith(s', t, Nothing) /\ s'.work = t.work /\ Frees(s', t) /\ Ends
<1> DEFINE v == SlotFreed(t)
<1>1. /\ SessionType(v) /\ LifeOf(v) = LifeOf(t) /\ DemandsOf(v) = DemandsOf(t)
      /\ v.state = t.state /\ v.work = t.work /\ Frees(v, t)
  BY SlotFreedIs
<1>2. s' = Answered(v, driver.demand, Nothing) /\ Ends
  BY DEF EndsUnshown, Unshown
<1> HIDE DEF v
<1>3. EndsWith(s', v, Nothing) /\ s'.work = v.work /\ SlotsOf(s') = SlotsOf(v)
  BY <1>1, <1>2, Nothing \in Int, AnsweredEnds DEF Nothing
<1>4. EndsWith(s', t, Nothing)
  BY <1>1, <1>3 DEF EndsWith, Answers, DemandsOf
<1>5. Frees(s', t)
  BY <1>1, <1>3 DEF Frees, Sets, SlotsOf
<1> QED
  BY <1>1, <1>2, <1>3, <1>4, <1>5

LEMMA EndsWithout ==
  ASSUME NEW t, NEW u, NEW v, PartsOf(v) = PartsOf(t),
         EndsWith(u, v, Nothing), u.work = v.work, Frees(u, v)
  PROVE  EndsWith(u, t, Nothing) /\ u.work = t.work /\ Frees(u, t)
BY DEF PartsOf, SlotsOf, DemandsOf, EndsWith, Answers, Frees, Sets

LEMMA TakeDemandIs ==
  ASSUME TypeInv, TakeDemand
  PROVE  /\ SessionType(s') /\ lane' = lane
         /\ Running("frame") \/ Running("service")
         /\ LifeOf(s') = LifeOf(s) /\ SlotsOf(s') = SlotsOf(s)
         /\ s'.state = s.state /\ s'.work = s.work
         /\ \/ /\ Live(s) /\ s.barriers = 0 /\ s.demands # <<>>
               /\ DemandsOf(s') = <<Tail(s.demands), s.waiting, s.log, s.barriers, s.passed>>
               /\ driver' \in Drivers /\ driver'.at = "took"
               /\ driver'.demand = Head(s.demands)
               /\ driver'.item = driver.item /\ driver'.slot = driver.slot
            \/ DemandsOf(s') = DemandsOf(s) /\ Ends
<1> DEFINE serviced == s.serviced /\ driver.item.kind = "frame"
           t == [s EXCEPT !.serviced = serviced]
           u == [t EXCEPT !.demands = Tail(@)]
<1>1. SessionType(s) /\ DOMAIN s = Fields /\ s.demands \in Seq(Nat)
  BY DEF TypeInv, SessionType
<1>2. /\ lane' = lane /\ (Running("frame") \/ Running("service"))
      /\ IF t.barriers = 0 /\ driver.item.of \in ToSet(t.demands) /\ Live(t)
         THEN /\ s' = u
              /\ driver' = [driver EXCEPT !.at = "took", !.demand = Head(t.demands),
                                          !.releasing = t.releases # 0]
         ELSE s' = t /\ Ends
  BY <1>1 DEF TakeDemand, Fields
<1> HIDE DEF serviced
<1>3. /\ DOMAIN t = Fields /\ LifeOf(t) = LifeOf(s) /\ SlotsOf(t) = SlotsOf(s)
      /\ DemandsOf(t) = DemandsOf(s) /\ t.state = s.state /\ t.work = s.work
      /\ t.demands = s.demands /\ t.barriers = s.barriers
  BY <1>1 DEF Fields, LifeOf, SlotsOf, DemandsOf
<1> HIDE DEF t
<1>4. /\ DOMAIN u = Fields /\ LifeOf(u) = LifeOf(s) /\ SlotsOf(u) = SlotsOf(s)
      /\ DemandsOf(u) = <<Tail(s.demands), s.waiting, s.log, s.barriers, s.passed>>
      /\ u.state = s.state /\ u.work = s.work
  BY <1>3 DEF Fields, LifeOf, SlotsOf, DemandsOf
<1> HIDE DEF u
<1>5. CASE t.barriers = 0 /\ driver.item.of \in ToSet(t.demands) /\ Live(t)
  <2>1. s' = u /\ driver' = [driver EXCEPT !.at = "took", !.demand = Head(t.demands),
                                           !.releasing = t.releases # 0]
    BY <1>2, <1>5
  <2>2. s.demands # <<>> /\ Live(s) /\ s.barriers = 0
    BY <1>1, <1>3, <1>5 DEF ToSet, Live
  <2>3. Head(s.demands) \in Nat /\ Tail(s.demands) \in Seq(Nat)
    BY <1>1, <2>2
  <2>4. SessionType(u)
    BY <1>1, <1>4, <2>3 DEF SessionType, LifeOf, SlotsOf, DemandsOf
  <2>5. /\ driver' \in Drivers /\ driver'.at = "took" /\ driver'.demand = Head(s.demands)
        /\ driver'.item = driver.item /\ driver'.slot = driver.slot
    BY <1>3, <2>1, <2>3 DEF TypeInv, Drivers, Steps
  <2> QED
    BY <1>2, <1>4, <2>1, <2>2, <2>4, <2>5
<1>6. CASE ~(t.barriers = 0 /\ driver.item.of \in ToSet(t.demands) /\ Live(t))
  <2>1. s' = t /\ Ends
    BY <1>2, <1>6
  <2>2. SessionType(t)
    BY <1>1, <1>3 DEF SessionType, LifeOf, SlotsOf, DemandsOf
  <2> QED
    BY <1>2, <1>3, <2>1, <2>2
<1> QED
  BY <1>5, <1>6

LEMMA WaitsIs ==
  ASSUME TypeInv, NEW update \in Nat, Waits(update)
  PROVE  /\ driver' \in Drivers /\ driver'.at = "wait" /\ driver'.update = update
         /\ driver'.item = driver.item /\ driver'.demand = driver.demand
         /\ driver'.slot = driver.slot
BY DEF Waits, TypeInv, Drivers, Steps

LEMMA EndEarlyIs ==
  ASSUME TypeInv, EndEarly
  PROVE  /\ driver.at = "took" /\ lane' = lane
         /\ \/ EndsWith(s', s, Nothing) /\ s'.work = s.work /\ Frees(s', s) /\ Ends
            \/ /\ s' = s /\ driver' \in Drivers /\ driver'.at = "wait"
               /\ driver'.item = driver.item /\ driver'.demand = driver.demand
               /\ driver'.slot = driver.slot
<1>1. SessionType(s) /\ DOMAIN s = Fields /\ map.update \in Nat
  BY DEF TypeInv, SessionType, Maps
<1>2. DOMAIN Unready(s) = Fields /\ PartsOf(Unready(s)) = PartsOf(s)
  BY <1>1, UnreadyIs
<1>3. SessionType(Unready(s))
  BY <1>1, <1>2, SameParts
<1>4. driver.at = "took" /\ lane' = lane
  BY DEF EndEarly
<1>5. CASE EndsUnshown(s)
  BY <1>1, <1>4, <1>5, EndsUnshownIs
<1>6. CASE EndsUnshown(Unready(s))
  BY <1>2, <1>3, <1>4, <1>6, EndsUnshownIs, EndsWithout
<1>7. CASE Waits(map.update) /\ s' = s
  BY <1>1, <1>4, <1>7, WaitsIs
<1> QED
  BY <1>5, <1>6, <1>7 DEF EndEarly

LEMMA NextSlotIs ==
  ASSUME TypeInv, ~RingFull(s)
  PROVE  /\ NextSlot(s) \in Slots
         /\ s.slot[NextSlot(s)] = "free" \/ NextSlot(s) \in ToSet(s.ready)
<1>1. s.ready \in Seq(Slots) /\ Slots \in SUBSET Nat
  BY DEF TypeInv, SessionType, Slots
<1>2. CASE Unpublished(s) # {}
  <2>1. Unpublished(s) \in SUBSET Nat /\ Unpublished(s) \subseteq SlotsThat(s, "free")
    BY <1>1 DEF Unpublished, SlotsThat
  <2>2. \E i \in Unpublished(s) : \A j \in Unpublished(s) : i <= j
    BY <1>2, <2>1, Least
  <2>3. NextSlot(s) \in Unpublished(s)
    BY <1>2, <2>2 DEF NextSlot
  <2> QED
    BY <2>1, <2>3 DEF SlotsThat
<1>3. CASE Unpublished(s) = {}
  <2>1. s.ready # <<>>
    BY <1>3 DEF Unpublished, RingFull, ToSet
  <2>2. NextSlot(s) = s.ready[1] /\ 1 \in 1 .. Len(s.ready)
    BY <1>1, <1>3, <2>1 DEF NextSlot
  <2> QED
    BY <1>1, <2>2, ToSetIs
<1> QED
  BY <1>2, <1>3

LEMMA PickSlotIs ==
  ASSUME TypeInv, PickSlot
  PROVE  /\ driver.at = "took" /\ lane' = lane /\ ~Late
         /\ \/ /\ EndsWith(s', s, Nothing) /\ Grown(s'.work, s.work) /\ Ends
               /\ SlotsOf(s') = SlotsOf(s) \/ Frees(s', s)
            \/ /\ s.barriers = 0 /\ SessionType(s') /\ Ends
               /\ LifeOf(s') = LifeOf(s) /\ SlotsOf(s') = SlotsOf(s)
               /\ s'.state = s.state /\ s'.work = s.work
               /\ DemandsOf(s') = <<<<driver.demand>> \o s.demands, s.waiting, s.log,
                                    s.barriers, s.passed>>
            \/ \E i \in Slots :
                 /\ s.slot[i] = "free" \/ i \in ToSet(s.ready)
                 /\ SessionType(s') /\ LifeOf(s') = LifeOf(s) /\ DemandsOf(s') = DemandsOf(s)
                 /\ s'.state = s.state /\ s'.work = s.work
                 /\ Sets(s', s, i, "rendering") /\ s'.ready = Without(s.ready, {i})
                 /\ s'.reading = s.reading /\ s'.retargets = s.retargets
                 /\ driver' \in Drivers /\ driver'.at = "render" /\ driver'.slot = i
                 /\ driver'.item = driver.item /\ driver'.demand = driver.demand
<1>1. /\ SessionType(s) /\ DOMAIN s = Fields /\ driver.demand \in Nat /\ s.work \in Seq(Works)
      /\ s.demands \in Seq(Nat) /\ s.ready \in Seq(Slots)
  BY DEF TypeInv, SessionType, Drivers
<1>2. driver.at = "took" /\ lane' = lane /\ ~Late
  BY DEF PickSlot
<1>3. CASE s' = ResumeParked(Unshown(s, driver.demand)) /\ Ends
  <2> DEFINE u == Unshown(s, driver.demand)
  <2>1. EndsWith(u, s, Nothing) /\ u.work = s.work /\ SlotsOf(u) = SlotsOf(s)
    BY <1>1, Nothing \in Int, AnsweredEnds DEF Unshown, Nothing
  <2> HIDE DEF u
  <2>2. SessionType(u)
    BY <2>1 DEF EndsWith
  <2>3. /\ SessionType(s') /\ Grown(s'.work, u.work) /\ LifeOf(s') = LifeOf(u)
        /\ SlotsOf(s') = SlotsOf(u) /\ DemandsOf(s') = DemandsOf(u) /\ s'.state = u.state
    BY <1>3, <2>2, ResumeParkedIs DEF u
  <2>4. EndsWith(s', s, Nothing)
    BY <2>1, <2>3 DEF EndsWith, Answers, DemandsOf
  <2> QED
    BY <1>2, <1>3, <2>1, <2>3, <2>4
<1>4. CASE EndsUnshown(s)
  <2>1. Grown(s.work, s.work)
    BY <1>1, GrownSelf
  <2> QED
    BY <1>1, <1>2, <1>4, <2>1, EndsUnshownIs
<1>5. CASE s.barriers = 0 /\ s' = [s EXCEPT !.demands = <<driver.demand>> \o @] /\ Ends
  <2> DEFINE ds == <<driver.demand>> \o s.demands
  <2>1. ds \in Seq(Nat) /\ s' = [s EXCEPT !.demands = ds]
    BY <1>1, <1>5
  <2>2. ds = <<driver.demand>> \o s.demands
    OBVIOUS
  <2> HIDE DEF ds
  <2>3. /\ DOMAIN s' = Fields /\ LifeOf(s') = LifeOf(s) /\ SlotsOf(s') = SlotsOf(s)
        /\ s'.state = s.state /\ s'.work = s.work
        /\ DemandsOf(s') = <<ds, s.waiting, s.log, s.barriers, s.passed>>
    BY <1>1, <2>1 DEF Fields, LifeOf, SlotsOf, DemandsOf
  <2>4. SessionType(s')
    BY <1>1, <2>1, <2>3 DEF SessionType, LifeOf, SlotsOf, DemandsOf
  <2> QED
    BY <1>2, <1>5, <2>2, <2>3, <2>4
<1>6. CASE /\ ~RingFull(s)
           /\ LET i == NextSlot(s)
              IN  /\ s' = [s EXCEPT !.slot[i] = "rendering", !.ready = Without(@, {i})]
                  /\ driver' = [driver EXCEPT !.at = "render", !.slot = i]
  <2> DEFINE i == NextSlot(s)
             t == [s EXCEPT !.slot[i] = "rendering"]
             r == Without(s.ready, {i})
  <2>1. i \in Slots /\ (s.slot[i] = "free" \/ i \in ToSet(s.ready))
    BY <1>6, NextSlotIs
  <2>2. s' = [t EXCEPT !.ready = r] /\ driver' = [driver EXCEPT !.at = "render", !.slot = i]
    BY <1>1, <1>6 DEF Fields
  <2>3. r \in Seq(Slots)
    BY <1>1, WithoutIs
  <2>4. r = Without(s.ready, {i})
    OBVIOUS
  <2> HIDE DEF i, r
  <2>5. /\ SessionType(t) /\ LifeOf(t) = LifeOf(s) /\ DemandsOf(t) = DemandsOf(s)
        /\ t.state = s.state /\ t.work = s.work /\ Sets(t, s, i, "rendering")
        /\ t.ready = s.ready /\ t.reading = s.reading /\ t.retargets = s.retargets
    BY <1>1, "rendering" \in {"free", "rendering", "held", "returning", "quarantined"}, WithSlot
  <2> HIDE DEF t
  <2>6. DOMAIN t = Fields
    BY <2>5 DEF SessionType
  <2>7. /\ DOMAIN s' = Fields /\ LifeOf(s') = LifeOf(t) /\ DemandsOf(s') = DemandsOf(t)
        /\ s'.state = t.state /\ s'.work = t.work /\ s'.slot = t.slot
        /\ s'.ready = r /\ s'.reading = t.reading /\ s'.retargets = t.retargets
    BY <2>2, <2>6 DEF Fields, LifeOf, DemandsOf
  <2>8. SessionType(s')
    BY <2>3, <2>5, <2>7 DEF SessionType, LifeOf, DemandsOf
  <2>9. /\ driver' \in Drivers /\ driver'.at = "render" /\ driver'.slot = i
        /\ driver'.item = driver.item /\ driver'.demand = driver.demand
    BY <2>1, <2>2 DEF TypeInv, Drivers, Steps
  <2>10. Sets(s', s, i, "rendering")
    BY <2>5, <2>7 DEF Sets
  <2> QED
    BY <1>2, <2>1, <2>4, <2>5, <2>7, <2>8, <2>9, <2>10
<1> QED
  BY <1>3, <1>4, <1>5, <1>6 DEF PickSlot

LEMMA SelectIs ==
  ASSUME TypeInv, Select
  PROVE  /\ driver.at = "render" /\ s' = s /\ lane' = lane
         /\ driver' \in Drivers /\ driver'.at = "draw" /\ driver'.item = driver.item
         /\ driver'.demand = driver.demand /\ driver'.slot = driver.slot
         /\ driver'.update = map.update /\ driver'.shows = map.shows
BY DEF Select, TypeInv, Drivers, Steps, Maps

LEMMA DrawIs ==
  ASSUME TypeInv, StateInv, Draw
  PROVE  /\ driver.at = "draw" /\ lane' = lane
         /\ \/ /\ SessionType(s') /\ PartsOf(s') = PartsOf(s)
               /\ driver' \in Drivers /\ driver'.at = "publish" /\ driver'.item = driver.item
               /\ driver'.demand = driver.demand /\ driver'.slot = driver.slot
               /\ driver'.shows = driver.shows
            \/ /\ s' = s /\ driver' \in Drivers /\ driver'.at = "wait"
               /\ driver'.item = driver.item /\ driver'.demand = driver.demand
               /\ driver'.slot = driver.slot
            \/ EndsWith(s', s, Nothing) /\ s'.work = s.work /\ Frees(s', s) /\ Ends
            \/ \E u : /\ Fails(u, s) /\ EndsWith(s', u, Nothing) /\ s'.work = u.work
                      /\ Frees(s', u) /\ Ends
<1>1. SessionType(s) /\ DOMAIN s = Fields /\ {"publish", "wait"} \subseteq Steps
  BY DEF TypeInv, SessionType, Steps
<1>2. driver.at = "draw" /\ lane' = lane
  BY DEF Draw
<1>3. CASE Goes("publish") /\ s' = [s EXCEPT !.drawn = driver.update, !.changes = FALSE]
  <2>1. DOMAIN s' = Fields /\ PartsOf(s') = PartsOf(s)
    BY <1>1, <1>3 DEF Fields, PartsOf, LifeOf, SlotsOf, DemandsOf
  <2>2. SessionType(s')
    BY <1>1, <2>1, SameParts
  <2> QED
    BY <1>1, <1>2, <1>3, <2>1, <2>2, GoesIs
<1>4. CASE Goes("wait") /\ s' = s
  BY <1>1, <1>2, <1>4, GoesIs
<1>5. CASE EndsUnshown(s)
  BY <1>1, <1>2, <1>5, EndsUnshownIs
<1>6. CASE EndsUnshown(Unready(s))
  <2>1. DOMAIN Unready(s) = Fields /\ PartsOf(Unready(s)) = PartsOf(s)
    BY <1>1, UnreadyIs
  <2>2. SessionType(Unready(s))
    BY <1>1, <2>1, SameParts
  <2> QED
    BY <1>2, <1>6, <2>1, <2>2, EndsUnshownIs, EndsWithout
<1>7. CASE EndsUnshown(Failed(s))
  <2> DEFINE u == Failed(s)
  <2>1. s.state # "failed" /\ ~Over(s)
    BY <1>2 DEF StateInv, Rendering, Live, Over
  <2>2. Fails(u, s)
    BY <1>1, <2>1, FailedIs DEF Fails
  <2>3. EndsUnshown(u)
    BY <1>7
  <2> HIDE DEF u
  <2>4. SessionType(u)
    BY <2>2 DEF Fails
  <2>5. EndsWith(s', u, Nothing) /\ s'.work = u.work /\ Frees(s', u) /\ Ends
    BY <2>3, <2>4, EndsUnshownIs
  <2> QED
    BY <1>2, <2>2, <2>5
<1> QED
  BY <1>3, <1>4, <1>5, <1>6, <1>7 DEF Draw

LEMMA PublishIs ==
  ASSUME TypeInv, Publish
  PROVE  /\ driver.at = "publish" /\ lane' = lane /\ Ends /\ driver.slot \in Slots
         /\ EndsWith(s', s, driver.shows) /\ s'.work = s.work
         /\ Sets(s', s, driver.slot, "free") /\ s'.ready = Append(s.ready, driver.slot)
         /\ s'.reading = s.reading /\ s'.retargets = s.retargets
<1> DEFINE r == Append(s.ready, driver.slot)
           flight == IF s.kind \in RendersAhead THEN s.flight + 1 ELSE s.flight
           t == [s EXCEPT !.slot[driver.slot] = "free"]
           u == [t EXCEPT !.ready = r, !.flight = flight]
<1>1. /\ SessionType(s) /\ DOMAIN s = Fields /\ driver.at = "publish" /\ driver.slot \in Slots
      /\ driver.shows \in Int /\ s.ready \in Seq(Slots)
  BY DEF TypeInv, SessionType, Publish, Drivers
<1>2. r \in Seq(Slots) /\ r = Append(s.ready, driver.slot)
  BY <1>1
<1>3. s' = Answered(u, driver.demand, driver.shows) /\ Ends /\ lane' = lane
  BY <1>1 DEF Publish, Fields
<1> HIDE DEF r, flight
<1>4. /\ SessionType(t) /\ LifeOf(t) = LifeOf(s) /\ DemandsOf(t) = DemandsOf(s)
      /\ t.state = s.state /\ t.work = s.work /\ Sets(t, s, driver.slot, "free")
      /\ t.ready = s.ready /\ t.reading = s.reading /\ t.retargets = s.retargets
  BY <1>1, "free" \in {"free", "rendering", "held", "returning", "quarantined"}, WithSlot
<1> HIDE DEF t
<1>5. DOMAIN t = Fields
  BY <1>4 DEF SessionType
<1>6. /\ DOMAIN u = Fields /\ LifeOf(u) = LifeOf(t) /\ DemandsOf(u) = DemandsOf(t)
      /\ u.state = t.state /\ u.work = t.work /\ u.slot = t.slot
      /\ u.ready = r /\ u.reading = t.reading /\ u.retargets = t.retargets
  BY <1>5 DEF Fields, LifeOf, DemandsOf
<1> HIDE DEF u
<1>7. SessionType(u)
  BY <1>2, <1>4, <1>6 DEF SessionType, LifeOf, DemandsOf
<1>8. EndsWith(s', u, driver.shows) /\ s'.work = u.work /\ SlotsOf(s') = SlotsOf(u)
  BY <1>1, <1>3, <1>7, AnsweredEnds
<1>9. EndsWith(s', s, driver.shows)
  BY <1>4, <1>6, <1>8 DEF EndsWith, Answers, DemandsOf
<1>10. Sets(s', s, driver.slot, "free")
  BY <1>4, <1>6, <1>8 DEF Sets, SlotsOf
<1> QED
  BY <1>1, <1>2, <1>3, <1>4, <1>6, <1>8, <1>9, <1>10 DEF SlotsOf

(* The driver's demand notes the update that it looked at.                 *)
Looks(u, t) ==
  /\ u.barriers = t.barriers /\ u.passed = t.passed
  /\ Len(u.log) = Len(t.log)
  /\ \A d \in 1 .. Len(t.log) :
       u.log[d] = IF d = driver.demand THEN [t.log[d] EXCEPT !.looked = driver.update]
                  ELSE t.log[d]

LEMMA WaitForUpdateIs ==
  ASSUME TypeInv, WaitForUpdate
  PROVE  /\ driver.at = "wait" /\ lane' = lane /\ Ends /\ SessionType(s')
         /\ LifeOf(s') = LifeOf(s) /\ s'.state = s.state /\ Frees(s', s)
         /\ \/ EndsWith(s', s, Nothing) /\ s'.work = s.work
            \/ /\ map.update = driver.update /\ s'.work = s.work
               /\ s'.demands = s.demands /\ s'.waiting = Append(s.waiting, driver.demand)
               /\ Looks(s', s) /\ s.barriers = 0
            \/ /\ Grown(s'.work, s.work) /\ s.barriers = 0
               /\ DemandsOf(s') = <<<<driver.demand>> \o s.demands, s.waiting, s.log,
                                    s.barriers, s.passed>>
<1> DEFINE t == SlotFreed(s)
<1>1. /\ SessionType(s) /\ driver.demand \in Nat /\ driver.update \in Nat
      /\ s.demands \in Seq(Nat) /\ s.waiting \in Seq(Nat) /\ s.log \in Seq(Entries)
      /\ s.barriers \in Int
  BY DEF TypeInv, SessionType, Drivers
<1>2. /\ driver.at = "wait" /\ lane' = lane /\ Ends
      /\ s' = IF CannotWait(s) THEN Unshown(t, driver.demand)
              ELSE IF Outdated
              THEN [t EXCEPT !.waiting = Append(@, driver.demand),
                             !.log[driver.demand].looked = driver.update]
              ELSE QueueFrame([t EXCEPT !.demands = <<driver.demand>> \o @], driver.demand)
  BY DEF WaitForUpdate
<1>3. /\ SessionType(t) /\ LifeOf(t) = LifeOf(s) /\ DemandsOf(t) = DemandsOf(s)
      /\ t.state = s.state /\ t.work = s.work /\ Frees(t, s)
  BY <1>1, SlotFreedIs
<1> HIDE DEF t
<1>4. /\ DOMAIN t = Fields /\ t.demands = s.demands /\ t.waiting = s.waiting /\ t.log = s.log
      /\ t.barriers = s.barriers /\ t.passed = s.passed
  BY <1>3 DEF DemandsOf, SessionType
<1>5. CASE CannotWait(s)
  <2>1. EndsWith(s', t, Nothing) /\ s'.work = t.work /\ SlotsOf(s') = SlotsOf(t)
    BY <1>2, <1>3, <1>5, Nothing \in Int, AnsweredEnds DEF Unshown, Nothing
  <2>2. EndsWith(s', s, Nothing) /\ Frees(s', s)
    BY <1>3, <1>4, <2>1 DEF EndsWith, Answers, Frees, Sets, SlotsOf
  <2> QED
    BY <1>2, <1>3, <2>1, <2>2 DEF EndsWith
<1>6. CASE ~CannotWait(s) /\ Outdated
  <2> DEFINE d == driver.demand
             entry == [s.log[d] EXCEPT !.looked = driver.update]
             log == [s.log EXCEPT ![d] = entry]
             ws == Append(s.waiting, d)
  <2>1. s' = [t EXCEPT !.waiting = ws, !.log = log] /\ map.update = driver.update
    BY <1>2, <1>4, <1>6 DEF Outdated, Fields
  <2>2. d \in 1 .. Len(s.log) => entry \in Entries
    <3>1. d \in 1 .. Len(s.log) => s.log[d] \in Entries
      BY <1>1
    <3> QED
      BY <1>1, <3>1 DEF Entries
  <2>3. entry = [s.log[d] EXCEPT !.looked = driver.update] /\ ws = Append(s.waiting, d)
    OBVIOUS
  <2>4. ws \in Seq(Nat)
    BY <1>1
  <2> HIDE DEF entry, ws
  <2>5. /\ log \in Seq(Entries) /\ Len(log) = Len(s.log)
        /\ \A e \in 1 .. Len(s.log) : log[e] = IF e = d THEN entry ELSE s.log[e]
    <3>1. CASE d \in 1 .. Len(s.log)
      BY <1>1, <2>2, <3>1, ExceptSeq
    <3>2. CASE d \notin 1 .. Len(s.log)
      <4>1. log = s.log
        BY <1>1, <3>2
      <4> QED
        BY <1>1, <3>2, <4>1
    <3> QED
      BY <3>1, <3>2
  <2> HIDE DEF log
  <2>6. /\ DOMAIN s' = Fields /\ LifeOf(s') = LifeOf(t) /\ SlotsOf(s') = SlotsOf(t)
        /\ s'.state = t.state /\ s'.work = t.work /\ s'.demands = t.demands
        /\ s'.waiting = ws /\ s'.log = log /\ s'.barriers = t.barriers
        /\ s'.passed = t.passed
    BY <1>4, <2>1 DEF Fields, LifeOf, SlotsOf
  <2>7. SessionType(s')
    BY <1>3, <2>4, <2>5, <2>6 DEF SessionType, LifeOf, SlotsOf
  <2>8. Frees(s', s)
    BY <1>3, <2>6 DEF Frees, Sets, SlotsOf
  <2>9. Looks(s', s)
    BY <1>4, <2>3, <2>5, <2>6 DEF Looks
  <2>10. s.barriers = 0
    BY <1>6 DEF CannotWait
  <2> QED
    BY <1>2, <1>3, <1>4, <2>1, <2>3, <2>6, <2>7, <2>8, <2>9, <2>10
<1>7. CASE ~CannotWait(s) /\ ~Outdated
  <2> DEFINE ds == <<driver.demand>> \o s.demands
             u == [t EXCEPT !.demands = ds]
  <2>1. s' = QueueFrame(u, driver.demand)
    BY <1>2, <1>4, <1>7
  <2>2. ds \in Seq(Nat) /\ ds = <<driver.demand>> \o s.demands
    BY <1>1
  <2> HIDE DEF ds
  <2>3. /\ DOMAIN u = Fields /\ LifeOf(u) = LifeOf(t) /\ SlotsOf(u) = SlotsOf(t)
        /\ u.state = t.state /\ u.work = t.work
        /\ DemandsOf(u) = <<ds, s.waiting, s.log, s.barriers, s.passed>>
    BY <1>4 DEF Fields, LifeOf, SlotsOf, DemandsOf
  <2> HIDE DEF u
  <2>4. SessionType(u)
    BY <1>1, <1>3, <2>2, <2>3 DEF SessionType, LifeOf, SlotsOf, DemandsOf
  <2>5. /\ SessionType(s') /\ Grown(s'.work, u.work) /\ LifeOf(s') = LifeOf(u)
        /\ SlotsOf(s') = SlotsOf(u) /\ DemandsOf(s') = DemandsOf(u) /\ s'.state = u.state
    BY <1>1, <2>1, <2>4, QueueFrameIs
  <2>6. Frees(s', s)
    BY <1>3, <2>3, <2>5 DEF Frees, Sets, SlotsOf
  <2>7. s.barriers = 0
    BY <1>7 DEF CannotWait
  <2> QED
    BY <1>2, <1>3, <2>2, <2>3, <2>5, <2>6, <2>7
<1> QED
  BY <1>5, <1>6, <1>7

LEMMA GpuDoneIs ==
  ASSUME TypeInv, GpuDone
  PROVE  SessionType(s') /\ PartsOf(s') = PartsOf(s) /\ UNCHANGED <<driver, lane>>
<1> DEFINE t == [s EXCEPT !.flight = 0, !.asked = FALSE]
<1>1. SessionType(s) /\ DOMAIN s = Fields
  BY DEF TypeInv, SessionType
<1>2. DOMAIN t = Fields /\ PartsOf(t) = PartsOf(s)
  BY <1>1 DEF Fields, PartsOf, LifeOf, SlotsOf, DemandsOf
<1>3. s' = Published(t) /\ UNCHANGED <<driver, lane>>
  BY DEF GpuDone
<1> HIDE DEF t
<1>4. DOMAIN s' = Fields /\ PartsOf(s') = PartsOf(t)
  BY <1>2, <1>3, PublishedIs
<1> QED
  BY <1>1, <1>2, <1>3, <1>4, SameParts
-----------------------------------------------------------------------------
(* Host threads.                                                           *)
LEMMA DemandIs ==
  ASSUME TypeInv, NEW policy \in Policies, Demand(policy)
  PROVE  /\ lane' = lane /\ SessionType(s') /\ s.state \in {"attaching", "attached"}
         /\ LifeOf(s') = LifeOf(s) /\ SlotsOf(s') = SlotsOf(s) /\ s'.state = s.state
         /\ Grown(s'.work, s.work) /\ s'.barriers = s.barriers /\ s'.passed = s.passed
         /\ \E old, f :
              /\ old \subseteq ToSet(s.waiting) \union ToSet(s.demands)
              /\ s'.waiting = Without(s.waiting, old)
              /\ s'.demands = Append(Without(s.demands, old), Len(s.log) + 1)
              /\ SessionType(f) /\ Finishes(f, s, old)
              /\ s'.log = Append(f.log, [policy |-> policy, needs |-> map.sent,
                                         results |-> <<>>, looked |-> 0])
<1> DEFINE old == {d \in ToSet(s.waiting \o s.demands) :
                     policy # "force" /\ s.log[d].policy = policy}
           new == Len(s.log) + 1
           f   == Finished(s, old)
           entry == [policy |-> policy, needs |-> map.sent, results |-> <<>>, looked |-> 0]
           ws  == Without(s.waiting, old)
           ds  == Append(Without(s.demands, old), new)
           log == Append(f.log, entry)
           t   == [f EXCEPT !.waiting = ws, !.demands = ds, !.log = log]
<1>1. /\ SessionType(s) /\ s.waiting \in Seq(Nat) /\ s.demands \in Seq(Nat)
      /\ new \in Nat /\ map.sent \in Nat
  BY DEF TypeInv, SessionType, Maps
<1>2. old \subseteq ToSet(s.waiting) \union ToSet(s.demands)
  <2>1. \A x \in ToSet(s.waiting \o s.demands) :
          x \in ToSet(s.waiting) \union ToSet(s.demands)
    BY <1>1, JoinedIs
  <2> QED
    BY <2>1
<1>3. entry \in Entries
  BY <1>1 DEF Entries
<1> HIDE DEF old
<1>4. /\ SessionType(f) /\ f.work = s.work /\ LifeOf(f) = LifeOf(s) /\ SlotsOf(f) = SlotsOf(s)
      /\ f.state = s.state /\ f.demands = s.demands /\ f.waiting = s.waiting
      /\ Finishes(f, s, old)
  BY <1>1, FinishedIs
<1>5. /\ s' = QueueFrame([Finished(s, old) EXCEPT
                            !.waiting = Without(@, old),
                            !.demands = Append(Without(@, old), new),
                            !.log = Append(@, entry)], new)
      /\ lane' = lane /\ s.state \in {"attaching", "attached"}
  BY DEF Demand, old
<1>6. DOMAIN f = Fields /\ f.log \in Seq(Entries)
  BY <1>4 DEF SessionType
<1> HIDE DEF f, entry
<1>7. s' = QueueFrame(t, new)
  <2>1. [f EXCEPT !.waiting = Without(@, old), !.demands = Append(Without(@, old), new),
                  !.log = Append(@, entry)] = t
    BY <1>4, <1>6 DEF Fields
  <2> QED
    BY <1>5, <2>1 DEF f
<1>8. ws \in Seq(Nat) /\ ds \in Seq(Nat) /\ log \in Seq(Entries)
  BY <1>1, <1>3, <1>6, WithoutIs
<1>9. /\ ws = Without(s.waiting, old) /\ ds = Append(Without(s.demands, old), new)
      /\ log = Append(f.log, entry)
  OBVIOUS
<1> HIDE DEF ws, ds, log
<1>10. /\ DOMAIN t = Fields /\ LifeOf(t) = LifeOf(f) /\ SlotsOf(t) = SlotsOf(f)
       /\ t.state = f.state /\ t.work = f.work
       /\ DemandsOf(t) = <<ds, ws, log, f.barriers, f.passed>>
  BY <1>6 DEF Fields, LifeOf, SlotsOf, DemandsOf
<1> HIDE DEF t
<1>11. SessionType(t)
  BY <1>4, <1>8, <1>10 DEF SessionType, LifeOf, SlotsOf, DemandsOf
<1>12. /\ SessionType(s') /\ Grown(s'.work, t.work) /\ LifeOf(s') = LifeOf(t)
       /\ SlotsOf(s') = SlotsOf(t) /\ DemandsOf(s') = DemandsOf(t) /\ s'.state = t.state
  BY <1>1, <1>7, <1>11, QueueFrameIs
<1>13. f.barriers = s.barriers /\ f.passed = s.passed
  BY <1>4 DEF Finishes
<1>14. /\ s'.waiting = ws /\ s'.demands = ds /\ s'.log = log
       /\ s'.barriers = s.barriers /\ s'.passed = s.passed
  BY <1>10, <1>12, <1>13 DEF DemandsOf
<1>15. \E o, g :
         /\ o \subseteq ToSet(s.waiting) \union ToSet(s.demands)
         /\ s'.waiting = Without(s.waiting, o)
         /\ s'.demands = Append(Without(s.demands, o), Len(s.log) + 1)
         /\ SessionType(g) /\ Finishes(g, s, o)
         /\ s'.log = Append(g.log, [policy |-> policy, needs |-> map.sent,
                                    results |-> <<>>, looked |-> 0])
  <2>1. WITNESS old, f
  <2> QED
    BY <1>2, <1>4, <1>9, <1>14 DEF entry
<1> QED
  BY <1>4, <1>5, <1>10, <1>12, <1>14, <1>15

LEMMA BarrierIs ==
  ASSUME TypeInv, Barrier
  PROVE  /\ lane' = lane /\ SessionType(s') /\ s.state = "attached"
         /\ LifeOf(s') = LifeOf(s) /\ SlotsOf(s') = SlotsOf(s) /\ s'.state = s.state
         /\ s'.work = Append(s.work, Item("barrier", Len(s.log)))
         /\ Item("barrier", Len(s.log)) \in Works
         /\ s'.demands = <<>> /\ s'.waiting = <<>>
         /\ s'.barriers = s.barriers + 1 /\ s'.passed = s.passed
         /\ \E f : Finishes(f, s, ToSet(s.demands \o s.waiting)) /\ s'.log = f.log
<1> DEFINE w == Append(s.work, Item("barrier", Len(s.log)))
           t == [s EXCEPT !.work = w, !.barriers = @ + 1]
           f == FinishDemands(t)
<1>1. SessionType(s) /\ DOMAIN s = Fields /\ s.work \in Seq(Works) /\ Len(s.log) \in Nat
  BY DEF TypeInv, SessionType
<1>2. Item("barrier", Len(s.log)) \in Works
  BY <1>1, ItemIs DEF WorkKinds
<1>3. w \in Seq(Works) /\ w = Append(s.work, Item("barrier", Len(s.log)))
  BY <1>1, <1>2
<1>4. s' = Published(f) /\ lane' = lane /\ s.state = "attached"
  BY <1>1 DEF Barrier, Fields
<1> HIDE DEF w
<1>5. /\ DOMAIN t = Fields /\ LifeOf(t) = LifeOf(s) /\ SlotsOf(t) = SlotsOf(s)
      /\ t.state = s.state /\ t.work = w
      /\ DemandsOf(t) = <<s.demands, s.waiting, s.log, s.barriers + 1, s.passed>>
  BY <1>1 DEF Fields, LifeOf, SlotsOf, DemandsOf
<1> HIDE DEF t
<1>6. SessionType(t)
  BY <1>1, <1>3, <1>5 DEF SessionType, LifeOf, SlotsOf, DemandsOf
<1>7. /\ SessionType(f) /\ f.work = t.work /\ LifeOf(f) = LifeOf(t) /\ SlotsOf(f) = SlotsOf(t)
      /\ f.state = t.state /\ f.demands = <<>> /\ f.waiting = <<>>
      /\ Finishes(f, t, ToSet(t.demands \o t.waiting))
  BY <1>6, FinishDemandsIs
<1> HIDE DEF f
<1>8. DOMAIN f = Fields
  BY <1>7 DEF SessionType
<1>9. DOMAIN s' = Fields /\ PartsOf(s') = PartsOf(f)
  BY <1>4, <1>8, PublishedIs
<1>10. SessionType(s')
  BY <1>7, <1>9, SameParts
<1>11. /\ LifeOf(s') = LifeOf(f) /\ SlotsOf(s') = SlotsOf(f) /\ DemandsOf(s') = DemandsOf(f)
       /\ s'.state = f.state /\ s'.work = f.work
  BY <1>9 DEF PartsOf
<1>12. /\ t.demands = s.demands /\ t.waiting = s.waiting /\ t.log = s.log
       /\ t.barriers = s.barriers + 1 /\ t.passed = s.passed
  BY <1>5 DEF DemandsOf
<1>13. /\ s'.demands = <<>> /\ s'.waiting = <<>> /\ s'.log = f.log
       /\ s'.barriers = s.barriers + 1 /\ s'.passed = s.passed
  BY <1>7, <1>11, <1>12 DEF DemandsOf, Finishes
<1>14. \E g : Finishes(g, s, ToSet(s.demands \o s.waiting)) /\ s'.log = g.log
  <2> DEFINE g == [barriers |-> s.barriers, passed |-> s.passed, log |-> f.log]
  <2>1. Finishes(g, s, ToSet(s.demands \o s.waiting)) /\ s'.log = g.log
    BY <1>7, <1>12, <1>13 DEF Finishes
  <2> QED
    BY <2>1
<1> QED
  BY <1>2, <1>3, <1>4, <1>5, <1>7, <1>10, <1>11, <1>13, <1>14

LEMMA DetachIs ==
  ASSUME TypeInv, Detach
  PROVE  /\ lane' = lane /\ SessionType(s') /\ s.state = "attached" /\ s'.state = "detaching"
         /\ Held(s) = {} /\ s.views = {}
         /\ LifeOf(s') = LifeOf(s) /\ SlotsOf(s') = SlotsOf(s) /\ DemandsOf(s') = DemandsOf(s)
         /\ s'.work = Append(s.work, Item("detach", 0)) /\ Item("detach", 0) \in Works
<1> DEFINE t == [s EXCEPT !.state = "detaching", !.drawn = Nothing]
<1>1. SessionType(s) /\ DOMAIN s = Fields /\ Item("detach", 0) \in Works
  BY ItemIs DEF TypeInv, SessionType, WorkKinds
<1>2. /\ s' = Pushed(t, Item("detach", 0)) /\ lane' = lane
      /\ s.state = "attached" /\ Held(s) = {} /\ s.views = {}
  BY DEF Detach
<1>3. /\ DOMAIN t = Fields /\ LifeOf(t) = LifeOf(s) /\ SlotsOf(t) = SlotsOf(s)
      /\ DemandsOf(t) = DemandsOf(s) /\ t.state = "detaching" /\ t.work = s.work
  BY <1>1 DEF Fields, LifeOf, SlotsOf, DemandsOf
<1> HIDE DEF t
<1>4. SessionType(t)
  BY <1>1, <1>3 DEF SessionType, States, LifeOf, SlotsOf, DemandsOf
<1> QED
  BY <1>1, <1>2, <1>3, <1>4, PushedIs

LEMMA AsksChangeIs ==
  ASSUME TypeInv, Untarget \/ Retarget
  PROVE  /\ lane' = lane /\ SessionType(s') /\ s.state = "attached" /\ s'.state = s.state
         /\ Held(s) = {} /\ LifeOf(s') = LifeOf(s) /\ DemandsOf(s') = DemandsOf(s)
         /\ s'.slot = s.slot /\ (s'.ready = s.ready \/ s'.ready = <<>>)
         /\ s'.reading = s.reading /\ s'.retargets = s.retargets + 1
         /\ \E w \in Works : w.kind \in Changes /\ s'.work = Append(s.work, w)
<1> DEFINE a == [s EXCEPT !.releases = @ + 1, !.retargets = @ + 1, !.ready = <<>>]
           b == [s EXCEPT !.retargets = @ + 1]
<1>1. /\ SessionType(s) /\ DOMAIN s = Fields
      /\ Item("untarget", 0) \in Works /\ Item("retarget", 0) \in Works
      /\ Item("untarget", 0).kind \in Changes /\ Item("retarget", 0).kind \in Changes
  BY ItemIs DEF TypeInv, SessionType, WorkKinds, Changes
<1>2. /\ DOMAIN a = Fields /\ LifeOf(a) = LifeOf(s) /\ DemandsOf(a) = DemandsOf(s)
      /\ SlotsOf(a) = <<s.slot, <<>>, s.reading, s.retargets + 1>>
      /\ a.state = s.state /\ a.work = s.work
  BY <1>1 DEF Fields, LifeOf, SlotsOf, DemandsOf
<1>3. /\ DOMAIN b = Fields /\ LifeOf(b) = LifeOf(s) /\ DemandsOf(b) = DemandsOf(s)
      /\ SlotsOf(b) = <<s.slot, s.ready, s.reading, s.retargets + 1>>
      /\ b.state = s.state /\ b.work = s.work
  BY <1>1 DEF Fields, LifeOf, SlotsOf, DemandsOf
<1>4. /\ lane' = lane /\ s.state = "attached" /\ Held(s) = {}
      /\ s' = Pushed(a, Item("untarget", 0)) \/ s' = Pushed(b, Item("retarget", 0))
  BY DEF Untarget, Retarget
<1> HIDE DEF a, b
<1>5. SessionType(a) /\ SessionType(b)
  BY <1>1, <1>2, <1>3 DEF SessionType, LifeOf, SlotsOf, DemandsOf
<1>6. CASE s' = Pushed(a, Item("untarget", 0))
  <2>1. /\ SessionType(s') /\ s'.work = Append(a.work, Item("untarget", 0))
        /\ LifeOf(s') = LifeOf(a) /\ SlotsOf(s') = SlotsOf(a) /\ DemandsOf(s') = DemandsOf(a)
        /\ s'.state = a.state
    BY <1>1, <1>5, <1>6, PushedIs
  <2>2. /\ s'.slot = s.slot /\ s'.ready = <<>> /\ s'.reading = s.reading
        /\ s'.retargets = s.retargets + 1
    BY <1>2, <2>1 DEF SlotsOf
  <2> QED
    BY <1>1, <1>2, <1>4, <2>1, <2>2
<1>7. CASE s' = Pushed(b, Item("retarget", 0))
  <2>1. /\ SessionType(s') /\ s'.work = Append(b.work, Item("retarget", 0))
        /\ LifeOf(s') = LifeOf(b) /\ SlotsOf(s') = SlotsOf(b) /\ DemandsOf(s') = DemandsOf(b)
        /\ s'.state = b.state
    BY <1>1, <1>5, <1>7, PushedIs
  <2>2. /\ s'.slot = s.slot /\ s'.ready = s.ready /\ s'.reading = s.reading
        /\ s'.retargets = s.retargets + 1
    BY <1>3, <2>1 DEF SlotsOf
  <2> QED
    BY <1>1, <1>3, <1>4, <2>1, <2>2
<1> QED
  BY <1>4, <1>6, <1>7

LEMMA AcquireIs ==
  ASSUME TypeInv, Acquire
  PROVE  /\ lane' = lane /\ SessionType(s') /\ s.state = "attached" /\ s'.state = s.state
         /\ ~s.disposed /\ s.retargets = 0
         /\ LifeOf(s') = LifeOf(s) /\ DemandsOf(s') = DemandsOf(s) /\ s'.work = s.work
         /\ s'.ready = <<>> /\ s'.retargets = s.retargets
         /\ \E n \in DOMAIN s.ready : /\ s.ready[n] \in Slots /\ Sets(s', s, s.ready[n], "held")
                                      /\ s'.reading = s.reading \union {s.ready[n]}
<1> DEFINE n == Len(s.ready)
           i == s.ready[n]
           t == [s EXCEPT !.slot[i] = "held"]
           reading == s.reading \union {i}
<1>1. SessionType(s) /\ DOMAIN s = Fields /\ s.ready \in Seq(Slots) /\ s.reading \subseteq Slots
  BY DEF TypeInv, SessionType
<1>2. /\ s' = [s EXCEPT !.slot[i] = "held", !.ready = <<>>, !.reading = @ \union {i}]
      /\ lane' = lane /\ s.state = "attached" /\ ~s.disposed /\ s.retargets = 0
      /\ s.ready # <<>>
  BY DEF Acquire, Last
<1>3. n \in DOMAIN s.ready /\ i \in Slots /\ reading \subseteq Slots
  BY <1>1, <1>2
<1>4. s' = [t EXCEPT !.ready = <<>>, !.reading = reading]
  BY <1>1, <1>2 DEF Fields
<1>5. i = s.ready[n] /\ reading = s.reading \union {i}
  OBVIOUS
<1> HIDE DEF n, i, reading
<1>6. /\ SessionType(t) /\ LifeOf(t) = LifeOf(s) /\ DemandsOf(t) = DemandsOf(s)
      /\ t.state = s.state /\ t.work = s.work /\ Sets(t, s, i, "held")
      /\ t.ready = s.ready /\ t.reading = s.reading /\ t.retargets = s.retargets
  BY <1>1, "held" \in {"free", "rendering", "held", "returning", "quarantined"}, WithSlot
<1> HIDE DEF t
<1>7. DOMAIN t = Fields
  BY <1>6 DEF SessionType
<1>8. /\ DOMAIN s' = Fields /\ LifeOf(s') = LifeOf(t) /\ DemandsOf(s') = DemandsOf(t)
      /\ s'.state = t.state /\ s'.work = t.work /\ s'.slot = t.slot
      /\ s'.ready = <<>> /\ s'.reading = reading /\ s'.retargets = t.retargets
  BY <1>4, <1>7 DEF Fields, LifeOf, DemandsOf
<1>9. SessionType(s')
  BY <1>3, <1>6, <1>8 DEF SessionType, LifeOf, DemandsOf
<1>10. Sets(s', s, i, "held")
  BY <1>6, <1>8 DEF Sets
<1> QED
  BY <1>2, <1>3, <1>5, <1>6, <1>8, <1>9, <1>10

LEMMA ReleaseFrameIs ==
  ASSUME TypeInv, NEW i \in Slots, ReleaseFrame(i)
  PROVE  /\ lane' = lane /\ SessionType(s') /\ s'.state = s.state /\ s.slot[i] = "held"
         /\ LifeOf(s') = LifeOf(s) /\ DemandsOf(s') = DemandsOf(s)
         /\ Grown(s'.work, s.work) /\ (~Live(s) => s'.work = s.work)
         /\ Sets(s', s, i, "free") /\ s'.ready = s.ready
         /\ s'.reading = s.reading \ {i} /\ s'.retargets = s.retargets
<1> DEFINE t == [s EXCEPT !.slot[i] = "free"]
           u == [t EXCEPT !.reading = @ \ {i}]
<1>1. SessionType(s) /\ DOMAIN s = Fields
  BY DEF TypeInv, SessionType
<1>2. s' = ResumeParked(u) /\ lane' = lane /\ s.slot[i] = "held"
  BY <1>1 DEF ReleaseFrame, Fields
<1>3. /\ SessionType(t) /\ LifeOf(t) = LifeOf(s) /\ DemandsOf(t) = DemandsOf(s)
      /\ t.state = s.state /\ t.work = s.work /\ Sets(t, s, i, "free")
      /\ t.ready = s.ready /\ t.reading = s.reading /\ t.retargets = s.retargets
  BY <1>1, "free" \in {"free", "rendering", "held", "returning", "quarantined"}, WithSlot
<1> HIDE DEF t
<1>4. DOMAIN t = Fields
  BY <1>3 DEF SessionType
<1>5. /\ DOMAIN u = Fields /\ LifeOf(u) = LifeOf(t) /\ DemandsOf(u) = DemandsOf(t)
      /\ u.state = t.state /\ u.work = t.work /\ u.slot = t.slot
      /\ u.ready = t.ready /\ u.reading = t.reading \ {i} /\ u.retargets = t.retargets
  BY <1>4 DEF Fields, LifeOf, DemandsOf
<1> HIDE DEF u
<1>6. SessionType(u)
  BY <1>3, <1>5 DEF SessionType, LifeOf, DemandsOf
<1>7. /\ SessionType(s') /\ Grown(s'.work, u.work) /\ LifeOf(s') = LifeOf(u)
      /\ SlotsOf(s') = SlotsOf(u) /\ DemandsOf(s') = DemandsOf(u) /\ s'.state = u.state
      /\ ~Live(u) => s'.work = u.work
  BY <1>2, <1>6, ResumeParkedIs
<1>8. Sets(s', s, i, "free") /\ (Live(u) <=> Live(s))
  BY <1>3, <1>5, <1>7 DEF Sets, SlotsOf, Live
<1> QED
  BY <1>2, <1>3, <1>5, <1>7, <1>8 DEF SlotsOf

LEMMA ReleaseAfterGpuIs ==
  ASSUME TypeInv, NEW i \in Slots, ReleaseAfterGpu(i)
  PROVE  /\ lane' = lane /\ SessionType(s') /\ s'.state = s.state /\ s.slot[i] = "held"
         /\ LifeOf(s') = LifeOf(s) /\ DemandsOf(s') = DemandsOf(s)
         /\ s'.ready = s.ready /\ s'.reading = s.reading /\ s'.retargets = s.retargets
         /\ \/ /\ s.state \in {"abandoned", "failed"} /\ s'.work = s.work
               /\ Sets(s', s, i, "quarantined")
            \/ /\ s.state \notin {"abandoned", "failed"} /\ Sets(s', s, i, "returning")
               /\ s'.work = Append(s.work, Item("release", i)) /\ Item("release", i) \in Works
<1> DEFINE t == HandedBack(s, i)
<1>1. SessionType(s) /\ DOMAIN s = Fields /\ Item("release", i) \in Works
  BY ItemIs DEF TypeInv, SessionType, WorkKinds, Slots
<1>2. /\ lane' = lane /\ s.slot[i] = "held"
      /\ s' = IF s.state \in {"abandoned", "failed"} THEN Quarantined(s, i)
              ELSE Pushed(t, Item("release", i))
  BY DEF ReleaseAfterGpu
<1>3. /\ SessionType(t) /\ LifeOf(t) = LifeOf(s) /\ DemandsOf(t) = DemandsOf(s)
      /\ t.state = s.state /\ t.work = s.work /\ Sets(t, s, i, "returning")
      /\ t.ready = s.ready /\ t.reading = s.reading /\ t.retargets = s.retargets
  BY <1>1, "returning" \in {"free", "rendering", "held", "returning", "quarantined"}, WithSlot
     DEF HandedBack
<1> HIDE DEF t
<1>4. CASE s.state \in {"abandoned", "failed"}
  BY <1>1, <1>2, <1>4, QuarantinedIs
<1>5. CASE s.state \notin {"abandoned", "failed"}
  <2>1. /\ SessionType(s') /\ s'.work = Append(t.work, Item("release", i))
        /\ LifeOf(s') = LifeOf(t) /\ SlotsOf(s') = SlotsOf(t) /\ DemandsOf(s') = DemandsOf(t)
        /\ s'.state = t.state
    BY <1>1, <1>2, <1>3, <1>5, PushedIs
  <2>2. Sets(s', s, i, "returning")
    BY <1>3, <2>1 DEF Sets, SlotsOf
  <2> QED
    BY <1>1, <1>2, <1>3, <1>5, <2>1, <2>2 DEF SlotsOf
<1> QED
  BY <1>4, <1>5

LEMMA DiscardIs ==
  ASSUME TypeInv, NEW i \in Slots, Discard(i)
  PROVE  /\ lane' = lane /\ SessionType(s') /\ s'.state = s.state /\ s.slot[i] = "held"
         /\ LifeOf(s') = LifeOf(s) /\ Grown(s'.work, s.work)
         /\ s.state # "attached" => s'.work = s.work
         /\ Sets(s', s, i, "quarantined")
         /\ s'.ready = s.ready /\ s'.reading = s.reading /\ s'.retargets = s.retargets
         /\ \/ DemandsOf(s') = DemandsOf(s)
            \/ /\ s.state = "attached" /\ s'.demands = s.demands /\ s'.waiting = <<>>
               /\ Finishes(s', s, ToSet(s.waiting))
<1>1. SessionType(s) /\ s' = Quarantined(s, i) /\ lane' = lane /\ s.slot[i] = "held"
  BY DEF TypeInv, Discard
<1> QED
  BY <1>1, QuarantinedIs

LEMMA BeginViewIs ==
  ASSUME TypeInv, NEW i \in Slots, BeginView(i)
  PROVE  /\ lane' = lane /\ SessionType(s') /\ s.slot[i] = "held"
         /\ s.state = "attached" /\ ~s.disposed
         /\ LifeOf(s') = <<s.kind, s.views \union {i}, s.call, s.disposed, s.due, s.hook,
                           s.objects>>
         /\ SlotsOf(s') = SlotsOf(s) /\ DemandsOf(s') = DemandsOf(s)
         /\ s'.state = s.state /\ s'.work = s.work
<1>1. SessionType(s) /\ DOMAIN s = Fields
  BY DEF TypeInv, SessionType
<1>2. /\ s' = [s EXCEPT !.views = @ \union {i}] /\ lane' = lane /\ s.slot[i] = "held"
      /\ s.state = "attached" /\ ~s.disposed
  BY DEF BeginView
<1>3. /\ DOMAIN s' = Fields
      /\ LifeOf(s') = <<s.kind, s.views \union {i}, s.call, s.disposed, s.due, s.hook,
                        s.objects>>
      /\ SlotsOf(s') = SlotsOf(s) /\ DemandsOf(s') = DemandsOf(s)
      /\ s'.state = s.state /\ s'.work = s.work
  BY <1>1, <1>2 DEF Fields, LifeOf, SlotsOf, DemandsOf
<1>4. SessionType(s')
  BY <1>1, <1>3 DEF SessionType, LifeOf, SlotsOf, DemandsOf
<1> QED
  BY <1>2, <1>3, <1>4

LEMMA EndViewIs ==
  ASSUME TypeInv, NEW i \in Slots, EndView(i)
  PROVE  /\ SessionType(s')
         /\ LifeOf(s') = <<s.kind, s.views \ {i}, s.call, s.disposed, s.due, s.hook, s.objects>>
         /\ SlotsOf(s') = SlotsOf(s) /\ DemandsOf(s') = DemandsOf(s)
         /\ s'.state = s.state /\ s'.work = s.work
         /\ lane' = lane \/ lane' = [lane EXCEPT !.queued = @ + lane.parked, !.parked = 0]
<1> DEFINE t == [s EXCEPT !.views = @ \ {i}]
<1>1. SessionType(s) /\ DOMAIN s = Fields
  BY DEF TypeInv, SessionType
<1>2. s' = Notified(t) /\ lane' = Unparked(t)
  BY DEF EndView
<1>3. /\ DOMAIN t = Fields
      /\ LifeOf(t) = <<s.kind, s.views \ {i}, s.call, s.disposed, s.due, s.hook, s.objects>>
      /\ SlotsOf(t) = SlotsOf(s) /\ DemandsOf(t) = DemandsOf(s)
      /\ t.state = s.state /\ t.work = s.work
  BY <1>1 DEF Fields, LifeOf, SlotsOf, DemandsOf
<1> HIDE DEF t
<1>4. SessionType(t)
  BY <1>1, <1>3 DEF SessionType, LifeOf, SlotsOf, DemandsOf
<1>5. DOMAIN s' = Fields /\ PartsOf(s') = PartsOf(t)
  BY <1>2, <1>3, NotifiedIs
<1>6. SessionType(s')
  BY <1>4, <1>5, SameParts
<1> QED
  BY <1>2, <1>3, <1>5, <1>6 DEF PartsOf, Unparked

LEMMA PostTilesIs ==
  ASSUME TypeInv, PostTiles
  PROVE  /\ lane' = lane /\ SessionType(s') /\ s'.state = s.state /\ Live(s)
         /\ LifeOf(s') = LifeOf(s) /\ SlotsOf(s') = SlotsOf(s) /\ DemandsOf(s') = DemandsOf(s)
         /\ Grown(s'.work, s.work)
<1> DEFINE of == IF s.demands = <<>> THEN 0 ELSE Head(s.demands)
           t  == Pushed(s, Item("service", of))
<1>1. SessionType(s) /\ s.demands \in Seq(Nat) /\ s.work \in Seq(Works)
  BY DEF TypeInv, SessionType
<1>2. of \in Nat
  BY <1>1
<1>3. s' = [t EXCEPT !.serviced = TRUE] /\ lane' = lane /\ Live(s)
  BY DEF PostTiles
<1> HIDE DEF of
<1>4. Item("service", of) \in Works /\ Item("service", of).kind \in Harmless
  BY <1>2, FrameIs
<1>5. /\ SessionType(t) /\ t.work = Append(s.work, Item("service", of))
      /\ LifeOf(t) = LifeOf(s) /\ SlotsOf(t) = SlotsOf(s)
      /\ DemandsOf(t) = DemandsOf(s) /\ t.state = s.state
  BY <1>1, <1>4, PushedIs
<1> HIDE DEF t
<1>6. DOMAIN t = Fields
  BY <1>5 DEF SessionType
<1>7. DOMAIN s' = Fields /\ PartsOf(s') = PartsOf(t)
  BY <1>3, <1>6 DEF Fields, PartsOf, LifeOf, SlotsOf, DemandsOf
<1>8. SessionType(s')
  BY <1>5, <1>7, SameParts
<1>9. Grown(t.work, s.work)
  BY <1>1, <1>4, <1>5 DEF Grown
<1> QED
  BY <1>3, <1>5, <1>7, <1>8, <1>9 DEF PartsOf
-----------------------------------------------------------------------------
(* Abandon, disposal, the lane and the map.                                *)
Abandons(u, t) ==
  /\ SessionType(u) /\ LifeOf(u) = LifeOf(t) /\ u.state = "abandoned"
  /\ u.demands = <<>> /\ u.waiting = <<>>
  /\ Finishes(u, t, IF t.disposed THEN {} ELSE ToSet(t.demands \o t.waiting))
  /\ u.work = <<>> /\ Cuts(u, t, "quarantined")
  /\ u.ready = t.ready /\ u.retargets = t.retargets /\ u.reading = t.reading

LEMMA AbandonIs ==
  ASSUME TypeInv, Abandon
  PROVE  /\ lane' = lane /\ disposer' = disposer /\ abandoner = "idle" /\ Abandonable(s)
         /\ \/ ~s.call /\ Abandons(s', s) /\ abandoner' = "retiring"
            \/ SessionType(s') /\ PartsOf(s') = PartsOf(s) /\ abandoner' = "waiting"
<1>1. SessionType(s) /\ DOMAIN s = Fields
  BY DEF TypeInv, SessionType
<1>2. /\ lane' = lane /\ disposer' = disposer /\ abandoner = "idle" /\ Abandonable(s)
      /\ \/ ~s.call /\ s' = Abandoned(s) /\ abandoner' = "retiring"
         \/ s' = [s EXCEPT !.waiters = @ + 1] /\ abandoner' = "waiting"
  BY DEF Abandon
<1>3. CASE ~s.call /\ s' = Abandoned(s) /\ abandoner' = "retiring"
  <2>1. Abandons(s', s)
    BY <1>1, <1>3, AbandonedIs DEF Abandons
  <2> QED
    BY <1>2, <1>3, <2>1
<1>4. CASE s' = [s EXCEPT !.waiters = @ + 1] /\ abandoner' = "waiting"
  <2>1. DOMAIN s' = Fields /\ PartsOf(s') = PartsOf(s)
    BY <1>1, <1>4 DEF Fields, PartsOf, LifeOf, SlotsOf, DemandsOf
  <2>2. SessionType(s')
    BY <1>1, <2>1, SameParts
  <2> QED
    BY <1>2, <1>4, <2>1, <2>2
<1> QED
  BY <1>2, <1>3, <1>4

LEMMA AbandonAfterCallIs ==
  ASSUME TypeInv, AbandonAfterCall
  PROVE  /\ lane' = lane /\ disposer' = disposer /\ abandoner = "waiting" /\ ~s.call
         /\ \/ Abandonable(s) /\ Abandons(s', s) /\ abandoner' = "retiring"
            \/ SessionType(s') /\ PartsOf(s') = PartsOf(s) /\ abandoner' = "idle"
<1> DEFINE v == [s EXCEPT !.waiters = @ - 1]
           t == Notified(v)
<1>1. SessionType(s) /\ DOMAIN s = Fields
  BY DEF TypeInv, SessionType
<1>2. DOMAIN v = Fields /\ PartsOf(v) = PartsOf(s)
  BY <1>1 DEF Fields, PartsOf, LifeOf, SlotsOf, DemandsOf
<1>3. /\ lane' = lane /\ disposer' = disposer /\ abandoner = "waiting" /\ ~s.call
      /\ \/ Abandonable(s) /\ s' = Abandoned(t) /\ abandoner' = "retiring"
         \/ s' = t /\ abandoner' = "idle"
  BY DEF AbandonAfterCall
<1> HIDE DEF v
<1>4. DOMAIN t = Fields /\ PartsOf(t) = PartsOf(s)
  BY <1>2, NotifiedIs
<1> HIDE DEF t
<1>5. SessionType(t)
  BY <1>1, <1>4, SameParts
<1>6. CASE Abandonable(s) /\ s' = Abandoned(t) /\ abandoner' = "retiring"
  <2>1. Abandons(s', t)
    BY <1>5, <1>6, AbandonedIs DEF Abandons
  <2>2. Cancelled(t) = Cancelled(s)
    BY <1>4 DEF Cancelled, PartsOf
  <2>3. /\ LifeOf(t) = LifeOf(s) /\ t.slot = s.slot /\ t.ready = s.ready
        /\ t.reading = s.reading /\ t.retargets = s.retargets /\ t.disposed = s.disposed
    BY <1>4 DEF PartsOf, SlotsOf, LifeOf
  <2>4. /\ t.demands = s.demands /\ t.waiting = s.waiting /\ t.log = s.log
        /\ t.barriers = s.barriers /\ t.passed = s.passed
    BY <1>4 DEF PartsOf, DemandsOf
  <2>5. Abandons(s', s)
    BY <2>1, <2>2, <2>3, <2>4 DEF Abandons, Cuts, Finishes
  <2> QED
    BY <1>3, <1>6, <2>5
<1>7. CASE s' = t /\ abandoner' = "idle"
  BY <1>3, <1>4, <1>5, <1>7
<1> QED
  BY <1>3, <1>6, <1>7

LEMMA RetireGraphicsIs ==
  ASSUME TypeInv, RetireGraphics
  PROVE  /\ lane' = lane /\ disposer' = disposer
         /\ abandoner = "retiring" /\ abandoner' = "idle" /\ SessionType(s')
         /\ LifeOf(s') = <<s.kind, s.views, s.call, s.disposed, s.due, FALSE, FALSE>>
         /\ SlotsOf(s') = SlotsOf(s) /\ DemandsOf(s') = DemandsOf(s)
         /\ s'.state = s.state /\ s'.work = s.work
BY RetiredIs DEF RetireGraphics, TypeInv

LEMMA DisposeIs ==
  ASSUME TypeInv, NEW mode, Dispose(mode)
  PROVE  /\ ~s.disposed /\ abandoner' = abandoner /\ SessionType(s')
         /\ SlotsOf(s') = SlotsOf(s) /\ DemandsOf(s') = DemandsOf(s)
         /\ s'.state = s.state /\ s'.work = s.work
         /\ \/ /\ LifeOf(s') = <<s.kind, s.views, s.call, TRUE, TRUE, s.hook, s.objects>>
               /\ lane' = lane
               /\ disposer' = IF s.kind = "caller" THEN "hooking" ELSE "idle"
            \/ /\ LifeOf(s') = <<s.kind, s.views, s.call, TRUE, s.due, s.hook, s.objects>>
               /\ lane' = Submitted /\ disposer' = disposer
<1> DEFINE t == [s EXCEPT !.disposed = TRUE]
           u == [t EXCEPT !.due = TRUE]
           v == [t EXCEPT !.invalid = TRUE, !.stop = TRUE]
<1>1. SessionType(s) /\ DOMAIN s = Fields
  BY DEF TypeInv, SessionType
<1>2. /\ DOMAIN u = Fields /\ SlotsOf(u) = SlotsOf(s) /\ DemandsOf(u) = DemandsOf(s)
      /\ LifeOf(u) = <<s.kind, s.views, s.call, TRUE, TRUE, s.hook, s.objects>>
      /\ u.state = s.state /\ u.work = s.work
  BY <1>1 DEF Fields, SlotsOf, LifeOf, DemandsOf
<1>3. /\ DOMAIN v = Fields /\ SlotsOf(v) = SlotsOf(s) /\ DemandsOf(v) = DemandsOf(s)
      /\ LifeOf(v) = <<s.kind, s.views, s.call, TRUE, s.due, s.hook, s.objects>>
      /\ v.state = s.state /\ v.work = s.work
  BY <1>1 DEF Fields, SlotsOf, LifeOf, DemandsOf
<1>4. /\ ~s.disposed /\ abandoner' = abandoner
      /\ \/ /\ s' = Told(u) /\ lane' = lane
            /\ disposer' = IF s.kind = "caller" THEN "hooking" ELSE "idle"
         \/ s' = Notified(v) /\ lane' = Submitted /\ disposer' = disposer
  BY DEF Dispose
<1> HIDE DEF u, v
<1>5. SessionType(u) /\ SessionType(v)
  BY <1>1, <1>2, <1>3 DEF SessionType, LifeOf, SlotsOf, DemandsOf
<1>6. CASE /\ s' = Told(u) /\ lane' = lane
           /\ disposer' = IF s.kind = "caller" THEN "hooking" ELSE "idle"
  <2>1. DOMAIN s' = Fields /\ PartsOf(s') = PartsOf(u)
    BY <1>2, <1>6, ToldIs
  <2>2. SessionType(s')
    BY <1>5, <2>1, SameParts
  <2> QED
    BY <1>2, <1>4, <1>6, <2>1, <2>2 DEF PartsOf
<1>7. CASE s' = Notified(v) /\ lane' = Submitted /\ disposer' = disposer
  <2>1. DOMAIN s' = Fields /\ PartsOf(s') = PartsOf(v)
    BY <1>3, <1>7, NotifiedIs
  <2>2. SessionType(s')
    BY <1>5, <2>1, SameParts
  <2> QED
    BY <1>3, <1>4, <1>7, <2>1, <2>2 DEF PartsOf
<1> QED
  BY <1>4, <1>6, <1>7

(* The disposal that no service took.                                      *)
LEMMA AbandonsUnservicedIs ==
  ASSUME NEW t, SessionType(t), AbandonsUnserviced(t)
  PROVE  /\ SessionType(s') /\ SlotsOf(s') = SlotsOf(t) /\ DemandsOf(s') = DemandsOf(t)
         /\ s'.state = t.state /\ s'.work = t.work
         /\ \/ ~t.due /\ LifeOf(s') = LifeOf(t) /\ lane' = lane
            \/ /\ t.due /\ lane' = Submitted
               /\ LifeOf(s') = <<t.kind, t.views, t.call, t.disposed, FALSE, t.hook, t.objects>>
<1>1. DOMAIN t = Fields
  BY DEF SessionType
<1>2. CASE ~t.due
  BY <1>2 DEF AbandonsUnserviced, Unserviced
<1>3. CASE t.due
  <2>1. s' = [t EXCEPT !.due = FALSE, !.invalid = TRUE, !.stop = TRUE] /\ lane' = Submitted
    BY <1>3 DEF AbandonsUnserviced, Unserviced
  <2>2. /\ DOMAIN s' = Fields /\ SlotsOf(s') = SlotsOf(t) /\ DemandsOf(s') = DemandsOf(t)
        /\ LifeOf(s') = <<t.kind, t.views, t.call, t.disposed, FALSE, t.hook, t.objects>>
        /\ s'.state = t.state /\ s'.work = t.work
    BY <1>1, <2>1 DEF Fields, SlotsOf, LifeOf, DemandsOf
  <2>3. SessionType(s')
    BY <2>2 DEF SessionType, LifeOf, SlotsOf, DemandsOf
  <2> QED
    BY <1>3, <2>1, <2>2, <2>3
<1> QED
  BY <1>2, <1>3

LEMMA HookCloseIs ==
  ASSUME TypeInv, HookClose
  PROVE  /\ disposer = "hooking" /\ disposer' = "idle" /\ abandoner' = abandoner
         /\ SessionType(s') /\ SlotsOf(s') = SlotsOf(s) /\ DemandsOf(s') = DemandsOf(s)
         /\ s'.state = s.state /\ s'.work = s.work
         /\ \/ /\ lane' = lane
               /\ LifeOf(s') = <<s.kind, s.views, s.call, s.disposed, s.due, TRUE, s.objects>>
            \/ ~s.due /\ LifeOf(s') = LifeOf(s) /\ lane' = lane
            \/ /\ s.due /\ lane' = Submitted
               /\ LifeOf(s') = <<s.kind, s.views, s.call, s.disposed, FALSE, s.hook, s.objects>>
<1>1. SessionType(s) /\ DOMAIN s = Fields
  BY DEF TypeInv, SessionType
<1>2. /\ disposer = "hooking" /\ disposer' = "idle" /\ abandoner' = abandoner
      /\ \/ s' = [s EXCEPT !.hook = TRUE] /\ lane' = lane
         \/ AbandonsUnserviced(s)
  BY DEF HookClose
<1>3. CASE s' = [s EXCEPT !.hook = TRUE] /\ lane' = lane
  <2>1. /\ DOMAIN s' = Fields /\ SlotsOf(s') = SlotsOf(s) /\ DemandsOf(s') = DemandsOf(s)
        /\ LifeOf(s') = <<s.kind, s.views, s.call, s.disposed, s.due, TRUE, s.objects>>
        /\ s'.state = s.state /\ s'.work = s.work
    BY <1>1, <1>3 DEF Fields, SlotsOf, LifeOf, DemandsOf
  <2>2. SessionType(s')
    BY <1>1, <2>1 DEF SessionType, LifeOf, SlotsOf, DemandsOf
  <2> QED
    BY <1>2, <1>3, <2>1, <2>2
<1>4. CASE AbandonsUnserviced(s)
  BY <1>1, <1>2, <1>4, AbandonsUnservicedIs
<1> QED
  BY <1>2, <1>3, <1>4

LEMMA CloseMapIs ==
  ASSUME TypeInv, CloseMap
  PROVE  /\ SessionType(s') /\ SlotsOf(s') = SlotsOf(s) /\ DemandsOf(s') = DemandsOf(s)
         /\ s'.state = s.state /\ s'.work = s.work /\ map' = [map EXCEPT !.closed = TRUE]
         /\ \/ LifeOf(s') = LifeOf(s) /\ lane' = lane
            \/ /\ lane' = lane
               /\ LifeOf(s') = <<s.kind, s.views, s.call, s.disposed, s.due, FALSE, s.objects>>
            \/ /\ s.due /\ s.hook /\ lane' = Submitted
               /\ LifeOf(s') = <<s.kind, s.views, s.call, s.disposed, FALSE, FALSE, s.objects>>
<1> DEFINE t == [s EXCEPT !.hook = FALSE]
<1>1. SessionType(s) /\ DOMAIN s = Fields
  BY DEF TypeInv, SessionType
<1>2. /\ map' = [map EXCEPT !.closed = TRUE]
      /\ (s.hook /\ AbandonsUnserviced(t)) \/ (s' = s /\ lane' = lane)
  BY DEF CloseMap
<1>3. /\ DOMAIN t = Fields /\ SlotsOf(t) = SlotsOf(s) /\ DemandsOf(t) = DemandsOf(s)
      /\ LifeOf(t) = <<s.kind, s.views, s.call, s.disposed, s.due, FALSE, s.objects>>
      /\ t.state = s.state /\ t.work = s.work
  BY <1>1 DEF Fields, SlotsOf, LifeOf, DemandsOf
<1> HIDE DEF t
<1>4. SessionType(t)
  BY <1>1, <1>3 DEF SessionType, LifeOf, SlotsOf, DemandsOf
<1>5. CASE s' = s /\ lane' = lane
  BY <1>1, <1>2, <1>5
<1>6. CASE s.hook /\ AbandonsUnserviced(t)
  <2>1. /\ SessionType(s') /\ SlotsOf(s') = SlotsOf(t) /\ DemandsOf(s') = DemandsOf(t)
        /\ s'.state = t.state /\ s'.work = t.work
        /\ \/ ~t.due /\ LifeOf(s') = LifeOf(t) /\ lane' = lane
           \/ /\ t.due /\ lane' = Submitted
              /\ LifeOf(s') = <<t.kind, t.views, t.call, t.disposed, FALSE, t.hook, t.objects>>
    BY <1>4, <1>6, AbandonsUnservicedIs
  <2>2. /\ t.kind = s.kind /\ t.views = s.views /\ t.call = s.call /\ t.disposed = s.disposed
        /\ t.due = s.due /\ t.hook = FALSE /\ t.objects = s.objects
    BY <1>3 DEF LifeOf
  <2> QED
    BY <1>2, <1>3, <1>6, <2>1, <2>2
<1> QED
  BY <1>2, <1>5, <1>6

LEMMA LaneGoesIs ==
  ASSUME TypeInv, NEW at, LaneGoes(at)
  PROVE  lane'.at = at /\ lane'.queued = lane.queued /\ lane'.parked = lane.parked
BY DEF LaneGoes, TypeInv, Lanes

LEMMA LaneAbandonsIs ==
  ASSUME TypeInv, LaneAbandons
  PROVE  /\ lane.at = "abandon"
         /\ \/ (s.views # {} \/ Over(s) \/ s.call) /\ LaneGoes("destroy") /\ s' = s
            \/ /\ ~(s.views # {} \/ Over(s) \/ s.call)
               /\ Abandons(s', s) /\ LaneGoes("retire")
BY AbandonedIs DEF LaneAbandons, Abandons, TypeInv

LEMMA LaneRetiresIs ==
  ASSUME TypeInv, LaneRetires
  PROVE  /\ lane.at = "retire" /\ LaneGoes("destroy") /\ SessionType(s')
         /\ LifeOf(s') = <<s.kind, s.views, s.call, s.disposed, s.due, FALSE, FALSE>>
         /\ SlotsOf(s') = SlotsOf(s) /\ DemandsOf(s') = DemandsOf(s)
         /\ s'.state = s.state /\ s'.work = s.work
BY RetiredIs DEF LaneRetires, TypeInv

LEMMA LaneDestroysIs ==
  ASSUME TypeInv, LaneDestroys
  PROVE  /\ lane.at = "destroy" /\ SessionType(s') /\ PartsOf(s') = PartsOf(s)
         /\ \/ Over(s) /\ LaneGoes("reap")
            \/ /\ LaneGoes("refused")
               /\ ~(s.state = "detached" /\ Held(s) = {})
               /\ ~(s.state = "abandoned" /\ s.views = {})
<1> DEFINE t == [s EXCEPT !.stop = TRUE, !.open = FALSE]
<1>1. SessionType(s) /\ DOMAIN s = Fields
  BY DEF TypeInv, SessionType
<1>2. /\ lane.at = "destroy"
      /\ \/ Over(s) /\ s' = Notified(t) /\ LaneGoes("reap")
         \/ /\ s' = s /\ LaneGoes("refused") /\ ~(s.state = "detached" /\ Held(s) = {})
            /\ ~(s.state = "abandoned" /\ s.views = {})
  BY DEF LaneDestroys, Over
<1>3. DOMAIN t = Fields /\ PartsOf(t) = PartsOf(s)
  BY <1>1 DEF Fields, PartsOf, LifeOf, SlotsOf, DemandsOf
<1> HIDE DEF t
<1>4. DOMAIN Notified(t) = Fields /\ PartsOf(Notified(t)) = PartsOf(s)
  BY <1>3, NotifiedIs
<1>5. SessionType(Notified(t))
  BY <1>1, <1>4, SameParts
<1> QED
  BY <1>1, <1>2, <1>4, <1>5

(* What the map's worker does to the session leaves its parts, except that *)
(* an update resumes those that wait for it.                               *)
LEMMA AnnounceIs ==
  ASSUME TypeInv, Announce
  PROVE  /\ lane' = lane /\ map' = [map EXCEPT !.announce = FALSE]
         /\ SessionType(s') /\ Grown(s'.work, s.work) /\ LifeOf(s') = LifeOf(s)
         /\ SlotsOf(s') = SlotsOf(s) /\ s'.state = s.state
         /\ DemandsOf(s') = <<s.waiting \o s.demands, <<>>, s.log, s.barriers, s.passed>>
         /\ s.waiting = <<>> => s'.work = s.work
<1> DEFINE changes == s.changes \/ map.update # s.drawn
           t == [s EXCEPT !.changes = changes]
<1>1. SessionType(s) /\ DOMAIN s = Fields
  BY DEF TypeInv, SessionType
<1>2. /\ lane' = lane /\ map' = [map EXCEPT !.announce = FALSE] /\ s' = ResumeWaiting(t)
  BY <1>1 DEF Announce, Fields
<1> HIDE DEF changes
<1>3. DOMAIN t = Fields /\ PartsOf(t) = PartsOf(s)
  BY <1>1 DEF Fields, PartsOf, LifeOf, SlotsOf, DemandsOf
<1> HIDE DEF t
<1>4. SessionType(t)
  BY <1>1, <1>3, SameParts
<1>5. /\ SessionType(s') /\ Grown(s'.work, t.work) /\ LifeOf(s') = LifeOf(t)
      /\ SlotsOf(s') = SlotsOf(t) /\ s'.state = t.state
      /\ s'.demands = t.waiting \o t.demands /\ s'.waiting = <<>> /\ s'.log = t.log
      /\ s'.barriers = t.barriers /\ s'.passed = t.passed
      /\ t.waiting = <<>> => s'.work = t.work
  BY <1>2, <1>4, ResumeWaitingIs
<1> QED
  BY <1>2, <1>3, <1>5 DEF PartsOf, DemandsOf

LEMMA MapWorkIs ==
  ASSUME TypeInv,
         CreateMap \/ SendCommand \/ RunCommand \/ CountCommand \/ SkipNotice \/ SendNotice
           \/ NoticeCommands \/ StoreUpdate
  PROVE  SessionType(s') /\ PartsOf(s') = PartsOf(s) /\ lane' = lane
<1>1. SessionType(s) /\ DOMAIN s = Fields
  BY DEF TypeInv, SessionType
<1>2. ASSUME NEW t, DOMAIN t = Fields, PartsOf(t) = PartsOf(s), s' = Published(t)
      PROVE  SessionType(s') /\ PartsOf(s') = PartsOf(s)
  <2>1. DOMAIN s' = Fields /\ PartsOf(s') = PartsOf(s)
    BY <1>2, PublishedIs
  <2> QED
    BY <1>1, <2>1, SameParts
<1>3. CASE CreateMap
  <2>1. PICK created : s' = Published([s EXCEPT !.created = created]) /\ lane' = lane
    BY <1>3 DEF CreateMap
  <2> DEFINE t == [s EXCEPT !.created = created]
  <2>2. DOMAIN t = Fields /\ PartsOf(t) = PartsOf(s)
    BY <1>1 DEF Fields, PartsOf, LifeOf, SlotsOf, DemandsOf
  <2> QED
    BY <1>2, <2>1, <2>2
<1>4. CASE NoticeCommands
  <2> DEFINE t == [s EXCEPT !.awaited = FALSE]
  <2>1. lane' = lane /\ s' = IF s.state = "attached" THEN Published(t) ELSE s
    BY <1>4 DEF NoticeCommands
  <2>2. DOMAIN t = Fields /\ PartsOf(t) = PartsOf(s)
    BY <1>1 DEF Fields, PartsOf, LifeOf, SlotsOf, DemandsOf
  <2> HIDE DEF t
  <2> QED
    BY <1>1, <1>2, <2>1, <2>2
<1>5. CASE SendCommand \/ RunCommand \/ CountCommand \/ SkipNotice \/ SendNotice \/ StoreUpdate
  BY <1>1, <1>5 DEF SendCommand, RunCommand, CountCommand, SkipNotice, SendNotice, StoreUpdate
<1> QED
  BY <1>3, <1>4, <1>5
-----------------------------------------------------------------------------
(* The type invariant.                                                     *)
LEMMA LaneKept ==
  ASSUME TypeInv,
         \/ lane' = lane
         \/ lane' = Submitted
         \/ lane' = [lane EXCEPT !.queued = @ + lane.parked, !.parked = 0]
  PROVE  lane' \in Lanes
<1>1. lane \in Lanes /\ lane.queued \in Nat /\ lane.parked \in Nat
  BY DEF TypeInv, Lanes
<1>2. CASE lane' = lane
  BY <1>1, <1>2
<1>3. CASE lane' = Submitted
  BY <1>1, <1>3 DEF Lanes, Submitted
<1>4. CASE lane' = [lane EXCEPT !.queued = @ + lane.parked, !.parked = 0]
  <2>1. lane.queued + lane.parked \in Nat
    BY <1>1
  <2> QED
    BY <1>1, <1>4, <2>1 DEF Lanes
<1> QED
  BY <1>2, <1>3, <1>4

LEMMA TypeByDriver ==
  ASSUME TypeInv, StateInv, DriverStep
  PROVE  TypeInv'
<1> DEFINE Turns == /\ SessionType(s') /\ driver' \in Drivers /\ lane' \in Lanes
                    /\ driver'.at \in {"render", "draw", "publish"} => driver'.slot # 0
<1>1. SessionType(s) /\ driver \in Drivers /\ lane \in Lanes /\ map \in Maps
  BY DEF TypeInv
<1>2. UNCHANGED <<map, abandoner, disposer>>
  BY DEF DriverStep
<1>3. Ends => /\ driver' \in Drivers
              /\ driver'.at \notin {"render", "draw", "publish"}
  BY EndsIs
<1>4. Turns
  <2>1. CASE CoreWaits
    BY <1>1, <2>1, CoreWaitsIs DEF CoreWaits, TypeInv
  <2>2. CASE CoreDisposes
    BY <1>1, <2>2, CoreDisposesIs
  <2>3. CASE CoreTakes \/ LoopTakes
    BY <1>1, <2>3, TakesIs
  <2>4. CASE CoreAsks
    BY <1>1, <2>4, CoreAsksIs
  <2>5. CASE CoreStops
    BY <1>1, <2>5, CoreStopsIs
  <2>6. CASE Service
    BY <1>1, <2>6, ServiceIs
  <2>7. CASE LoopDisposes
    BY <1>1, <2>7, LoopDisposesIs
  <2>8. CASE LoopEnds
    BY <1>1, <2>8, LoopEndsIs
  <2>9. CASE EndCall
    BY <1>1, <2>9, EndCallIs, LaneKept
  <2>10. CASE Attach
    BY <1>1, <1>3, <2>10, AttachIs DEF Fails
  <2>11. CASE RunBarrier
    BY <1>1, <1>3, <2>11, RunBarrierIs
  <2>12. CASE RunRelease
    BY <1>1, <1>3, <2>12, RunReleaseIs
  <2>13. CASE RunUntarget \/ RunRetarget
    BY <1>1, <1>3, <2>13, ChangeIs
  <2>14. CASE FreeGraphics
    BY <1>1, <2>14, FreeGraphicsIs
  <2>15. CASE FinishDetach
    BY <1>1, <1>3, <2>15, FinishDetachIs
  <2>16. CASE BeginDisposal
    BY <1>1, <2>16, BeginDisposalIs
  <2>17. CASE HandOver
    BY <1>1, <2>17, HandOverIs, LaneKept DEF Submitted
  <2>18. CASE TakeDemand
    BY <1>1, <1>3, <2>18, TakeDemandIs
  <2>19. CASE EndEarly
    BY <1>1, <1>3, <2>19, EndEarlyIs DEF EndsWith
  <2>20. CASE PickSlot
    <3>1. /\ lane' = lane
          /\ \/ EndsWith(s', s, Nothing) /\ Ends
             \/ SessionType(s') /\ Ends
             \/ \E i \in Slots : /\ SessionType(s') /\ driver' \in Drivers
                                /\ driver'.at = "render" /\ driver'.slot = i
      BY <2>20, PickSlotIs
    <3>2. \A i \in Slots : i # 0
      BY DEF Slots
    <3> QED
      BY <1>1, <1>3, <3>1, <3>2 DEF EndsWith
  <2>21. CASE Select
    BY <1>1, <2>21, SelectIs DEF TypeInv
  <2>22. CASE Draw
    BY <1>1, <1>3, <2>22, DrawIs DEF TypeInv, EndsWith
  <2>23. CASE Publish
    BY <1>1, <1>3, <2>23, PublishIs DEF EndsWith
  <2>24. CASE WaitForUpdate
    BY <1>1, <1>3, <2>24, WaitForUpdateIs
  <2> QED
    BY <2>1, <2>2, <2>3, <2>4, <2>5, <2>6, <2>7, <2>8, <2>9, <2>10, <2>11, <2>12, <2>13, <2>14,
       <2>15, <2>16, <2>17, <2>18, <2>19, <2>20, <2>21, <2>22, <2>23, <2>24
       DEF DriverStep
<1> QED
  BY <1>2, <1>4 DEF TypeInv

LEMMA TypeByOthers ==
  ASSUME TypeInv, StateInv,
         GpuStep \/ HostStep \/ ViewStep \/ EndingStep \/ EndingGoesOn \/ LaneStep
  PROVE  TypeInv'
<1>1. SessionType(s) /\ driver \in Drivers /\ lane \in Lanes /\ map \in Maps
  BY DEF TypeInv
<1>2. CASE GpuStep
  BY <1>1, <1>2, GpuDoneIs DEF GpuStep, TypeInv
<1>3. CASE HostStep
  <2>1. UNCHANGED <<map, driver, abandoner, disposer>>
    BY <1>3 DEF HostStep
  <2>2. SessionType(s') /\ lane' = lane
    <3>1. CASE \E policy \in Policies : Demand(policy)
      BY <3>1, DemandIs
    <3>2. CASE Barrier \/ Detach \/ Untarget \/ Retarget \/ Acquire \/ PostTiles
      BY <3>2, BarrierIs, DetachIs, AsksChangeIs, AcquireIs, PostTilesIs
    <3>3. CASE \E i \in Slots :
                 ReleaseFrame(i) \/ ReleaseAfterGpu(i) \/ Discard(i) \/ BeginView(i)
      BY <3>3, ReleaseFrameIs, ReleaseAfterGpuIs, DiscardIs, BeginViewIs
    <3> QED
      BY <1>3, <3>1, <3>2, <3>3 DEF HostStep
  <2> QED
    BY <1>1, <2>1, <2>2 DEF TypeInv
<1>4. CASE ViewStep
  <2>1. PICK i \in Slots : EndView(i)
    BY <1>4 DEF ViewStep
  <2>2. UNCHANGED <<map, driver, abandoner, disposer>>
    BY <1>4 DEF ViewStep
  <2>3. SessionType(s') /\ lane' \in Lanes
    BY <2>1, EndViewIs, LaneKept
  <2> QED
    BY <1>1, <2>2, <2>3 DEF TypeInv
<1>5. CASE EndingStep
  <2>1. UNCHANGED <<map, driver>>
    BY <1>5 DEF EndingStep
  <2>2. CASE Abandon
    BY <1>1, <2>1, <2>2, AbandonIs DEF Abandons, TypeInv
  <2>3. CASE \E mode \in {"release", "dispose", "quarantine"} : Dispose(mode)
    <3>1. PICK mode : Dispose(mode)
      BY <2>3
    <3>2. /\ SessionType(s') /\ abandoner' = abandoner /\ lane' \in Lanes
          /\ disposer' \in {"hooking", "idle", disposer}
      BY <1>1, <3>1, DisposeIs, LaneKept
    <3> QED
      BY <1>1, <2>1, <3>2 DEF TypeInv
  <2> QED
    BY <1>5, <2>2, <2>3 DEF EndingStep
<1>6. CASE EndingGoesOn
  <2>1. UNCHANGED <<map, driver>>
    BY <1>6 DEF EndingGoesOn
  <2>2. CASE AbandonAfterCall
    BY <1>1, <2>1, <2>2, AbandonAfterCallIs DEF Abandons, TypeInv
  <2>3. CASE RetireGraphics
    BY <1>1, <2>1, <2>3, RetireGraphicsIs DEF TypeInv
  <2>4. CASE HookClose
    <3>1. SessionType(s') /\ abandoner' = abandoner /\ lane' \in Lanes /\ disposer' = "idle"
      BY <1>1, <2>4, HookCloseIs, LaneKept
    <3> QED
      BY <1>1, <2>1, <3>1 DEF TypeInv
  <2> QED
    BY <1>6, <2>2, <2>3, <2>4 DEF EndingGoesOn
<1>7. CASE LaneStep
  <2>1. UNCHANGED <<map, driver, abandoner, disposer>>
    BY <1>7 DEF LaneStep
  <2>2. ASSUME NEW at \in {"abandon", "retire", "destroy", "refused", "reap", "done"},
               LaneGoes(at)
        PROVE  lane' \in Lanes
    BY <1>1, <2>2 DEF LaneGoes, Lanes
  <2>3. SessionType(s') /\ lane' \in Lanes
    <3>1. CASE LaneTakes
      <4>1. lane.queued - 1 \in Nat /\ lane.parked + 1 \in Nat
        BY <1>1, <3>1 DEF LaneTakes, Lanes
      <4> QED
        BY <1>1, <3>1, <4>1 DEF LaneTakes, Lanes
    <3>2. CASE LaneAbandons
      BY <1>1, <2>2, <3>2, LaneAbandonsIs DEF Abandons
    <3>3. CASE LaneRetires
      BY <2>2, <3>3, LaneRetiresIs
    <3>4. CASE LaneDestroys
      BY <2>2, <3>4, LaneDestroysIs
    <3>5. CASE LaneReaps
      BY <1>1, <2>2, <3>5 DEF LaneReaps
    <3> QED
      BY <1>7, <3>1, <3>2, <3>3, <3>4, <3>5 DEF LaneStep
  <2> QED
    BY <1>1, <2>1, <2>3 DEF TypeInv
<1> QED
  BY <1>2, <1>3, <1>4, <1>5, <1>6, <1>7

LEMMA TypeByMap ==
  ASSUME TypeInv, MapWork \/ MapStep
  PROVE  TypeInv'
<1>1. SessionType(s) /\ driver \in Drivers /\ lane \in Lanes /\ map \in Maps
  BY DEF TypeInv
<1>2. UNCHANGED <<driver, abandoner, disposer>>
  BY DEF MapWork, MapStep
<1>3. SessionType(s') /\ lane' \in Lanes
  <2>1. CASE CreateMap \/ SendCommand \/ RunCommand \/ CountCommand \/ SkipNotice \/ SendNotice
               \/ NoticeCommands \/ StoreUpdate
    BY <1>1, <2>1, MapWorkIs
  <2>2. CASE Announce
    BY <1>1, <2>2, AnnounceIs
  <2>3. CASE CloseMap
    BY <1>1, <2>3, CloseMapIs, LaneKept
  <2> QED
    BY <2>1, <2>2, <2>3 DEF MapWork, MapStep
<1>4. map' \in Maps
  <2>9. map.sent + 1 \in Nat /\ map.applied + 1 \in Nat /\ map.update + 1 \in Nat
    BY <1>1 DEF Maps
  <2>1. CASE CreateMap
    BY <1>1, <2>1 DEF CreateMap
  <2>2. CASE SendCommand
    BY <1>1, <2>2, <2>9 DEF SendCommand, Maps
  <2>3. CASE RunCommand
    BY <1>1, <2>3, <2>9 DEF RunCommand, Maps
  <2>4. CASE CountCommand
    BY <1>1, <2>4, <2>9 DEF CountCommand, Maps
  <2>5. CASE SkipNotice \/ SendNotice \/ NoticeCommands
    BY <1>1, <2>5 DEF SkipNotice, SendNotice, NoticeCommands, Worker, Maps
  <2>6. CASE StoreUpdate
    BY <1>1, <2>6, <2>9 DEF StoreUpdate, Maps
  <2>7. CASE Announce
    BY <1>1, <2>7 DEF Announce, Maps
  <2>8. CASE CloseMap
    BY <1>1, <2>8 DEF CloseMap, Maps
  <2> QED
    BY <2>1, <2>2, <2>3, <2>4, <2>5, <2>6, <2>7, <2>8 DEF MapWork, MapStep
<1> QED
  BY <1>2, <1>3, <1>4 DEF TypeInv

LEMMA TypeStep ==
  ASSUME TypeInv, StateInv, [Next]_vars
  PROVE  TypeInv'
<1>1. CASE Next
  BY <1>1, TypeByDriver, TypeByOthers, TypeByMap DEF Next
<1>2. CASE UNCHANGED vars
  BY <1>2 DEF vars, TypeInv
<1> QED
  BY <1>1, <1>2

LEMMA TypeInit ==
  ASSUME Init
  PROVE  TypeInv
<1>1. DOMAIN s = Fields
  BY DEF Init, Fields
<1>2. /\ s.kind \in Kinds /\ s.state = "attaching"
      /\ s.work = <<Item("attach", 0)>> /\ s.demands = <<>> /\ s.waiting = <<>>
      /\ s.log = <<>> /\ s.barriers = 0 /\ s.passed = 0 /\ s.retargets = 0
  BY DEF Init
<1>3. /\ s.slot = [i \in Slots |-> "free"] /\ s.ready = <<>> /\ s.views = {}
      /\ s.reading = {} /\ s.call = FALSE /\ s.disposed = FALSE /\ s.due = FALSE
      /\ s.hook = FALSE /\ s.objects = TRUE
  BY DEF Init
<1>4. <<Item("attach", 0)>> \in Seq(Works)
  BY ItemIs DEF WorkKinds
<1>5. s.slot \in [Slots -> {"free", "rendering", "held", "returning", "quarantined"}]
  BY <1>3
<1>6. SessionType(s)
  <2>1. <<>> \in Seq(Nat) /\ <<>> \in Seq(Entries) /\ <<>> \in Seq(Slots)
    BY EmptySeq
  <2>2. /\ s.work \in Seq(Works) /\ s.demands \in Seq(Nat) /\ s.waiting \in Seq(Nat)
        /\ s.log \in Seq(Entries)
    BY <1>2, <1>4, <2>1
  <2>3. s.kind \in {"core", "caller"} /\ s.state \in States
    BY <1>2, KindAssumption DEF States
  <2>4. s.barriers \in Int /\ s.passed \in Nat /\ s.retargets \in Int
    BY <1>2
  <2>5. /\ s.ready \in Seq(Slots) /\ s.views \subseteq Slots /\ s.reading \subseteq Slots
        /\ s.call \in BOOLEAN /\ s.disposed \in BOOLEAN /\ s.due \in BOOLEAN
        /\ s.hook \in BOOLEAN /\ s.objects \in BOOLEAN
    BY <1>3, <2>1
  <2> QED
    BY <1>1, <1>5, <2>2, <2>3, <2>4, <2>5 DEF SessionType
<1>7. driver \in Drivers /\ driver.at = "idle"
  BY DEF Init, AtRest, Drivers, Steps, NoItem
<1>8. lane \in Lanes
  BY DEF Init, Lanes
<1>9. map \in Maps
  <2>1. PICK update \in {0, 1} :
          map = [sent |-> 0, applied |-> 0, update |-> update, shows |-> 0,
                 announce |-> FALSE, at |-> "idle", closed |-> FALSE]
    BY DEF Init
  <2> QED
    BY <2>1 DEF Maps
<1> QED
  BY <1>6, <1>7, <1>8, <1>9 DEF TypeInv, Init
-----------------------------------------------------------------------------
(* The session's life.  Most steps leave it, and add at most work that     *)
(* neither attaches nor detaches.                                          *)
Adds(w, v) ==
  /\ w \in Seq(Works) /\ Len(v) <= Len(w)
  /\ \A i \in 1 .. Len(v) : w[i] = v[i]
  /\ \A i \in 1 .. Len(w) : i > Len(v) =>
       \/ w[i].kind \in Harmless
       \/ w[i].kind \notin {"attach", "detach"} /\ s.state \in {"attaching", "attached"}

Stays == driver'.at = driver.at /\ driver'.item = driver.item
Turns == /\ driver.at \in {"run", "loop"} \union Rendering /\ ~Running("detach")
         /\ driver'.at \in {"done", "loop"} \union Rendering
         /\ driver'.at \in Rendering => Live(s)

Quiet ==
  /\ LifeOf(s') = LifeOf(s) /\ s'.state = s.state /\ Adds(s'.work, s.work)
  /\ s.state \in {"abandoned", "failed"} => s'.work = s.work
  /\ Over(s) \/ s.state = "failed" => s'.demands = <<>> /\ s'.waiting = <<>>
  /\ s.state \in {"detaching", "detached"} => Held(s') = {}
  /\ lane' = lane /\ disposer' = disposer
  /\ abandoner' = "retiring" => abandoner = "retiring"

LEMMA AddsGrown ==
  ASSUME NEW v, NEW w, Grown(w, v)
  PROVE  Adds(w, v)
BY DEF Grown, Adds

LEMMA AddsOne ==
  ASSUME NEW v \in Seq(Works), NEW x \in Works, x.kind \notin {"attach", "detach"},
         s.state \in {"attaching", "attached"}
  PROVE  Adds(Append(v, x), v)
BY DEF Adds

LEMMA QuietHand ==
  ASSUME TypeInv, LifeInv, Quiet, Stays \/ Turns
  PROVE  HandInv'
<1>1. /\ s'.kind = s.kind /\ s'.disposed = s.disposed /\ s'.due = s.due /\ s'.hook = s.hook
      /\ lane' = lane /\ disposer' = disposer
  BY DEF Quiet, LifeOf
<1>2. Disposing' => Disposing /\ driver'.at = driver.at
  BY DEF Disposing, Stays, Turns, Rendering
<1>3. InLane' = InLane
  BY <1>1 DEF InLane
<1> QED
  BY <1>1, <1>2, <1>3 DEF LifeInv, HandInv

LEMMA QuietCall ==
  ASSUME TypeInv, LifeInv, Quiet, Stays \/ Turns
  PROVE  CallInv'
<1>1. /\ s'.kind = s.kind /\ s'.call = s.call /\ s'.views = s.views /\ s'.state = s.state
      /\ lane' = lane /\ (abandoner' = "retiring" => abandoner = "retiring")
  BY DEF Quiet, LifeOf
<1>2. Stays \/ (s.call /\ driver'.at \notin {"dispose", "handover"})
  BY DEF LifeInv, CallInv, Turns, Rendering
<1> QED
  BY <1>1, <1>2 DEF LifeInv, CallInv, Stays, Over

LEMMA QuietState ==
  ASSUME TypeInv, LifeInv, Quiet, Stays \/ Turns
  PROVE  StateInv' /\ EndInv'
<1>1. /\ s'.views = s.views /\ s'.state = s.state /\ s'.objects = s.objects
      /\ Adds(s'.work, s.work) /\ StateInv /\ s.work \in Seq(Works) /\ s'.work \in Seq(Works)
  BY DEF Quiet, LifeOf, TypeInv, SessionType, Adds, LifeInv
<1>2. \A i \in DOMAIN s'.work :
        \/ i \in DOMAIN s.work /\ s'.work[i] = s.work[i]
        \/ i \notin DOMAIN s.work /\ s'.work[i].kind \in Harmless
        \/ /\ i \notin DOMAIN s.work /\ s'.work[i].kind \notin {"attach", "detach"}
           /\ s.state \in {"attaching", "attached"}
  BY <1>1 DEF Adds
<1>3. "attach" \notin Harmless /\ "detach" \notin Harmless
  BY DEF Harmless
<1>4. \A i \in DOMAIN s'.work : s'.work[i].kind \in {"attach", "detach"} =>
        i \in DOMAIN s.work /\ s'.work[i] = s.work[i]
  BY <1>2, <1>3
<1>5. s.state \in {"abandoned", "failed"} =>
        /\ s'.work = <<>>
        /\ driver'.at \notin Rendering \union {"run", "disposing", "detached"}
  BY DEF LifeInv, StateInv, Quiet, Stays, Turns, Rendering, Live
<1>6. driver'.at \in Rendering => Live(s')
  BY <1>1 DEF StateInv, Stays, Turns, Live
<1>7. \/ Running("detach")' \/ driver'.at \in {"disposing", "detached"}
      => Running("detach") \/ driver.at \in {"disposing", "detached"}
  BY DEF Stays, Turns, Running, Rendering
<1>8. /\ Running("detach")' \/ driver'.at \in {"disposing", "detached"} => s'.state = "detaching"
      /\ \A i \in DOMAIN s'.work : s'.work[i].kind = "detach" => s'.state = "detaching"
  BY <1>1, <1>4, <1>7 DEF StateInv
<1>9. \A i, j \in DOMAIN s'.work :
        s'.work[i].kind = "detach" /\ i < j => s'.work[j].kind \in Harmless
  <2> SUFFICES ASSUME NEW i \in DOMAIN s'.work, NEW j \in DOMAIN s'.work,
                      s'.work[i].kind = "detach", i < j
               PROVE  s'.work[j].kind \in Harmless
    OBVIOUS
  <2>1. i \in DOMAIN s.work /\ s'.work[i] = s.work[i]
    BY <1>4
  <2>2. s.state = "detaching"
    BY <1>1, <2>1 DEF StateInv
  <2> QED
    BY <1>1, <1>2, <2>1, <2>2 DEF StateInv
<1>10. Running("detach")' \/ driver'.at \in {"disposing", "detached"} \/ s'.state = "detached" =>
         \A i \in DOMAIN s'.work : s'.work[i].kind \in Harmless
  BY <1>1, <1>2, <1>7 DEF StateInv
<1>11. /\ driver'.at = "run" /\ s'.state = "detached" => driver'.item.kind \in Harmless
       /\ driver'.at = "run" => driver'.item \in Works
       /\ Running("attach")' => s'.state = "attaching" /\ Running("attach")
  BY <1>1 DEF StateInv, Stays, Turns, Running, Rendering
<1>12. \A i \in DOMAIN s'.work : s'.work[i].kind = "attach" =>
         i = 1 /\ s'.state = "attaching" /\ ~Running("attach")'
  BY <1>1, <1>4, <1>11 DEF StateInv
<1>13. /\ s'.state \in {"detaching", "detached", "abandoned"} => s'.views = {}
       /\ s'.state \in {"detaching", "detached"} => Held(s') = {}
  BY <1>1 DEF StateInv, Quiet
<1>14. ~s'.objects => s'.state \in {"detached", "abandoned"} \/ driver'.at = "detached"
  BY <1>1 DEF StateInv, Stays, Turns, Rendering
<1>15. (driver'.at = "run" /\ s'.state = "detached") => driver'.item.kind \in Harmless
  BY <1>11
<1>16. EndInv'
  BY <1>1 DEF EndInv, Quiet, Over
<1>17. s'.state \in {"abandoned", "failed"} =>
         /\ s'.work = <<>>
         /\ driver'.at \notin Rendering \union {"run", "disposing", "detached"}
  BY <1>1, <1>5
<1> QED
  BY <1>6, <1>8, <1>9, <1>10, <1>11, <1>12, <1>13, <1>14, <1>15, <1>16, <1>17 DEF StateInv

LEMMA LifeQuiet ==
  ASSUME TypeInv, LifeInv, Quiet, Stays \/ Turns
  PROVE  LifeInv'
BY QuietHand, QuietCall, QuietState DEF LifeInv

(* A session that fails, is abandoned, or is retired.                      *)
LEMMA LifeFails ==
  ASSUME TypeInv, LifeInv, LifeOf(s') = LifeOf(s),
         s.state \notin {"failed", "abandoned", "detached"}, s'.state = "failed",
         s'.work = <<>>, s'.demands = <<>>, s'.waiting = <<>>,
         driver.at \in {"run", "draw"}, ~Running("detach"), driver'.at \in {"done", "loop"},
         lane' = lane, abandoner' = abandoner, disposer' = disposer
  PROVE  LifeInv'
<1>1. /\ s'.kind = s.kind /\ s'.call = s.call /\ s'.disposed = s.disposed /\ s'.due = s.due
      /\ s'.hook = s.hook /\ s'.views = s.views /\ s'.objects = s.objects
  BY DEF LifeOf
<1>2. InLane' = InLane /\ ~Disposing'
  BY DEF InLane, Disposing
<1>3. HandInv'
  BY <1>1, <1>2 DEF LifeInv, HandInv
<1>4. CallInv'
  BY <1>1 DEF LifeInv, CallInv, Over
<1>5. s.objects
  BY DEF LifeInv, StateInv
<1>6. StateInv'
  BY <1>1, <1>5 DEF StateInv, Running, Rendering
<1> QED
  BY <1>3, <1>4, <1>6 DEF LifeInv, EndInv

LEMMA LifeAbandons ==
  ASSUME TypeInv, LifeInv, Abandons(s', s), s.views = {}, ~Over(s), ~s.call, Stays,
         lane' = lane \/ (lane.at = "abandon" /\ LaneGoes("retire")), disposer' = disposer
  PROVE  LifeInv'
<1>1. /\ s'.kind = s.kind /\ s'.call = s.call /\ s'.disposed = s.disposed /\ s'.due = s.due
      /\ s'.hook = s.hook /\ s'.views = s.views /\ s'.objects = s.objects
      /\ s'.state = "abandoned" /\ s'.work = <<>> /\ s'.demands = <<>> /\ s'.waiting = <<>>
  BY DEF Abandons, LifeOf
<1>2. InLane' = InLane
  BY DEF InLane, LaneGoes, TypeInv, Lanes
<1>3. Disposing' <=> Disposing
  BY DEF Disposing, Stays
<1>4. HandInv'
  BY <1>1, <1>2, <1>3 DEF LifeInv, HandInv, Stays
<1>5. lane'.at = lane.at \/ (lane.at = "abandon" /\ lane'.at = "retire")
  BY LaneGoesIs
<1>6. CallInv'
  BY <1>1, <1>5 DEF LifeInv, CallInv, Over, Stays
<1>7. driver.at \in {"idle", "stopped", "dispose", "handover"}
  BY DEF LifeInv, CallInv
<1>8. StateInv'
  BY <1>1, <1>7 DEF StateInv, Running, Rendering, Stays
<1> QED
  BY <1>1, <1>4, <1>6, <1>8 DEF LifeInv, EndInv

LEMMA LifeRetires ==
  ASSUME TypeInv, LifeInv, TypeInv',
         LifeOf(s') = <<s.kind, s.views, s.call, s.disposed, s.due, FALSE, FALSE>>,
         SlotsOf(s') = SlotsOf(s), DemandsOf(s') = DemandsOf(s), s'.state = s.state,
         s'.work = s.work, s.state = "abandoned", Stays, disposer' = disposer,
         \/ lane' = lane /\ abandoner' = "idle"
         \/ lane.at = "retire" /\ LaneGoes("destroy") /\ abandoner' = abandoner
  PROVE  LifeInv'
<1>1. /\ s'.kind = s.kind /\ s'.call = s.call /\ s'.disposed = s.disposed /\ s'.due = s.due
      /\ s'.hook = FALSE /\ s'.views = s.views /\ s'.objects = FALSE
  BY DEF LifeOf
<1>2. InLane' = InLane
  BY DEF InLane, LaneGoes, TypeInv, Lanes
<1>3. Disposing' <=> Disposing
  BY DEF Disposing, Stays
<1>4. HandInv'
  BY <1>1, <1>2, <1>3 DEF LifeInv, HandInv, Stays
<1>5. \/ lane'.at = lane.at /\ abandoner' = "idle"
      \/ lane.at = "retire" /\ lane'.at = "destroy" /\ abandoner' = abandoner
  BY LaneGoesIs
<1>6. CallInv'
  BY <1>1, <1>5 DEF LifeInv, CallInv, Over, Stays
<1>7. StateInv'
  BY <1>1 DEF LifeInv, StateInv, Running, Rendering, Stays, Live
<1>8. EndInv'
  BY DEF LifeInv, EndInv, DemandsOf, Over
<1> QED
  BY <1>4, <1>6, <1>7, <1>8 DEF LifeInv

(* Steps that only move the driver, a flag or a view.                      *)
Resting == {"idle", "done", "loop", "stopped", "dispose"}

LEMMA StateKept ==
  ASSUME TypeInv, LifeInv, s'.state = s.state, s'.work = s.work, SlotsOf(s') = SlotsOf(s),
         DemandsOf(s') = DemandsOf(s), s'.objects = s.objects,
         s'.views \subseteq s.views \/ s.state = "attached",
         Stays \/ (driver.at \in Resting /\ driver'.at \in Resting)
  PROVE  StateInv' /\ EndInv'
<1>1. Held(s') = Held(s) /\ (Live(s') <=> Live(s))
  BY DEF SlotsOf, Held, SlotsThat, Live
<1>2. EndInv'
  BY DEF LifeInv, EndInv, DemandsOf, Over
<1>3. \/ driver'.at = driver.at /\ driver'.item = driver.item
      \/ /\ driver.at \in {"idle", "done", "loop", "stopped", "dispose"}
         /\ driver'.at \in {"idle", "done", "loop", "stopped", "dispose"}
  BY DEF Stays, Resting
<1>4. StateInv'
  BY <1>1, <1>3 DEF LifeInv, StateInv, Running, Rendering
<1> QED
  BY <1>2, <1>4

LEMMA LifeCoreDisposes ==
  ASSUME TypeInv, LifeInv, CoreDisposes, UNCHANGED <<abandoner, disposer>>
  PROVE  LifeInv'
<1>1. /\ s' = s /\ lane' = lane /\ driver'.at = "dispose"
      /\ driver.at = "idle" /\ s.kind = "core" /\ s.due
  BY CoreDisposesIs
<1>2. HandInv'
  BY <1>1 DEF LifeInv, HandInv, InLane, Disposing
<1>3. CallInv'
  BY <1>1 DEF LifeInv, CallInv, Over
<1> QED
  BY <1>1, <1>2, <1>3, StateKept DEF LifeInv, Resting

LEMMA LaneEmpty ==
  ASSUME TypeInv, InLane = 0
  PROVE  lane.at = "idle" /\ lane.queued = 0 /\ lane.parked = 0
BY DEF InLane, TypeInv, Lanes

LEMMA LifeTakes ==
  ASSUME TypeInv, LifeInv, CoreTakes \/ LoopTakes, UNCHANGED <<abandoner, disposer>>
  PROVE  LifeInv'
<1>1. /\ s.work # <<>> /\ s'.work = Tail(s.work) /\ s'.state = s.state
      /\ LifeOf(s') = <<s.kind, s.views, TRUE, s.disposed, s.due, s.hook, s.objects>>
      /\ SlotsOf(s') = SlotsOf(s) /\ DemandsOf(s') = DemandsOf(s)
      /\ lane' = lane /\ driver'.at = "run" /\ driver'.item = Head(s.work)
      /\ driver.at \in {"idle", "loop"} /\ ~s.due
  BY TakesIs
<1>2. /\ s'.kind = s.kind /\ s'.call = TRUE /\ s'.disposed = s.disposed /\ s'.due = s.due
      /\ s'.hook = s.hook /\ s'.views = s.views /\ s'.objects = s.objects
  BY <1>1 DEF LifeOf
<1>3. s.call \/ ~s.disposed
  BY DEF CoreTakes, LoopTakes, LifeInv, CallInv
<1>4. HandInv'
  BY <1>1, <1>2 DEF LifeInv, HandInv, InLane, Disposing
<1>5. s.call \/ lane.at = "idle"
  BY <1>3, LaneEmpty DEF LifeInv, HandInv
<1>6. CallInv'
  BY <1>1, <1>2, <1>5 DEF LifeInv, CallInv, Over
<1>7. /\ Head(s.work) = s.work[1] /\ Head(s.work) \in Works /\ 1 \in DOMAIN s.work
      /\ \A i \in DOMAIN s'.work : i + 1 \in DOMAIN s.work /\ s'.work[i] = s.work[i + 1]
                                   /\ i + 1 # 1 /\ 1 < i + 1
      /\ \A i, j \in DOMAIN s'.work : i < j => i + 1 < j + 1
  <2> DEFINE q == s.work
  <2>1. q \in Seq(Works) /\ q # <<>> /\ s'.work = Tail(q)
    BY <1>1 DEF TypeInv, SessionType
  <2> HIDE DEF q
  <2>2. /\ Head(q) = q[1] /\ Head(q) \in Works /\ 1 \in DOMAIN q
        /\ \A i \in DOMAIN Tail(q) : i + 1 \in DOMAIN q /\ Tail(q)[i] = q[i + 1]
                                     /\ i + 1 # 1 /\ 1 < i + 1
        /\ \A i, j \in DOMAIN Tail(q) : i < j => i + 1 < j + 1
    BY <2>1
  <2> QED
    BY <2>1, <2>2 DEF q
<1>8. StateInv
  BY DEF LifeInv
<1>9. Held(s') = Held(s)
  BY <1>1 DEF SlotsOf, Held, SlotsThat
<1>10. s.state \notin {"abandoned", "failed"}
  BY <1>1, <1>8 DEF StateInv
<1>11. /\ Running("detach")' => Head(s.work).kind = "detach"
       /\ Running("attach")' => Head(s.work).kind = "attach"
       /\ driver'.at \notin Rendering \union {"disposing", "detached"}
  BY <1>1 DEF Running, Rendering
<1>12. Running("detach")' => s'.state = "detaching"
  BY <1>1, <1>7, <1>8, <1>11 DEF StateInv
<1>13. \A i \in DOMAIN s'.work : s'.work[i].kind = "detach" => s'.state = "detaching"
  BY <1>1, <1>7, <1>8 DEF StateInv
<1>14. \A i, j \in DOMAIN s'.work :
         s'.work[i].kind = "detach" /\ i < j => s'.work[j].kind \in Harmless
  BY <1>7, <1>8 DEF StateInv
<1>15. Running("detach")' \/ s'.state = "detached" =>
         \A i \in DOMAIN s'.work : s'.work[i].kind \in Harmless
  BY <1>1, <1>7, <1>8, <1>11 DEF StateInv
<1>16. s'.state = "detached" => driver'.item.kind \in Harmless
  BY <1>1, <1>7, <1>8 DEF StateInv
<1>17. Running("attach")' => s'.state = "attaching"
  BY <1>1, <1>7, <1>8, <1>11 DEF StateInv
<1>18. \A i \in DOMAIN s'.work : s'.work[i].kind # "attach"
  BY <1>7, <1>8 DEF StateInv
<1>19. ~s'.objects => s'.state \in {"detached", "abandoned"}
  BY <1>1, <1>2, <1>8 DEF StateInv
<1>20. StateInv'
  BY <1>1, <1>2, <1>7, <1>8, <1>9, <1>10, <1>11, <1>12, <1>13, <1>14, <1>15, <1>16, <1>17,
     <1>18, <1>19 DEF StateInv
<1>21. EndInv'
  BY <1>1, <1>10 DEF LifeInv, EndInv, DemandsOf, Over
<1> QED
  BY <1>4, <1>6, <1>20, <1>21 DEF LifeInv

(* The call of a driver begins, turns to the disposal, and ends.           *)
LEMMA LifeCalls ==
  ASSUME TypeInv, LifeInv, CoreAsks \/ Service, UNCHANGED <<abandoner, disposer>>
  PROVE  LifeInv'
<1>1. /\ SlotsOf(s') = SlotsOf(s) /\ DemandsOf(s') = DemandsOf(s)
      /\ s'.state = s.state /\ s'.work = s.work /\ lane' = lane /\ driver.at = "idle"
      /\ \/ LifeOf(s') = LifeOf(s) /\ driver' = driver
         \/ /\ LifeOf(s') = <<s.kind, s.views, TRUE, s.disposed, s.due, s.hook, s.objects>>
            /\ driver'.at \in {"done", "loop"} /\ (s.disposed => s.due)
  <2>1. CASE CoreAsks
    <3>1. ~s.disposed
      BY <2>1 DEF CoreAsks
    <3> QED
      BY <2>1, <3>1, CoreAsksIs
  <2>2. CASE Service
    BY <2>2, ServiceIs
  <2> QED
    BY <2>1, <2>2
<1>2. /\ s'.kind = s.kind /\ s'.disposed = s.disposed /\ s'.due = s.due
      /\ s'.hook = s.hook /\ s'.views = s.views /\ s'.objects = s.objects
      /\ \/ s'.call = s.call /\ driver' = driver
         \/ s'.call = TRUE /\ driver'.at \in {"done", "loop"} /\ (s.disposed => s.due)
  BY <1>1 DEF LifeOf
<1>3. HandInv'
  BY <1>1, <1>2 DEF LifeInv, HandInv, InLane, Disposing
<1>4. driver' = driver \/ lane.at = "idle"
  BY <1>2, LaneEmpty DEF LifeInv, HandInv
<1>5. CallInv'
  BY <1>1, <1>2, <1>4 DEF LifeInv, CallInv, Over
<1>6. Stays \/ (driver.at \in Resting /\ driver'.at \in Resting)
  BY <1>1 DEF Stays, Resting
<1> QED
  BY <1>1, <1>2, <1>3, <1>5, <1>6, StateKept DEF LifeInv

LEMMA LifeCoreStops ==
  ASSUME TypeInv, LifeInv, CoreStops, UNCHANGED <<abandoner, disposer>>
  PROVE  LifeInv'
<1>1. s' = s /\ lane' = lane /\ driver'.at = "stopped" /\ driver.at = "idle"
  BY CoreStopsIs
<1>2. HandInv'
  BY <1>1 DEF LifeInv, HandInv, InLane, Disposing
<1>3. CallInv'
  BY <1>1 DEF LifeInv, CallInv, Over
<1> QED
  BY <1>1, <1>2, <1>3, StateKept DEF LifeInv, Resting

LEMMA LifeLoopDisposes ==
  ASSUME TypeInv, LifeInv, LoopDisposes, UNCHANGED <<abandoner, disposer>>
  PROVE  LifeInv'
<1>1. /\ LifeOf(s') = <<s.kind, s.views, s.call, s.disposed, FALSE, s.hook, s.objects>>
      /\ SlotsOf(s') = SlotsOf(s) /\ DemandsOf(s') = DemandsOf(s)
      /\ s'.state = s.state /\ s'.work = s.work
      /\ lane' = lane /\ driver'.at = "dispose" /\ driver.at = "loop" /\ s.due
  BY LoopDisposesIs
<1>2. /\ s'.kind = s.kind /\ s'.disposed = s.disposed /\ s'.due = FALSE /\ s'.call = s.call
      /\ s'.hook = s.hook /\ s'.views = s.views /\ s'.objects = s.objects
  BY <1>1 DEF LifeOf
<1>3. HandInv'
  BY <1>1, <1>2 DEF LifeInv, HandInv, InLane, Disposing
<1>4. CallInv'
  BY <1>1, <1>2 DEF LifeInv, CallInv, Over
<1> QED
  BY <1>1, <1>2, <1>3, <1>4, StateKept DEF LifeInv, Resting

(* A parked retirement goes back to the lane.                              *)
Unparks == \/ lane' = lane
           \/ lane' = [lane EXCEPT !.queued = @ + lane.parked, !.parked = 0]

LEMMA UnparksIs ==
  ASSUME TypeInv, Unparks
  PROVE  InLane' = InLane /\ lane'.at = lane.at
<1>1. lane \in Lanes /\ lane.queued \in Nat /\ lane.parked \in Nat
  BY DEF TypeInv, Lanes
<1>2. CASE lane' = lane
  BY <1>2 DEF InLane
<1>3. CASE lane' = [lane EXCEPT !.queued = @ + lane.parked, !.parked = 0]
  <2>1. lane'.queued = lane.queued + lane.parked /\ lane'.parked = 0 /\ lane'.at = lane.at
    BY <1>1, <1>3 DEF Lanes
  <2> QED
    BY <1>1, <2>1 DEF InLane
<1> QED
  BY <1>2, <1>3 DEF Unparks

LEMMA LifeEndCall ==
  ASSUME TypeInv, LifeInv, EndCall, UNCHANGED <<abandoner, disposer>>
  PROVE  LifeInv'
<1>1. /\ LifeOf(s') = <<s.kind, s.views, FALSE, s.disposed, s.due, s.hook, s.objects>>
      /\ SlotsOf(s') = SlotsOf(s) /\ DemandsOf(s') = DemandsOf(s)
      /\ s'.state = s.state /\ s'.work = s.work /\ Unparks
      /\ driver'.at = "idle" /\ driver.at = "done"
  BY EndCallIs DEF Unparks
<1>2. /\ s'.kind = s.kind /\ s'.disposed = s.disposed /\ s'.due = s.due /\ s'.call = FALSE
      /\ s'.hook = s.hook /\ s'.views = s.views /\ s'.objects = s.objects
  BY <1>1 DEF LifeOf
<1>3. InLane' = InLane /\ lane'.at = lane.at
  BY <1>1, UnparksIs
<1>4. HandInv'
  BY <1>1, <1>2, <1>3 DEF LifeInv, HandInv, Disposing
<1>5. CallInv'
  BY <1>1, <1>2, <1>3 DEF LifeInv, CallInv, Over
<1> QED
  BY <1>1, <1>2, <1>4, <1>5, StateKept DEF LifeInv, Resting

LEMMA LifeAttach ==
  ASSUME TypeInv, LifeInv, Attach, UNCHANGED <<abandoner, disposer>>
  PROVE  LifeInv'
<1>1. /\ lane' = lane /\ Ends /\ Running("attach") /\ StateInv
      /\ \/ /\ LifeOf(s') = LifeOf(s) /\ SlotsOf(s') = SlotsOf(s)
            /\ DemandsOf(s') = DemandsOf(s) /\ s'.work = s.work /\ s'.state = "attached"
         \/ Fails(s', s)
  BY AttachIs DEF LifeInv
<1>2. s.state = "attaching" /\ driver.at = "run" /\ ~Running("detach")
  BY <1>1 DEF StateInv, Running
<1>3. driver'.at \in {"done", "loop"}
  BY <1>1, EndsIs
<1>4. CASE Fails(s', s)
  BY <1>1, <1>2, <1>3, <1>4, LifeFails DEF Fails
<1>5. CASE /\ LifeOf(s') = LifeOf(s) /\ SlotsOf(s') = SlotsOf(s)
           /\ DemandsOf(s') = DemandsOf(s) /\ s'.work = s.work /\ s'.state = "attached"
  <2>1. /\ s'.kind = s.kind /\ s'.call = s.call /\ s'.disposed = s.disposed /\ s'.due = s.due
        /\ s'.hook = s.hook /\ s'.views = s.views /\ s'.objects = s.objects
    BY <1>5 DEF LifeOf
  <2>2. HandInv'
    BY <1>1, <1>2, <1>3, <2>1 DEF LifeInv, HandInv, InLane, Disposing
  <2>3. CallInv'
    BY <1>1, <1>2, <1>3, <1>5, <2>1 DEF LifeInv, CallInv, Over
  <2>4. s.objects /\ \A i \in DOMAIN s.work : s.work[i].kind \notin {"attach", "detach"}
    BY <1>1, <1>2 DEF StateInv
  <2>5. StateInv'
    BY <1>3, <1>5, <2>1, <2>4 DEF StateInv, Running, Rendering
  <2> QED
    BY <1>5, <2>2, <2>3, <2>5 DEF LifeInv, EndInv, Over
<1> QED
  BY <1>1, <1>4, <1>5

LEMMA LifeFreeGraphics ==
  ASSUME TypeInv, LifeInv, FreeGraphics, UNCHANGED <<abandoner, disposer>>
  PROVE  LifeInv'
<1>1. /\ lane' = lane /\ (Running("detach") \/ driver.at = "disposing")
      /\ LifeOf(s') = <<s.kind, s.views, s.call, s.disposed, s.due, FALSE, FALSE>>
      /\ SlotsOf(s') = SlotsOf(s) /\ DemandsOf(s') = DemandsOf(s)
      /\ s'.work = s.work /\ s'.state = s.state
      /\ driver'.at = "detached" /\ driver'.item = driver.item
  BY FreeGraphicsIs
<1>2. /\ s'.kind = s.kind /\ s'.disposed = s.disposed /\ s'.due = s.due /\ s'.call = s.call
      /\ s'.hook = FALSE /\ s'.views = s.views /\ s'.objects = FALSE
  BY <1>1 DEF LifeOf
<1>3. s.call /\ s.state = "detaching" /\ driver.at \in {"run", "disposing"}
  BY <1>1 DEF LifeInv, CallInv, StateInv, Running
<1>4. Disposing' => Disposing
  BY <1>1 DEF Disposing, Running
<1>5. s.due => ~Disposing'
  BY <1>3, <1>4 DEF LifeInv, HandInv
<1>6. HandInv'
  BY <1>1, <1>2, <1>4, <1>5 DEF LifeInv, HandInv, InLane
<1>7. CallInv'
  BY <1>1, <1>2, <1>3 DEF LifeInv, CallInv, Over
<1>8. Held(s') = Held(s)
  BY <1>1 DEF SlotsOf, Held, SlotsThat
<1>9. StateInv'
  BY <1>1, <1>2, <1>3, <1>8 DEF LifeInv, StateInv, Running, Rendering
<1>10. EndInv'
  BY <1>1, <1>3 DEF EndInv, Over
<1> QED
  BY <1>6, <1>7, <1>9, <1>10 DEF LifeInv

LEMMA LifeFinishDetach ==
  ASSUME TypeInv, LifeInv, FinishDetach, UNCHANGED <<abandoner, disposer>>
  PROVE  LifeInv'
<1>1. /\ lane' = lane /\ driver.at = "detached"
      /\ LifeOf(s') = LifeOf(s) /\ SlotsOf(s') = SlotsOf(s)
      /\ s'.work = s.work /\ s'.state = "detached"
      /\ s'.demands = <<>> /\ s'.waiting = <<>>
      /\ \/ driver.item.kind = "detach" /\ Ends
         \/ driver.item.kind # "detach" /\ driver'.at = "handover"
  BY FinishDetachIs
<1>2. /\ s'.kind = s.kind /\ s'.disposed = s.disposed /\ s'.due = s.due /\ s'.call = s.call
      /\ s'.hook = s.hook /\ s'.views = s.views /\ s'.objects = s.objects
  BY <1>1 DEF LifeOf
<1>3. \/ driver'.at \in {"done", "loop"}
      \/ driver'.at = "handover" /\ Disposing
  BY <1>1, EndsIs DEF Disposing
<1>4. HandInv'
  BY <1>1, <1>2, <1>3 DEF LifeInv, HandInv, InLane, Disposing
<1>5. s.call /\ s.state = "detaching"
  BY <1>1 DEF LifeInv, CallInv, StateInv
<1>6. CallInv'
  BY <1>1, <1>2, <1>3, <1>5 DEF LifeInv, CallInv, Over
<1>7. Held(s') = Held(s)
  BY <1>1 DEF SlotsOf, Held, SlotsThat
<1>8. StateInv'
  BY <1>1, <1>2, <1>3, <1>5, <1>7 DEF LifeInv, StateInv, Running, Rendering, Harmless
<1> QED
  BY <1>1, <1>4, <1>6, <1>8 DEF LifeInv, EndInv

(* A texture that is cut from the queue is not held after that.            *)
LEMMA CutHeld ==
  ASSUME NEW t, NEW u, SessionType(t), NEW to \in {"free", "quarantined"}, Cuts(u, t, to)
  PROVE  Held(u) \subseteq Held(t)
BY DEF Cuts, Held, SlotsThat

LEMMA LifeBeginDisposal ==
  ASSUME TypeInv, LifeInv, BeginDisposal, UNCHANGED <<abandoner, disposer>>
  PROVE  LifeInv'
<1>1. /\ lane' = lane /\ driver.at = "dispose" /\ driver'.item = driver.item
      /\ DemandsOf(s') = DemandsOf(s) /\ s'.ready = s.ready /\ s'.retargets = s.retargets
      /\ \/ /\ s.state = "attached" /\ Held(s) = {} /\ s.views = {}
            /\ driver'.at = "disposing" /\ s'.state = "detaching"
            /\ LifeOf(s') = <<s.kind, s.views, TRUE, s.disposed, FALSE, s.hook, s.objects>>
            /\ \A i \in DOMAIN s'.work : s'.work[i].kind = "frame"
            /\ Cuts(s', s, "free")
         \/ /\ driver'.at = "handover" /\ s'.state = s.state /\ s'.work = s.work
            /\ s'.slot = s.slot /\ s'.reading = s.reading
            /\ LifeOf(s') = <<s.kind, s.views, s.call, s.disposed, FALSE, s.hook, s.objects>>
  BY BeginDisposalIs
<1>2. /\ s'.kind = s.kind /\ s'.disposed = s.disposed /\ s'.due = FALSE
      /\ s'.hook = s.hook /\ s'.views = s.views /\ s'.objects = s.objects
      /\ s'.call = s.call \/ (driver'.at = "disposing" /\ s'.call = TRUE)
  BY <1>1 DEF LifeOf
<1>3. Disposing /\ driver'.at \in {"disposing", "handover"}
  BY <1>1 DEF Disposing
<1>4. HandInv'
  BY <1>1, <1>2, <1>3 DEF LifeInv, HandInv, InLane, Disposing
<1>5. lane.at = "idle"
  BY <1>3, LaneEmpty DEF LifeInv, HandInv
<1>6. s'.state = s.state \/ s.state = "attached"
  BY <1>1
<1>7. driver'.at = "disposing" => s'.call = TRUE
  BY <1>1 DEF LifeOf
<1>8. CallInv'
  BY <1>1, <1>2, <1>3, <1>5, <1>6, <1>7 DEF LifeInv, CallInv, Over
<1>9. CASE s.state = "attached" /\ driver'.at = "disposing"
  <2>1. s.objects
    BY <1>1, <1>9 DEF LifeInv, StateInv
  <2>2. Held(s') = {}
    BY <1>1, <1>9, CutHeld DEF TypeInv
  <2>3. StateInv'
    BY <1>1, <1>2, <1>9, <2>1, <2>2 DEF StateInv, Running, Rendering, Harmless
  <2> QED
    BY <1>1, <1>4, <1>8, <1>9, <2>3 DEF LifeInv, EndInv, Over
<1>10. CASE driver'.at = "handover"
  <2>1. /\ s'.state = s.state /\ s'.work = s.work /\ s'.slot = s.slot
    BY <1>1, <1>10
  <2>2. Held(s') = Held(s)
    BY <2>1 DEF Held, SlotsThat
  <2>3. StateInv'
    BY <1>1, <1>2, <1>10, <2>1, <2>2 DEF LifeInv, StateInv, Running, Rendering
  <2> QED
    BY <1>1, <1>4, <1>8, <2>1, <2>3 DEF LifeInv, EndInv, DemandsOf, Over
<1> QED
  BY <1>1, <1>9, <1>10

LEMMA LifeHandOver ==
  ASSUME TypeInv, LifeInv, HandOver, UNCHANGED <<abandoner, disposer>>
  PROVE  LifeInv'
<1>1. /\ driver.at = "handover" /\ driver'.at = IF s.kind = "core" THEN "stopped" ELSE "done"
      /\ lane' = [lane EXCEPT !.queued = @ + 1]
      /\ LifeOf(s') = <<s.kind, s.views, s.call /\ s.kind = "caller", s.disposed, s.due,
                        s.hook, s.objects>>
      /\ DemandsOf(s') = DemandsOf(s) /\ s'.state = s.state
      /\ \/ s.state = "detached" /\ s'.work = <<>> /\ Cuts(s', s, "free")
         \/ s'.work = s.work /\ s'.slot = s.slot
  BY HandOverIs
<1>2. /\ s'.kind = s.kind /\ s'.disposed = s.disposed /\ s'.due = s.due
      /\ s'.hook = s.hook /\ s'.views = s.views /\ s'.objects = s.objects
      /\ s'.call = (s.call /\ s.kind = "caller")
  BY <1>1 DEF LifeOf
<1>3. InLane = 0 /\ ~s.due /\ s.disposed /\ ~Disposing'
  BY <1>1 DEF LifeInv, HandInv, Disposing
<1>4. lane.at = "idle" /\ lane.queued = 0 /\ lane.parked = 0
  BY <1>3, LaneEmpty
<1>5. lane'.at = "idle" /\ InLane' = 1
  BY <1>1, <1>4 DEF InLane, TypeInv, Lanes
<1>6. HandInv'
  BY <1>2, <1>3, <1>5 DEF LifeInv, HandInv
<1>7. s.kind = "caller" => s.call
  BY <1>1 DEF LifeInv, CallInv
<1>8. s.kind \in {"core", "caller"}
  BY DEF TypeInv, SessionType
<1>9. CallInv'
  BY <1>1, <1>2, <1>5, <1>7, <1>8 DEF LifeInv, CallInv, Over
<1>10. Held(s') \subseteq Held(s)
  BY <1>1, CutHeld DEF TypeInv, Held, SlotsThat
<1>11. s'.work = s.work \/ s'.work = <<>>
  BY <1>1
<1>12. StateInv'
  BY <1>1, <1>2, <1>10, <1>11 DEF LifeInv, StateInv, Running, Rendering
<1> QED
  BY <1>1, <1>6, <1>9, <1>12 DEF LifeInv, EndInv, DemandsOf, Over

LEMMA LifeDetach ==
  ASSUME TypeInv, LifeInv, Detach, UNCHANGED <<driver, abandoner, disposer>>
  PROVE  LifeInv'
<1>1. /\ lane' = lane /\ s.state = "attached" /\ s'.state = "detaching"
      /\ Held(s) = {} /\ s.views = {}
      /\ LifeOf(s') = LifeOf(s) /\ SlotsOf(s') = SlotsOf(s)
      /\ s'.work = Append(s.work, Item("detach", 0)) /\ Item("detach", 0) \in Works
      /\ s.work \in Seq(Works)
  BY DetachIs DEF TypeInv, SessionType
<1>2. /\ s'.kind = s.kind /\ s'.disposed = s.disposed /\ s'.due = s.due /\ s'.call = s.call
      /\ s'.hook = s.hook /\ s'.views = s.views /\ s'.objects = s.objects
  BY <1>1 DEF LifeOf
<1>3. HandInv'
  BY <1>1, <1>2 DEF LifeInv, HandInv, InLane, Disposing
<1>4. CallInv'
  BY <1>1, <1>2 DEF LifeInv, CallInv, Over
<1>5. Held(s') = {}
  BY <1>1 DEF SlotsOf, Held, SlotsThat
<1>6. /\ s.objects /\ ~Running("detach") /\ ~Running("attach")
      /\ driver.at \notin {"disposing", "detached"}
      /\ \A i \in DOMAIN s.work : s.work[i].kind \notin {"attach", "detach"}
  BY <1>1 DEF LifeInv, StateInv
<1>7. \A i \in DOMAIN s'.work :
        \/ i \in DOMAIN s.work /\ s'.work[i] = s.work[i]
        \/ i = Len(s.work) + 1 /\ s'.work[i] = Item("detach", 0)
  BY <1>1
<1>8. Item("detach", 0).kind = "detach"
  BY DEF Item
<1>9. \A i, j \in DOMAIN s'.work : ~(s'.work[i].kind = "detach" /\ i < j)
  BY <1>1, <1>6, <1>7
<1>10. \A i \in DOMAIN s'.work : s'.work[i].kind # "attach"
  BY <1>6, <1>7, <1>8
<1>11. driver.at = "run" => driver.item \in Works
  BY DEF LifeInv, StateInv
<1>12. StateInv'
  BY <1>1, <1>2, <1>5, <1>6, <1>9, <1>10, <1>11 DEF StateInv, Running, Live
<1> QED
  BY <1>1, <1>3, <1>4, <1>12 DEF LifeInv, EndInv, Over

LEMMA LifeBeginView ==
  ASSUME TypeInv, LifeInv, NEW i \in Slots, BeginView(i), UNCHANGED <<driver, abandoner, disposer>>
  PROVE  LifeInv'
<1>1. /\ lane' = lane /\ s.state = "attached" /\ ~s.disposed
      /\ LifeOf(s') = <<s.kind, s.views \union {i}, s.call, s.disposed, s.due, s.hook,
                        s.objects>>
      /\ SlotsOf(s') = SlotsOf(s) /\ DemandsOf(s') = DemandsOf(s)
      /\ s'.state = s.state /\ s'.work = s.work
  BY BeginViewIs
<1>2. /\ s'.kind = s.kind /\ s'.disposed = s.disposed /\ s'.due = s.due /\ s'.call = s.call
      /\ s'.hook = s.hook /\ s'.objects = s.objects
  BY <1>1 DEF LifeOf
<1>3. HandInv'
  BY <1>1, <1>2 DEF LifeInv, HandInv, InLane, Disposing
<1>4. lane.at = "idle"
  BY <1>1, LaneEmpty DEF LifeInv, HandInv
<1>5. CallInv'
  BY <1>1, <1>2, <1>4 DEF LifeInv, CallInv, Over
<1> QED
  BY <1>1, <1>2, <1>3, <1>5, StateKept DEF LifeInv, Stays

LEMMA LifeEndView ==
  ASSUME TypeInv, LifeInv, NEW i \in Slots, EndView(i), UNCHANGED <<driver, abandoner, disposer>>
  PROVE  LifeInv'
<1>1. /\ Unparks
      /\ LifeOf(s') = <<s.kind, s.views \ {i}, s.call, s.disposed, s.due, s.hook, s.objects>>
      /\ SlotsOf(s') = SlotsOf(s) /\ DemandsOf(s') = DemandsOf(s)
      /\ s'.state = s.state /\ s'.work = s.work
  BY EndViewIs DEF Unparks
<1>2. /\ s'.kind = s.kind /\ s'.disposed = s.disposed /\ s'.due = s.due /\ s'.call = s.call
      /\ s'.hook = s.hook /\ s'.objects = s.objects /\ s'.views = s.views \ {i}
  BY <1>1 DEF LifeOf
<1>3. InLane' = InLane /\ lane'.at = lane.at
  BY <1>1, UnparksIs
<1>4. HandInv'
  BY <1>1, <1>2, <1>3 DEF LifeInv, HandInv, Disposing
<1>5. CallInv'
  BY <1>1, <1>2, <1>3 DEF LifeInv, CallInv, Over
<1>6. s'.views \subseteq s.views
  BY <1>2
<1> QED
  BY <1>1, <1>2, <1>4, <1>5, <1>6, StateKept DEF LifeInv, Stays

(* The disposal goes to the driver or to the lane.                         *)
LEMMA SubmittedIs ==
  ASSUME TypeInv, InLane = 0, lane' = Submitted
  PROVE  InLane' = 1 /\ lane'.at = "idle"
<1>1. lane \in Lanes /\ lane.at = "idle" /\ lane.queued = 0 /\ lane.parked = 0
  BY LaneEmpty DEF TypeInv
<1>2. lane'.at = "idle" /\ lane'.queued = 1 /\ lane'.parked = 0
  BY <1>1 DEF Submitted, Lanes
<1> QED
  BY <1>2 DEF InLane

LEMMA LifeDispose ==
  ASSUME TypeInv, LifeInv, NEW mode, Dispose(mode), driver' = driver
  PROVE  LifeInv'
<1>1. /\ ~s.disposed /\ abandoner' = abandoner
      /\ SlotsOf(s') = SlotsOf(s) /\ DemandsOf(s') = DemandsOf(s)
      /\ s'.state = s.state /\ s'.work = s.work
      /\ \/ /\ LifeOf(s') = <<s.kind, s.views, s.call, TRUE, TRUE, s.hook, s.objects>>
            /\ lane' = lane
            /\ disposer' = IF s.kind = "caller" THEN "hooking" ELSE "idle"
         \/ /\ LifeOf(s') = <<s.kind, s.views, s.call, TRUE, s.due, s.hook, s.objects>>
            /\ lane' = Submitted /\ disposer' = disposer
  BY DisposeIs
<1>2. /\ s'.kind = s.kind /\ s'.disposed = TRUE /\ s'.views = s.views /\ s'.call = s.call
      /\ s'.hook = s.hook /\ s'.objects = s.objects
      /\ \/ /\ s'.due = TRUE /\ lane' = lane
            /\ disposer' = IF s.kind = "caller" THEN "hooking" ELSE "idle"
         \/ s'.due = s.due /\ lane' = Submitted /\ disposer' = disposer
  BY <1>1 DEF LifeOf
<1>3. ~s.due /\ ~Disposing /\ InLane = 0
  BY <1>1 DEF LifeInv, HandInv
<1>4. ~Disposing' /\ lane'.at = "idle" /\ InLane' = (IF lane' = lane THEN 0 ELSE 1)
  <2>1. ~Disposing'
    BY <1>3 DEF Disposing
  <2>2. CASE lane' = lane
    BY <1>3, <2>1, <2>2, LaneEmpty DEF InLane
  <2>3. CASE lane' = Submitted
    BY <1>3, <2>1, <2>3, SubmittedIs DEF InLane
  <2> QED
    BY <1>2, <2>2, <2>3
<1>5. HandInv'
  <2>1. CASE /\ s'.due = TRUE /\ lane' = lane
             /\ disposer' = IF s.kind = "caller" THEN "hooking" ELSE "idle"
    BY <1>2, <1>3, <1>4, <2>1 DEF LifeInv, HandInv
  <2>2. CASE s'.due = s.due /\ lane' = Submitted /\ disposer' = disposer
    BY <1>2, <1>3, <1>4, <2>2 DEF LifeInv, HandInv
  <2> QED
    BY <1>2, <2>1, <2>2
<1>6. CallInv'
  BY <1>1, <1>2, <1>4 DEF LifeInv, CallInv, Over
<1> QED
  BY <1>1, <1>2, <1>5, <1>6, StateKept DEF LifeInv, Stays

(* The hook that the disposal leaves, for a caller driver.                 *)
LEMMA LifeHooks ==
  ASSUME TypeInv, LifeInv, driver' = driver,
         HookClose \/ (CloseMap /\ UNCHANGED <<abandoner, disposer>>)
  PROVE  LifeInv'
<1>1. /\ SlotsOf(s') = SlotsOf(s) /\ DemandsOf(s') = DemandsOf(s)
      /\ s'.state = s.state /\ s'.work = s.work /\ abandoner' = abandoner
      /\ disposer' = disposer \/ (disposer = "hooking" /\ disposer' = "idle")
      /\ \/ /\ LifeOf(s') = <<s.kind, s.views, s.call, s.disposed, s.due, TRUE, s.objects>>
            /\ lane' = lane /\ disposer = "hooking"
         \/ LifeOf(s') = LifeOf(s) /\ lane' = lane
         \/ /\ LifeOf(s') = <<s.kind, s.views, s.call, s.disposed, s.due, FALSE, s.objects>>
            /\ lane' = lane
         \/ /\ s.due /\ (s.hook \/ disposer = "hooking") /\ lane' = Submitted
            /\ LifeOf(s') = <<s.kind, s.views, s.call, s.disposed, FALSE, s.hook, s.objects>>
         \/ /\ s.due /\ (s.hook \/ disposer = "hooking") /\ lane' = Submitted
            /\ LifeOf(s') = <<s.kind, s.views, s.call, s.disposed, FALSE, FALSE, s.objects>>
  <2>1. CASE HookClose
    BY <2>1, HookCloseIs
  <2>2. CASE CloseMap /\ UNCHANGED <<abandoner, disposer>>
    BY <2>2, CloseMapIs
  <2> QED
    BY <2>1, <2>2
<1>2. /\ s'.kind = s.kind /\ s'.disposed = s.disposed /\ s'.views = s.views /\ s'.call = s.call
      /\ s'.objects = s.objects
      /\ s'.hook \in {s.hook, FALSE} \/ (s'.hook = TRUE /\ disposer = "hooking")
      /\ \/ s'.due = s.due /\ lane' = lane
         \/ /\ s.due /\ (s.hook \/ disposer = "hooking") /\ lane' = Submitted /\ s'.due = FALSE
  BY <1>1 DEF LifeOf
<1>3. Disposing' <=> Disposing
  BY DEF Disposing
<1>4. CASE s'.due = s.due /\ lane' = lane
  <2>1. HandInv'
    BY <1>1, <1>2, <1>3, <1>4 DEF LifeInv, HandInv, InLane
  <2>2. CallInv'
    BY <1>1, <1>2, <1>4 DEF LifeInv, CallInv, Over
  <2> QED
    BY <1>1, <1>2, <2>1, <2>2, StateKept DEF LifeInv, Stays
<1>5. CASE s.due /\ (s.hook \/ disposer = "hooking") /\ lane' = Submitted /\ s'.due = FALSE
  <2>1. s.kind = "caller" /\ s.disposed /\ InLane = 0 /\ ~Disposing
    BY <1>5 DEF LifeInv, HandInv
  <2>2. InLane' = 1 /\ lane'.at = "idle"
    BY <1>5, <2>1, SubmittedIs
  <2>3. HandInv'
    BY <1>1, <1>2, <1>3, <1>5, <2>1, <2>2 DEF LifeInv, HandInv
  <2>4. CallInv'
    BY <1>1, <1>2, <2>2 DEF LifeInv, CallInv, Over
  <2> QED
    BY <1>1, <1>2, <2>3, <2>4, StateKept DEF LifeInv, Stays
<1> QED
  BY <1>2, <1>4, <1>5

(* The lane.                                                               *)
LEMMA LifeMoves ==
  ASSUME TypeInv, LifeInv, SessionType(s'), PartsOf(s') = PartsOf(s),
         InLane' = InLane, UNCHANGED <<driver, abandoner, disposer>>,
         lane'.at \in {"abandon", "retire"} => ~s.call /\ s.views = {},
         lane'.at = "retire" => s.state = "abandoned",
         lane'.at \notin {"idle", "abandon"} => Over(s),
         lane'.at # "refused"
  PROVE  LifeInv'
<1>1. /\ LifeOf(s') = LifeOf(s) /\ SlotsOf(s') = SlotsOf(s) /\ DemandsOf(s') = DemandsOf(s)
      /\ s'.state = s.state /\ s'.work = s.work
  BY DEF PartsOf
<1>2. /\ s'.kind = s.kind /\ s'.disposed = s.disposed /\ s'.due = s.due /\ s'.call = s.call
      /\ s'.hook = s.hook /\ s'.views = s.views /\ s'.objects = s.objects
  BY <1>1 DEF LifeOf
<1>3. HandInv'
  BY <1>2 DEF LifeInv, HandInv, Disposing
<1>4. CallInv'
  BY <1>1, <1>2 DEF LifeInv, CallInv, Over
<1> QED
  BY <1>1, <1>2, <1>3, <1>4, StateKept DEF LifeInv, Stays

LEMMA LifeLane ==
  ASSUME TypeInv, LifeInv, TypeInv', LaneStep
  PROVE  LifeInv'
<1>1. UNCHANGED <<driver, abandoner, disposer>> /\ Stays
  BY DEF LaneStep, Stays
<1>2. SessionType(s) /\ lane \in Lanes /\ lane.queued \in Nat /\ lane.parked \in Nat
  BY DEF TypeInv, Lanes
<1>3. ASSUME NEW at, LaneGoes(at), lane.at # "idle", at # "idle" PROVE InLane' = InLane
  BY <1>3, LaneGoesIs DEF InLane
<1>4. CASE LaneTakes
  <2>1. /\ lane.at = "idle" /\ lane.queued > 0 /\ s' = s
        /\ \/ lane' = [lane EXCEPT !.queued = @ - 1, !.parked = @ + 1]
           \/ /\ lane' = [lane EXCEPT !.queued = @ - 1, !.at = "abandon"]
              /\ ~s.call /\ s.views = {}
    BY <1>2, <1>4 DEF LaneTakes, Lanes
  <2>2. lane.queued - 1 \in Nat /\ lane.parked + 1 \in Nat
    BY <1>2, <2>1
  <2>3. \/ lane'.queued = lane.queued - 1 /\ lane'.parked = lane.parked + 1 /\ lane'.at = "idle"
        \/ /\ lane'.queued = lane.queued - 1 /\ lane'.parked = lane.parked
           /\ lane'.at = "abandon" /\ ~s.call /\ s.views = {}
    BY <1>2, <2>1, <2>2 DEF Lanes
  <2>4. InLane' = InLane
    BY <1>2, <2>1, <2>3 DEF InLane
  <2> QED
    BY <1>1, <1>2, <2>1, <2>3, <2>4, LifeMoves
<1>5. CASE LaneAbandons
  <2>1. lane.at = "abandon" /\ ~s.call /\ s.views = {}
    BY <1>5, LaneAbandonsIs DEF LifeInv, CallInv
  <2>2. CASE (s.views # {} \/ Over(s) \/ s.call) /\ LaneGoes("destroy") /\ s' = s
    <3>1. lane'.at = "destroy" /\ InLane' = InLane /\ Over(s)
      BY <1>3, <2>1, <2>2, LaneGoesIs
    <3> QED
      BY <1>1, <1>2, <2>2, <3>1, LifeMoves
  <2>3. CASE /\ ~(s.views # {} \/ Over(s) \/ s.call)
             /\ Abandons(s', s) /\ LaneGoes("retire")
    BY <1>1, <2>1, <2>3, LifeAbandons
  <2> QED
    BY <1>5, <2>2, <2>3, LaneAbandonsIs
<1>6. CASE LaneRetires
  <2>1. s.state = "abandoned"
    BY <1>6, LaneRetiresIs DEF LifeInv, CallInv
  <2> QED
    BY <1>1, <1>6, <2>1, LaneRetiresIs, LifeRetires
<1>7. CASE LaneDestroys
  <2>1. /\ lane.at = "destroy" /\ SessionType(s') /\ PartsOf(s') = PartsOf(s)
        /\ \/ Over(s) /\ LaneGoes("reap")
           \/ /\ LaneGoes("refused")
              /\ ~(s.state = "detached" /\ Held(s) = {})
              /\ ~(s.state = "abandoned" /\ s.views = {})
    BY <1>7, LaneDestroysIs
  <2>2. Over(s) /\ ~LaneGoes("refused")
    BY <2>1, LaneGoesIs DEF LifeInv, CallInv, StateInv, Over
  <2>3. lane'.at = "reap" /\ InLane' = InLane
    BY <1>3, <2>1, <2>2, LaneGoesIs
  <2> QED
    BY <1>1, <2>1, <2>2, <2>3, LifeMoves
<1>8. CASE LaneReaps
  <2>1. lane.at = "reap" /\ LaneGoes("done") /\ s' = s
    BY <1>8 DEF LaneReaps
  <2>2. lane'.at = "done" /\ InLane' = InLane /\ Over(s)
    BY <1>3, <2>1, LaneGoesIs DEF LifeInv, CallInv
  <2> QED
    BY <1>1, <1>2, <2>1, <2>2, LifeMoves
<1> QED
  BY <1>4, <1>5, <1>6, <1>7, <1>8 DEF LaneStep

(* The steps that leave the session's life.                                *)
LEMMA HeldKept ==
  ASSUME TypeInv,
         \/ s'.slot = s.slot
         \/ s'.slot = [i \in Slots |-> "free"]
         \/ \E i, is : is # "held" /\ Sets(s', s, i, is)
  PROVE  Held(s') \subseteq Held(s)
<1>1. s.slot \in [Slots -> {"free", "rendering", "held", "returning", "quarantined"}]
  BY DEF TypeInv, SessionType
<1> QED
  BY <1>1 DEF Held, SlotsThat, Sets

LEMMA FreesHeld ==
  ASSUME TypeInv, Frees(s', s)
  PROVE  Held(s') \subseteq Held(s)
BY HeldKept DEF Frees

LEMMA QuietGrown ==
  ASSUME TypeInv, LifeInv, LifeOf(s') = LifeOf(s), s'.state = s.state,
         Grown(s'.work, s.work), s.state \in {"abandoned", "failed"} => s'.work = s.work,
         Over(s) \/ s.state = "failed" => s'.demands = <<>> /\ s'.waiting = <<>>,
         Held(s') \subseteq Held(s), lane' = lane, disposer' = disposer,
         abandoner' = "retiring" => abandoner = "retiring"
  PROVE  Quiet
<1>1. s.state \in {"detaching", "detached"} => Held(s') = {}
  BY DEF LifeInv, StateInv
<1> QED
  BY <1>1, AddsGrown DEF Quiet

LEMMA QuietParts ==
  ASSUME TypeInv, LifeInv, PartsOf(s') = PartsOf(s), lane' = lane, disposer' = disposer,
         abandoner' = "retiring" => abandoner = "retiring"
  PROVE  Quiet
<1>1. /\ LifeOf(s') = LifeOf(s) /\ s'.state = s.state /\ s'.work = s.work
      /\ s'.slot = s.slot /\ s'.demands = s.demands /\ s'.waiting = s.waiting
  BY DEF PartsOf, SlotsOf, DemandsOf
<1>2. Grown(s'.work, s.work)
  BY <1>1, GrownSelf DEF TypeInv, SessionType
<1>3. Held(s') \subseteq Held(s)
  BY <1>1, HeldKept
<1> QED
  BY <1>1, <1>2, <1>3, QuietGrown DEF LifeInv, EndInv

LEMMA TurnsBy ==
  ASSUME TypeInv, LifeInv, driver.at \in {"run", "loop"} \union Rendering, ~Running("detach"),
         driver'.at \in {"done", "loop"} \/ (driver'.at \in Rendering /\ Live(s))
  PROVE  Turns
BY DEF Turns, Rendering

(* Those of the driver that begin or end a call's work.                    *)
LEMMA LifeWaits ==
  ASSUME TypeInv, LifeInv, CoreWaits \/ GpuDone, UNCHANGED <<abandoner, disposer>>
  PROVE  LifeInv'
<1>1. PartsOf(s') = PartsOf(s) /\ lane' = lane /\ driver' = driver
  BY CoreWaitsIs, GpuDoneIs
<1> QED
  BY <1>1, QuietParts, LifeQuiet DEF Stays

LEMMA LifeLoopEnds ==
  ASSUME TypeInv, LifeInv, LoopEnds, UNCHANGED <<abandoner, disposer>>
  PROVE  LifeInv'
<1>1. PartsOf(s') = PartsOf(s) /\ lane' = lane /\ driver'.at = "done" /\ driver.at = "loop"
  BY LoopEndsIs
<1> QED
  BY <1>1, QuietParts, LifeQuiet, TurnsBy DEF Running

LEMMA LifeBarrier ==
  ASSUME TypeInv, LifeInv, RunBarrier, UNCHANGED <<abandoner, disposer>>
  PROVE  LifeInv'
<1>1. /\ lane' = lane /\ Ends /\ Running("barrier")
      /\ LifeOf(s') = LifeOf(s) /\ s'.slot = s.slot
      /\ s'.demands = s.demands /\ s'.waiting = s.waiting
      /\ s'.work = s.work /\ s'.state = s.state
  BY RunBarrierIs DEF SlotsOf, DemandsOf
<1>2. Grown(s'.work, s.work)
  BY <1>1, GrownSelf DEF TypeInv, SessionType
<1>3. Held(s') \subseteq Held(s)
  BY <1>1, HeldKept
<1>4. Quiet
  BY <1>1, <1>2, <1>3, QuietGrown DEF LifeInv, EndInv
<1>5. Turns
  BY <1>1, EndsIs, TurnsBy DEF Running
<1> QED
  BY <1>4, <1>5, LifeQuiet

LEMMA LifeRelease ==
  ASSUME TypeInv, LifeInv, RunRelease, UNCHANGED <<abandoner, disposer>>
  PROVE  LifeInv'
<1>1. StateInv
  BY DEF LifeInv
<1> DEFINE i == driver.item.of
<1>2. /\ lane' = lane /\ Ends /\ Running("release")
      /\ s.state \notin {"failed", "abandoned", "detached"} /\ LifeOf(s') = LifeOf(s)
      /\ \/ /\ s'.state = s.state /\ Grown(s'.work, s.work) /\ Sets(s', s, i, "free")
         \/ /\ s'.state = "failed" /\ s'.work = <<>>
            /\ s'.demands = <<>> /\ s'.waiting = <<>>
  BY <1>1, RunReleaseIs DEF Fails, DemandsOf
<1>3. driver.at = "run" /\ ~Running("detach") /\ driver'.at \in {"done", "loop"}
  BY <1>2, EndsIs DEF Running
<1>4. CASE /\ s'.state = "failed" /\ s'.work = <<>>
           /\ s'.demands = <<>> /\ s'.waiting = <<>>
  BY <1>2, <1>3, <1>4, LifeFails
<1>5. CASE /\ s'.state = s.state /\ Grown(s'.work, s.work) /\ Sets(s', s, i, "free")
  <2>1. Held(s') \subseteq Held(s)
    BY <1>5, HeldKept
  <2>2. Quiet
    BY <1>2, <1>5, <2>1, QuietGrown DEF Over
  <2>3. Turns
    BY <1>3, TurnsBy
  <2> QED
    BY <2>2, <2>3, LifeQuiet
<1> QED
  BY <1>2, <1>4, <1>5

LEMMA LifeChange ==
  ASSUME TypeInv, LifeInv, RunUntarget \/ RunRetarget, UNCHANGED <<abandoner, disposer>>
  PROVE  LifeInv'
<1>1. /\ lane' = lane /\ Ends /\ (Running("untarget") \/ Running("retarget"))
      /\ LifeOf(s') = LifeOf(s) /\ s'.state = s.state
      /\ s'.work = s.work \/ Grown(s'.work, s.work)
      /\ s'.slot = s.slot \/ s'.slot = [i \in Slots |-> "free"]
  BY ChangeIs
<1>2. Grown(s'.work, s.work)
  BY <1>1, GrownSelf DEF TypeInv, SessionType
<1>3. Held(s') \subseteq Held(s)
  BY <1>1, HeldKept
<1>4. driver.at = "run" /\ ~Running("detach") /\ driver.item.kind \notin Harmless
  BY <1>1 DEF Running, Harmless
<1>5. s.state \notin {"abandoned", "failed", "detached"}
  BY <1>4 DEF LifeInv, StateInv
<1>6. Quiet
  BY <1>1, <1>2, <1>3, <1>5, QuietGrown DEF Over
<1>7. Turns
  BY <1>1, <1>4, EndsIs, TurnsBy
<1> QED
  BY <1>6, <1>7, LifeQuiet

(* Those that take a demand, render it and end it.                         *)
LEMMA LifeTakeDemand ==
  ASSUME TypeInv, LifeInv, TakeDemand, UNCHANGED <<abandoner, disposer>>
  PROVE  LifeInv'
<1>1. /\ lane' = lane /\ (Running("frame") \/ Running("service"))
      /\ LifeOf(s') = LifeOf(s) /\ SlotsOf(s') = SlotsOf(s)
      /\ s'.state = s.state /\ s'.work = s.work
      /\ \/ Live(s) /\ driver'.at = "took"
         \/ DemandsOf(s') = DemandsOf(s) /\ Ends
  BY TakeDemandIs
<1>2. driver.at = "run" /\ ~Running("detach")
  BY <1>1 DEF Running
<1>3. Turns
  BY <1>1, <1>2, EndsIs, TurnsBy DEF Rendering
<1>4. Grown(s'.work, s.work)
  BY <1>1, GrownSelf DEF TypeInv, SessionType
<1>5. Held(s') \subseteq Held(s)
  BY <1>1, HeldKept DEF SlotsOf
<1>6. Over(s) \/ s.state = "failed" => s'.demands = <<>> /\ s'.waiting = <<>>
  BY <1>1 DEF LifeInv, EndInv, Live, Over, DemandsOf
<1> QED
  BY <1>1, <1>3, <1>4, <1>5, <1>6, QuietGrown, LifeQuiet

LEMMA LifeRenders ==
  ASSUME TypeInv, LifeInv, driver.at \in Rendering, LifeOf(s') = LifeOf(s), s'.state = s.state,
         s'.work = s.work \/ Grown(s'.work, s.work), Held(s') \subseteq Held(s),
         driver'.at \in {"done", "loop"} \union Rendering, lane' = lane,
         UNCHANGED <<abandoner, disposer>>
  PROVE  LifeInv'
<1>1. Live(s) /\ ~Over(s) /\ s.state \notin {"abandoned", "failed"}
  BY DEF LifeInv, StateInv, Live, Over
<1>2. Grown(s'.work, s.work)
  BY GrownSelf DEF TypeInv, SessionType
<1>3. Quiet
  BY <1>1, <1>2, QuietGrown
<1>4. ~Running("detach")
  BY DEF Running, Rendering
<1> QED
  BY <1>1, <1>3, <1>4, TurnsBy, LifeQuiet

LEMMA LifeEndEarly ==
  ASSUME TypeInv, LifeInv, EndEarly, UNCHANGED <<abandoner, disposer>>
  PROVE  LifeInv'
<1>1. /\ driver.at = "took" /\ lane' = lane
      /\ LifeOf(s') = LifeOf(s) /\ s'.state = s.state /\ s'.work = s.work
      /\ Frees(s', s) \/ s' = s
      /\ Ends \/ driver'.at = "wait"
  BY EndEarlyIs DEF EndsWith
<1>2. Held(s') \subseteq Held(s)
  BY <1>1, FreesHeld
<1>3. driver.at \in Rendering /\ driver'.at \in {"done", "loop"} \union Rendering
  BY <1>1, EndsIs DEF Rendering
<1> QED
  BY <1>1, <1>2, <1>3, LifeRenders

LEMMA LifePickSlot ==
  ASSUME TypeInv, LifeInv, PickSlot, UNCHANGED <<abandoner, disposer>>
  PROVE  LifeInv'
<1>1. /\ driver.at = "took" /\ lane' = lane
      /\ LifeOf(s') = LifeOf(s) /\ s'.state = s.state
      /\ s'.work = s.work \/ Grown(s'.work, s.work)
      /\ SlotsOf(s') = SlotsOf(s) \/ Frees(s', s) \/ \E i : Sets(s', s, i, "rendering")
      /\ Ends \/ driver'.at = "render"
  BY PickSlotIs DEF EndsWith
<1>2. CASE SlotsOf(s') = SlotsOf(s) \/ \E i : Sets(s', s, i, "rendering")
  <2>1. Held(s') \subseteq Held(s)
    BY <1>2, HeldKept DEF SlotsOf
  <2> QED
    BY <1>1, <2>1, EndsIs, LifeRenders DEF Rendering
<1>3. CASE Frees(s', s)
  BY <1>1, <1>3, FreesHeld, EndsIs, LifeRenders DEF Rendering
<1> QED
  BY <1>1, <1>2, <1>3

LEMMA LifeSelect ==
  ASSUME TypeInv, LifeInv, Select, UNCHANGED <<abandoner, disposer>>
  PROVE  LifeInv'
<1>1. driver.at = "render" /\ s' = s /\ lane' = lane /\ driver'.at = "draw"
  BY SelectIs
<1> QED
  BY <1>1, LifeRenders DEF Rendering

LEMMA LifeDraw ==
  ASSUME TypeInv, LifeInv, Draw, UNCHANGED <<abandoner, disposer>>
  PROVE  LifeInv'
<1>1. StateInv
  BY DEF LifeInv
<1>2. /\ driver.at = "draw" /\ lane' = lane
      /\ \/ PartsOf(s') = PartsOf(s) /\ driver'.at \in {"publish", "wait"}
         \/ EndsWith(s', s, Nothing) /\ s'.work = s.work /\ Frees(s', s) /\ Ends
         \/ \E u : Fails(u, s) /\ EndsWith(s', u, Nothing) /\ s'.work = u.work /\ Ends
  BY <1>1, DrawIs
<1>3. driver.at \in Rendering /\ ~Running("detach")
  BY <1>2 DEF Rendering, Running
<1>4. CASE PartsOf(s') = PartsOf(s) /\ driver'.at \in {"publish", "wait"}
  <2>1. LifeOf(s') = LifeOf(s) /\ s'.state = s.state /\ s'.work = s.work /\ s'.slot = s.slot
    BY <1>4 DEF PartsOf, SlotsOf
  <2> QED
    BY <1>2, <1>3, <1>4, <2>1, HeldKept, LifeRenders DEF Rendering
<1>5. CASE EndsWith(s', s, Nothing) /\ s'.work = s.work /\ Frees(s', s) /\ Ends
  BY <1>2, <1>3, <1>5, FreesHeld, EndsIs, LifeRenders DEF EndsWith
<1>6. CASE \E u : Fails(u, s) /\ EndsWith(s', u, Nothing) /\ s'.work = u.work /\ Ends
  <2>1. /\ LifeOf(s') = LifeOf(s) /\ s'.state = "failed" /\ s'.work = <<>>
        /\ s'.demands = <<>> /\ s'.waiting = <<>> /\ driver'.at \in {"done", "loop"}
    BY <1>6, EndsIs DEF Fails, EndsWith
  <2>2. s.state \notin {"failed", "abandoned", "detached"}
    BY <1>1, <1>3 DEF StateInv, Live
  <2> QED
    BY <1>2, <1>3, <2>1, <2>2, LifeFails
<1> QED
  BY <1>2, <1>4, <1>5, <1>6

LEMMA LifePublish ==
  ASSUME TypeInv, LifeInv, Publish, UNCHANGED <<abandoner, disposer>>
  PROVE  LifeInv'
<1>1. /\ driver.at = "publish" /\ lane' = lane /\ Ends
      /\ LifeOf(s') = LifeOf(s) /\ s'.state = s.state /\ s'.work = s.work
      /\ Sets(s', s, driver.slot, "free")
  BY PublishIs DEF EndsWith
<1>2. Held(s') \subseteq Held(s)
  BY <1>1, HeldKept
<1> QED
  BY <1>1, <1>2, EndsIs, LifeRenders DEF Rendering

LEMMA LifeWaitForUpdate ==
  ASSUME TypeInv, LifeInv, WaitForUpdate, UNCHANGED <<abandoner, disposer>>
  PROVE  LifeInv'
<1>1. /\ driver.at = "wait" /\ lane' = lane /\ Ends
      /\ LifeOf(s') = LifeOf(s) /\ s'.state = s.state /\ Frees(s', s)
      /\ s'.work = s.work \/ Grown(s'.work, s.work)
  BY WaitForUpdateIs
<1> QED
  BY <1>1, FreesHeld, EndsIs, LifeRenders DEF Rendering

LEMMA LifeDriver ==
  ASSUME TypeInv, LifeInv, TypeInv', DriverStep
  PROVE  LifeInv'
<1>1. UNCHANGED <<map, abandoner, disposer>>
  BY DEF DriverStep
<1>2. CASE CoreWaits \/ CoreDisposes \/ CoreTakes \/ CoreAsks \/ CoreStops
  BY <1>1, <1>2, LifeWaits, LifeCoreDisposes, LifeTakes, LifeCalls, LifeCoreStops
<1>3. CASE Service \/ LoopDisposes \/ LoopTakes \/ LoopEnds \/ EndCall
  BY <1>1, <1>3, LifeCalls, LifeLoopDisposes, LifeTakes, LifeLoopEnds, LifeEndCall
<1>4. CASE Attach \/ RunBarrier \/ RunRelease \/ RunUntarget \/ RunRetarget
  BY <1>1, <1>4, LifeAttach, LifeBarrier, LifeRelease, LifeChange
<1>5. CASE FreeGraphics \/ FinishDetach \/ BeginDisposal \/ HandOver
  BY <1>1, <1>5, LifeFreeGraphics, LifeFinishDetach, LifeBeginDisposal, LifeHandOver
<1>6. CASE TakeDemand \/ EndEarly \/ PickSlot \/ Select \/ Draw \/ Publish \/ WaitForUpdate
  BY <1>1, <1>6, LifeTakeDemand, LifeEndEarly, LifePickSlot, LifeSelect, LifeDraw, LifePublish,
     LifeWaitForUpdate
<1> QED
  BY <1>2, <1>3, <1>4, <1>5, <1>6 DEF DriverStep

(* Those of the host and of the map.                                       *)
LEMMA LifeHost ==
  ASSUME TypeInv, LifeInv, HostStep
  PROVE  LifeInv'
<1>1. UNCHANGED <<driver, abandoner, disposer>> /\ Stays
  BY DEF HostStep, Stays
<1>2. s.work \in Seq(Works) /\ s'.state = s.state => (Over(s') <=> Over(s))
  BY DEF Over
<1>3. s.state \in {"attaching", "attached"} => ~Over(s) /\ s.state \notin {"abandoned", "failed"}
  BY DEF Over
<1>4. CASE \E policy \in Policies : Demand(policy)
  <2>1. /\ lane' = lane /\ s.state \in {"attaching", "attached"}
        /\ LifeOf(s') = LifeOf(s) /\ SlotsOf(s') = SlotsOf(s) /\ s'.state = s.state
        /\ Grown(s'.work, s.work)
    BY <1>4, DemandIs
  <2>2. Held(s') \subseteq Held(s)
    BY <2>1, HeldKept DEF SlotsOf
  <2> QED
    BY <1>1, <1>3, <2>1, <2>2, QuietGrown, LifeQuiet
<1>5. CASE Barrier
  <2>1. /\ lane' = lane /\ s.state = "attached"
        /\ LifeOf(s') = LifeOf(s) /\ SlotsOf(s') = SlotsOf(s) /\ s'.state = s.state
        /\ s'.work = Append(s.work, Item("barrier", Len(s.log)))
        /\ Item("barrier", Len(s.log)) \in Works
        /\ s'.demands = <<>> /\ s'.waiting = <<>>
    BY <1>5, BarrierIs
  <2>2. Adds(s'.work, s.work)
    BY <2>1, AddsOne DEF TypeInv, SessionType, Item
  <2>3. Quiet
    BY <1>1, <2>1, <2>2 DEF Quiet
  <2> QED
    BY <1>1, <2>3, LifeQuiet
<1>6. CASE Detach
  BY <1>1, <1>6, LifeDetach
<1>7. CASE Untarget \/ Retarget
  <2>1. /\ lane' = lane /\ s.state = "attached" /\ s'.state = s.state
        /\ LifeOf(s') = LifeOf(s) /\ DemandsOf(s') = DemandsOf(s)
        /\ \E w \in Works : w.kind \in Changes /\ s'.work = Append(s.work, w)
    BY <1>7, AsksChangeIs
  <2>2. Adds(s'.work, s.work)
    BY <2>1, AddsOne DEF TypeInv, SessionType, Changes
  <2>3. Quiet
    BY <1>1, <1>3, <2>1, <2>2 DEF Quiet
  <2> QED
    BY <1>1, <2>3, LifeQuiet
<1>8. CASE Acquire
  <2>1. /\ lane' = lane /\ s.state = "attached" /\ s'.state = s.state
        /\ LifeOf(s') = LifeOf(s) /\ DemandsOf(s') = DemandsOf(s) /\ s'.work = s.work
    BY <1>8, AcquireIs
  <2>2. Adds(s'.work, s.work)
    BY <2>1, GrownSelf, AddsGrown DEF TypeInv, SessionType
  <2>3. Quiet
    BY <1>1, <1>3, <2>1, <2>2 DEF Quiet
  <2> QED
    BY <1>1, <2>3, LifeQuiet
<1>9. CASE PostTiles
  <2>1. /\ lane' = lane /\ s'.state = s.state /\ Live(s)
        /\ LifeOf(s') = LifeOf(s) /\ SlotsOf(s') = SlotsOf(s) /\ Grown(s'.work, s.work)
    BY <1>9, PostTilesIs
  <2>2. Held(s') \subseteq Held(s) /\ ~Over(s) /\ s.state \notin {"abandoned", "failed"}
    BY <2>1, HeldKept DEF SlotsOf, Live, Over
  <2> QED
    BY <1>1, <2>1, <2>2, QuietGrown, LifeQuiet
<1>10. ASSUME NEW i \in Slots, ReleaseFrame(i) PROVE LifeInv'
  <2>1. /\ lane' = lane /\ s'.state = s.state /\ s'.slot = [s.slot EXCEPT ![i] = "free"]
        /\ LifeOf(s') = LifeOf(s) /\ DemandsOf(s') = DemandsOf(s)
        /\ Grown(s'.work, s.work) /\ (~Live(s) => s'.work = s.work)
    BY <1>10, ReleaseFrameIs DEF Sets
  <2>2. Held(s') \subseteq Held(s)
    BY <2>1, HeldKept DEF Sets
  <2>3. Over(s) \/ s.state = "failed" => s'.demands = <<>> /\ s'.waiting = <<>>
    BY <2>1 DEF LifeInv, EndInv, DemandsOf
  <2>4. s.state \in {"abandoned", "failed"} => s'.work = s.work
    BY <2>1 DEF Live
  <2> QED
    BY <1>1, <2>1, <2>2, <2>3, <2>4, QuietGrown, LifeQuiet
<1>11. ASSUME NEW i \in Slots, ReleaseAfterGpu(i) PROVE LifeInv'
  <2>1. /\ lane' = lane /\ s'.state = s.state /\ s.slot[i] = "held"
        /\ LifeOf(s') = LifeOf(s) /\ DemandsOf(s') = DemandsOf(s)
        /\ \E is : is # "held" /\ Sets(s', s, i, is)
        /\ \/ s'.work = s.work
           \/ /\ s.state \notin {"abandoned", "failed"}
              /\ s'.work = Append(s.work, Item("release", i)) /\ Item("release", i) \in Works
    BY <1>11, ReleaseAfterGpuIs
  <2>2. s.state \notin {"detaching", "detached"}
    BY <2>1 DEF LifeInv, StateInv, Held, SlotsThat
  <2>3. s'.work = s.work \/ s.state \in {"attaching", "attached"}
    BY <2>1, <2>2 DEF TypeInv, SessionType, States
  <2>4. Adds(s'.work, s.work)
    BY <2>1, <2>3, GrownSelf, AddsGrown, AddsOne DEF TypeInv, SessionType, Item
  <2>5. Over(s) \/ s.state = "failed" => s'.demands = <<>> /\ s'.waiting = <<>>
    BY <2>1 DEF LifeInv, EndInv, DemandsOf
  <2>6. Quiet
    BY <1>1, <2>1, <2>2, <2>3, <2>4, <2>5 DEF Quiet
  <2> QED
    BY <1>1, <2>6, LifeQuiet
<1>12. ASSUME NEW i \in Slots, Discard(i) PROVE LifeInv'
  <2>1. /\ lane' = lane /\ s'.state = s.state /\ LifeOf(s') = LifeOf(s)
        /\ Grown(s'.work, s.work) /\ (s.state # "attached" => s'.work = s.work)
        /\ Sets(s', s, i, "quarantined")
        /\ DemandsOf(s') = DemandsOf(s) \/ s.state = "attached"
    BY <1>12, DiscardIs
  <2>2. Held(s') \subseteq Held(s)
    BY <2>1, HeldKept
  <2>3. Over(s) \/ s.state = "failed" => s'.demands = <<>> /\ s'.waiting = <<>>
    BY <2>1 DEF LifeInv, EndInv, DemandsOf, Over
  <2> QED
    BY <1>1, <2>1, <2>2, <2>3, QuietGrown, LifeQuiet
<1>13. ASSUME NEW i \in Slots, BeginView(i) PROVE LifeInv'
  BY <1>1, <1>13, LifeBeginView
<1> QED
  BY <1>4, <1>5, <1>6, <1>7, <1>8, <1>9, <1>10, <1>11, <1>12, <1>13 DEF HostStep

LEMMA LifeEnding ==
  ASSUME TypeInv, LifeInv, TypeInv', EndingStep \/ EndingGoesOn
  PROVE  LifeInv'
<1>1. UNCHANGED <<map, driver>> /\ Stays
  BY DEF EndingStep, EndingGoesOn, Stays
<1>2. CASE Abandon \/ AbandonAfterCall
  <2>1. /\ lane' = lane /\ disposer' = disposer
        /\ \/ ~s.call /\ Abandonable(s) /\ Abandons(s', s)
           \/ PartsOf(s') = PartsOf(s) /\ abandoner' # "retiring"
    BY <1>2, AbandonIs, AbandonAfterCallIs
  <2>2. CASE PartsOf(s') = PartsOf(s) /\ abandoner' # "retiring"
    BY <1>1, <2>1, <2>2, QuietParts, LifeQuiet
  <2>3. CASE ~s.call /\ Abandonable(s) /\ Abandons(s', s)
    BY <1>1, <2>1, <2>3, LifeAbandons DEF Abandonable
  <2> QED
    BY <2>1, <2>2, <2>3
<1>3. CASE RetireGraphics
  <2>1. s.state = "abandoned"
    BY <1>3, RetireGraphicsIs DEF LifeInv, CallInv
  <2> QED
    BY <1>1, <1>3, <2>1, RetireGraphicsIs, LifeRetires
<1>4. CASE HookClose
  BY <1>1, <1>4, LifeHooks
<1>5. ASSUME NEW mode, Dispose(mode) PROVE LifeInv'
  BY <1>1, <1>5, LifeDispose
<1> QED
  BY <1>2, <1>3, <1>4, <1>5 DEF EndingStep, EndingGoesOn

LEMMA LifeMap ==
  ASSUME TypeInv, LifeInv, TypeInv', MapWork \/ MapStep
  PROVE  LifeInv'
<1>1. UNCHANGED <<driver, abandoner, disposer>> /\ Stays
  BY DEF MapWork, MapStep, Stays
<1>2. CASE CreateMap \/ SendCommand \/ RunCommand \/ CountCommand \/ SkipNotice \/ SendNotice
             \/ NoticeCommands \/ StoreUpdate
  <2>1. PartsOf(s') = PartsOf(s) /\ lane' = lane
    BY <1>2, MapWorkIs
  <2> QED
    BY <1>1, <2>1, QuietParts, LifeQuiet
<1>3. CASE Announce
  <2>1. /\ lane' = lane /\ Grown(s'.work, s.work) /\ LifeOf(s') = LifeOf(s)
        /\ SlotsOf(s') = SlotsOf(s) /\ s'.state = s.state
        /\ s'.demands = s.waiting \o s.demands /\ s'.waiting = <<>>
        /\ s.waiting = <<>> => s'.work = s.work
    BY <1>3, AnnounceIs DEF DemandsOf
  <2>2. <<>> \o <<>> = <<>>
    OBVIOUS
  <2>3. Over(s) \/ s.state = "failed" => s'.demands = <<>> /\ s'.waiting = <<>>
    BY <2>1, <2>2 DEF LifeInv, EndInv
  <2>4. s.state \in {"abandoned", "failed"} => s'.work = s.work
    BY <2>1 DEF LifeInv, EndInv, Over
  <2>5. Held(s') \subseteq Held(s)
    BY <2>1, HeldKept DEF SlotsOf
  <2> QED
    BY <1>1, <2>1, <2>3, <2>4, <2>5, QuietGrown, LifeQuiet
<1>4. CASE CloseMap
  BY <1>1, <1>4, LifeHooks
<1> QED
  BY <1>2, <1>3, <1>4 DEF MapWork, MapStep

LEMMA LifeStep ==
  ASSUME TypeInv, LifeInv, TypeInv', [Next]_vars
  PROVE  LifeInv'
<1>1. CASE GpuStep
  BY <1>1, LifeWaits DEF GpuStep
<1>2. CASE ViewStep
  BY <1>2, LifeEndView DEF ViewStep
<1>3. CASE Next
  BY <1>1, <1>2, <1>3, LifeDriver, LifeHost, LifeEnding, LifeLane, LifeMap DEF Next
<1>4. CASE UNCHANGED vars
  <2>1. PartsOf(s') = PartsOf(s) /\ lane' = lane /\ disposer' = disposer
        /\ abandoner' = abandoner /\ Stays
    BY <1>4 DEF vars, Stays
  <2> QED
    BY <2>1, QuietParts, LifeQuiet
<1> QED
  BY <1>3, <1>4

LEMMA LifeInit ==
  ASSUME Init
  PROVE  LifeInv
<1>1. /\ s.state = "attaching" /\ s.work = <<Item("attach", 0)>> /\ s.views = {}
      /\ s.due = FALSE /\ s.objects = TRUE /\ s.disposed = FALSE /\ s.hook = FALSE
  BY DEF Init
<1>2. driver = AtRest("idle") /\ abandoner = "idle" /\ disposer = "idle"
      /\ lane = [queued |-> 0, parked |-> 0, at |-> "idle"]
  BY DEF Init
<1>3. driver.at = "idle" /\ driver.item = NoItem
  BY <1>2 DEF AtRest
<1>4. lane.at = "idle" /\ InLane = 0
  BY <1>2 DEF InLane
<1>5. HandInv
  BY <1>1, <1>2, <1>3, <1>4 DEF HandInv, Disposing
<1>6. CallInv
  BY <1>1, <1>2, <1>3, <1>4 DEF CallInv
<1>7. DOMAIN s.work = {1} /\ s.work[1].kind = "attach"
  BY <1>1 DEF Item
<1>8. StateInv
  BY <1>1, <1>3, <1>7 DEF StateInv, Running, Rendering
<1> QED
  BY <1>1, <1>5, <1>6, <1>8 DEF LifeInv, EndInv, Over
-----------------------------------------------------------------------------
(* The session has its type, at every step, and the driver, the graphics   *)
(* and the lane keep out of one another's way.                             *)
LEMMA LifeHolds == Safety => [](TypeInv /\ LifeInv)
<1>1. Init => TypeInv /\ LifeInv
  BY TypeInit, LifeInit
<1>2. TypeInv /\ LifeInv /\ [Next]_vars => (TypeInv /\ LifeInv)'
  <2>1. TypeInv /\ LifeInv => StateInv
    BY DEF LifeInv
  <2> QED
    BY <2>1, TypeStep, LifeStep
<1> QED
  BY <1>1, <1>2, PTL DEF Safety

(* The session, its driver, the map, the lane and the threads that end a   *)
(* session keep their types, for any ring and any number of calls.         *)
THEOREM SessionTypeCorrect == Spec => []TypeInv
BY LifeHolds, PTL DEF Spec

(* The retirement node of a disposed session (retirement_node) is in one   *)
(* queue of the lane at a time, the lane abandons a session only while no  *)
(* driver call and no view is in its way, and never finds it unfit to be   *)
(* destroyed, whichever of the driver, a view, an abandon and the closing  *)
(* map hands it over.                                                      *)
THEOREM NodeIsRetiredOnce == Spec => []RetiredOnce
<1>1. TypeInv /\ LifeInv => RetiredOnce
  BY DEF LifeInv, HandInv, CallInv, RetiredOnce, InLane
<1> QED
  BY <1>1, LifeHolds, PTL DEF Spec

(* No thread uses the renderer, the map or the backend after they are      *)
(* freed: neither an attached session, nor a driver that renders or waits  *)
(* for the GPU, nor a host that looks at a frame, although a detach, a     *)
(* disposal, an abandon and the lane may each free them.                   *)
THEOREM GraphicsOutliveEveryUse == Spec => []GraphicsOutliveUse
<1>1. ASSUME TypeInv, LifeInv, ~s.objects PROVE ~UsesGraphics
  <2>1. s.state \in {"detached", "abandoned"} \/ driver.at = "detached"
    BY <1>1 DEF LifeInv, StateInv
  <2>2. s.state \in {"detaching", "detached", "abandoned"}
    BY <1>1, <2>1 DEF LifeInv, StateInv
  <2>3. s.views = {} /\ driver.at \notin Rendering
    BY <1>1, <2>1, <2>2 DEF LifeInv, StateInv, Rendering, Live
  <2>4. driver.at = "run" => driver.item.kind \in Harmless
    BY <1>1, <2>1 DEF LifeInv, StateInv
  <2> QED
    BY <2>2, <2>3, <2>4 DEF UsesGraphics, Rendering, Harmless
<1>2. TypeInv /\ LifeInv => GraphicsOutliveUse
  BY <1>1 DEF GraphicsOutliveUse, TypeInv, SessionType
<1> QED
  BY <1>2, LifeHolds, PTL DEF Spec
=============================================================================
