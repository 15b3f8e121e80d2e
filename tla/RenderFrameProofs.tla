--------------------------- MODULE RenderFrameProofs ---------------------------
(***************************************************************************)
(* Proofs about RenderSession, continued: its textures and its demands,    *)
(* from what RenderSessionProofs shows of each step and of the session's   *)
(* life.                                                                   *)
(***************************************************************************)
EXTENDS RenderSessionProofs

(* The work of some kinds, and how much of it a queue holds.               *)
Those(work, kinds) == {i \in DOMAIN work : work[i].kind \in kinds}
Count(work, kinds) == Cardinality(Those(work, kinds))

(* The textures.  A release that waits for the GPU holds its texture, and  *)
(* none is behind a change of the target.                                  *)
Changing == driver.at = "run" /\ driver.item.kind \in Changes

SlotInv ==
  /\ IsInjective(s.ready)
  /\ \A i \in ToSet(s.ready) : s.slot[i] = "free" /\ i \notin s.reading
  /\ s.objects => \A i \in s.reading : s.slot[i] \in {"held", "returning", "quarantined"}
  /\ driver.slot # 0 =>
       s.slot[driver.slot] = "rendering" /\ driver.at \in {"render", "draw", "publish", "wait"}

ReleaseInv ==
  /\ \A i \in DOMAIN s.work : s.work[i].kind = "release" =>
       s.work[i].of \in Slots /\ s.slot[s.work[i].of] = "returning"
  /\ Running("release") =>
       /\ driver.item.of \in Slots /\ s.slot[driver.item.of] = "returning"
       /\ \A i \in DOMAIN s.work : s.work[i] # driver.item
  /\ \A i, j \in DOMAIN s.work : s.work[i].kind = "release" /\ s.work[i] = s.work[j] => i = j
  /\ s.retargets >= Count(s.work, Changes) + (IF Changing THEN 1 ELSE 0)
  /\ s.retargets > 0 => Held(s) = {}
  /\ \A i, j \in DOMAIN s.work :
       s.work[i].kind \in Changes /\ s.work[j].kind = "release" => j < i
  /\ Changing => \A i \in DOMAIN s.work : s.work[i].kind # "release"

(* The demands.  Those without a result are queued, wait for an update, or *)
(* are in the driver's hands; only a disposed session drops them.          *)
Queued  == ToSet(s.demands) \union ToSet(s.waiting)
Open    == Queued \union ({driver.demand} \ {0})
Dropped == s.disposed /\ Over(s)

Apart ==
  /\ IsInjective(s.demands) /\ IsInjective(s.waiting)
  /\ ToSet(s.demands) \intersect ToSet(s.waiting) = {}
  /\ driver.demand \notin Queued

DemandInv ==
  /\ Apart /\ Open \subseteq Demands
  /\ driver.demand # 0 <=> driver.at \in Rendering
  /\ \A d \in Demands :
       /\ d \in Open => s.log[d].results = <<>>
       /\ d \notin Open =>
            Len(s.log[d].results) = 1 \/ (s.log[d].results = <<>> /\ Dropped)

(* A barrier comes behind every demand before it.                          *)
Barriers == {"barrier"}
Settled(n) == \A d \in Demands : d <= n => s.log[d].results # <<>> \/ d = driver.demand \/ Dropped

BarrierInv ==
  /\ s.barriers >= Count(s.work, Barriers) + (IF Running("barrier") THEN 1 ELSE 0)
  /\ \A i \in DOMAIN s.work : s.work[i].kind \in Barriers =>
       Settled(s.work[i].of) /\ s.work[i].of <= Len(s.log)
  /\ Running("barrier") => Settled(driver.item.of) /\ driver.item.of <= Len(s.log)
  /\ \A d \in Demands : d <= s.passed => s.log[d].results # <<>> \/ Dropped
  /\ s.passed <= Len(s.log)

(* The commands that a frame shows, and the update that a demand saw.      *)
MapInv ==
  /\ map.shows >= map.applied
  /\ map.at = "ran" => map.shows > map.applied

ShowsInv ==
  /\ driver.at \in {"render", "draw", "publish"} => map.applied >= s.log[driver.demand].needs
  /\ driver.at \in {"draw", "publish"} => driver.shows >= s.log[driver.demand].needs

ResultInv ==
  \A d \in Demands : \A i \in DOMAIN s.log[d].results :
    s.log[d].results[i] = Nothing \/ s.log[d].results[i] >= s.log[d].needs

LookInv == \A d \in ToSet(s.waiting) : s.log[d].looked = map.update \/ map.announce

FrameInv == MapInv /\ ShowsInv /\ ResultInv /\ LookInv

-----------------------------------------------------------------------------
(* Sequences without repetition.                                           *)
LEMMA AppendedIs ==
  ASSUME NEW T, NEW q \in Seq(T), NEW x \in T
  PROVE  /\ Append(q, x) \in Seq(T)
         /\ \A y : y \in ToSet(Append(q, x)) <=> y \in ToSet(q) \/ y = x
         /\ IsInjective(q) /\ x \notin ToSet(q) => IsInjective(Append(q, x))
<1> DEFINE r == Append(q, x)
<1>1. /\ r \in Seq(T) /\ Len(r) = Len(q) + 1 /\ r[Len(q) + 1] = x
      /\ \A i \in 1 .. Len(q) : r[i] = q[i]
      /\ DOMAIN r = 1 .. Len(r) /\ DOMAIN q = 1 .. Len(q) /\ Len(q) \in Nat
  OBVIOUS
<1> HIDE DEF r
<1>2. /\ \A y : y \in ToSet(r) <=> \E i \in 1 .. Len(r) : r[i] = y
      /\ \A y : y \in ToSet(q) <=> \E i \in 1 .. Len(q) : q[i] = y
  BY <1>1 DEF ToSet
<1>3. \A i \in 1 .. Len(r) : i \in 1 .. Len(q) \/ i = Len(q) + 1
  BY <1>1
<1>4. \A y : y \in ToSet(r) => y \in ToSet(q) \/ y = x
  BY <1>1, <1>2, <1>3
<1>5. Len(q) + 1 \in 1 .. Len(r) /\ \A i \in 1 .. Len(q) : i \in 1 .. Len(r)
  BY <1>1
<1>6. \A y : y \in ToSet(q) \/ y = x => y \in ToSet(r)
  BY <1>1, <1>2, <1>5
<1>7. ASSUME IsInjective(q), x \notin ToSet(q) PROVE IsInjective(r)
  <2> SUFFICES ASSUME NEW i \in 1 .. Len(r), NEW j \in 1 .. Len(r), r[i] = r[j]
               PROVE  i = j
    BY <1>1 DEF IsInjective
  <2>1. CASE i \in 1 .. Len(q) /\ j \in 1 .. Len(q)
    BY <1>1, <1>7, <2>1 DEF IsInjective
  <2>2. \A k \in 1 .. Len(q) : r[k] # x
    BY <1>1, <1>2, <1>7
  <2> QED
    BY <1>1, <1>3, <2>1, <2>2
<1> QED
  BY <1>1, <1>4, <1>6, <1>7 DEF r

LEMMA JoinedApart ==
  ASSUME NEW T, NEW p \in Seq(T), NEW q \in Seq(T), IsInjective(p), IsInjective(q),
         ToSet(p) \intersect ToSet(q) = {}
  PROVE  IsInjective(p \o q)
<1> DEFINE r == p \o q
<1>1. /\ r \in Seq(T) /\ Len(r) = Len(p) + Len(q)
      /\ \A i \in 1 .. Len(p) : r[i] = p[i]
      /\ \A i \in 1 .. Len(r) : i > Len(p) => i - Len(p) \in 1 .. Len(q) /\ r[i] = q[i - Len(p)]
      /\ DOMAIN r = 1 .. Len(r) /\ DOMAIN p = 1 .. Len(p) /\ DOMAIN q = 1 .. Len(q)
      /\ Len(p) \in Nat
  OBVIOUS
<1> HIDE DEF r
<1>2. \A i \in 1 .. Len(p), j \in 1 .. Len(q) : p[i] # q[j]
  BY <1>1 DEF ToSet
<1> SUFFICES ASSUME NEW i \in 1 .. Len(r), NEW j \in 1 .. Len(r), r[i] = r[j]
             PROVE  i = j
  BY <1>1 DEF IsInjective, r
<1>3. CASE i <= Len(p) /\ j <= Len(p)
  BY <1>1, <1>3 DEF IsInjective
<1>4. CASE i > Len(p) /\ j > Len(p)
  <2>1. /\ i - Len(p) \in 1 .. Len(q) /\ j - Len(p) \in 1 .. Len(q)
        /\ q[i - Len(p)] = q[j - Len(p)]
    BY <1>1, <1>4
  <2>2. i - Len(p) = j - Len(p)
    BY <1>1, <2>1 DEF IsInjective
  <2> QED
    BY <1>1, <2>2
<1>5. CASE i <= Len(p) /\ j > Len(p)
  BY <1>1, <1>2, <1>5
<1>6. CASE i > Len(p) /\ j <= Len(p)
  BY <1>1, <1>2, <1>6
<1> QED
  BY <1>1, <1>3, <1>4, <1>5, <1>6

LEMMA SingleIs ==
  ASSUME NEW T, NEW x \in T
  PROVE  <<x>> \in Seq(T) /\ IsInjective(<<x>>) /\ ToSet(<<x>>) = {x}
BY DEF IsInjective, ToSet

LEMMA TailIs ==
  ASSUME NEW T, NEW q \in Seq(T), q # <<>>, IsInjective(q)
  PROVE  /\ Tail(q) \in Seq(T) /\ IsInjective(Tail(q)) /\ Head(q) \in ToSet(q)
         /\ \A y : y \in ToSet(Tail(q)) <=> y \in ToSet(q) /\ y # Head(q)
<1> DEFINE r == Tail(q)
<1>1. /\ r \in Seq(T) /\ Len(q) \in Nat /\ Len(q) >= 1 /\ Len(r) = Len(q) - 1
      /\ \A i \in 1 .. Len(r) : i + 1 \in 1 .. Len(q) /\ r[i] = q[i + 1]
      /\ \A i \in 1 .. Len(q) : i # 1 => i - 1 \in 1 .. Len(r) /\ r[i - 1] = q[i]
      /\ DOMAIN r = 1 .. Len(r) /\ DOMAIN q = 1 .. Len(q) /\ Head(q) = q[1]
  OBVIOUS
<1> HIDE DEF r
<1>2. \A i, j \in 1 .. Len(q) : q[i] = q[j] => i = j
  BY <1>1 DEF IsInjective
<1>3. \A i, j \in 1 .. Len(r) : r[i] = r[j] => i = j
  <2> TAKE i, j \in 1 .. Len(r)
  <2>1. r[i] = r[j] => i + 1 = j + 1
    BY <1>1, <1>2
  <2> QED
    BY <1>1, <2>1
<1>4. IsInjective(r)
  BY <1>1, <1>3 DEF IsInjective
<1>5. /\ \A y : y \in ToSet(r) <=> \E i \in 1 .. Len(r) : r[i] = y
      /\ \A y : y \in ToSet(q) <=> \E i \in 1 .. Len(q) : q[i] = y
  BY <1>1 DEF ToSet
<1>6. 1 \in 1 .. Len(q) /\ \A i \in 1 .. Len(r) : i + 1 # 1
  BY <1>1
<1>7. \A y : y \in ToSet(r) => y \in ToSet(q) /\ y # q[1]
  BY <1>1, <1>2, <1>5, <1>6
<1>8. \A y : y \in ToSet(q) /\ y # q[1] => y \in ToSet(r)
  BY <1>1, <1>5
<1> QED
  BY <1>1, <1>4, <1>5, <1>6, <1>7, <1>8 DEF r

(* Counting the work of a queue.                                           *)
Beyond(w, v, kinds) ==
  /\ w \in Seq(Works) /\ Len(v) <= Len(w)
  /\ \A i \in 1 .. Len(v) : w[i] = v[i]
  /\ \A i \in 1 .. Len(w) : i > Len(v) => w[i].kind \notin kinds

LEMMA CountIs ==
  ASSUME NEW v \in Seq(Works), NEW kinds
  PROVE  /\ IsFiniteSet(Those(v, kinds)) /\ Count(v, kinds) \in Nat
         /\ Count(v, kinds) = 0 <=> \A i \in DOMAIN v : v[i].kind \notin kinds
<1>1. Those(v, kinds) \subseteq 1 .. Len(v) /\ Len(v) \in Nat
  BY DEF Those
<1>2. IsFiniteSet(1 .. Len(v))
  BY <1>1, FS_Interval
<1>3. IsFiniteSet(Those(v, kinds))
  BY <1>1, <1>2, FS_Subset
<1> QED
  BY <1>3, FS_CardinalityType, FS_EmptySet DEF Count, Those

LEMMA CountBeyond ==
  ASSUME NEW v \in Seq(Works), NEW w, NEW kinds, Beyond(w, v, kinds)
  PROVE  Those(w, kinds) = Those(v, kinds) /\ Count(w, kinds) = Count(v, kinds)
<1>1. DOMAIN v = 1 .. Len(v) /\ DOMAIN w = 1 .. Len(w) /\ Len(v) \in Nat /\ Len(w) \in Nat
  BY DEF Beyond
<1>2. \A i : i \in Those(w, kinds) <=> i \in Those(v, kinds)
  BY <1>1 DEF Those, Beyond
<1> QED
  BY <1>2 DEF Count

LEMMA CountAppended ==
  ASSUME NEW v \in Seq(Works), NEW x \in Works, NEW kinds
  PROVE  Count(Append(v, x), kinds) = Count(v, kinds) + IF x.kind \in kinds THEN 1 ELSE 0
<1> DEFINE w == Append(v, x)
           S == Those(v, kinds)
<1>1. /\ Len(w) = Len(v) + 1 /\ w[Len(v) + 1] = x /\ \A i \in 1 .. Len(v) : w[i] = v[i]
      /\ DOMAIN v = 1 .. Len(v) /\ DOMAIN w = 1 .. Len(w) /\ Len(v) \in Nat /\ w \in Seq(Works)
  OBVIOUS
<1>2. IsFiniteSet(S) /\ Count(v, kinds) \in Nat
  BY CountIs
<1> HIDE DEF w
<1>3. CASE x.kind \in kinds
  <2>1. \A i : i \in Those(w, kinds) <=> i \in S \union {Len(v) + 1}
    BY <1>1, <1>3 DEF Those
  <2>2. Those(w, kinds) = S \union {Len(v) + 1} /\ Len(v) + 1 \notin S
    BY <1>1, <2>1 DEF Those
  <2>3. Cardinality(Those(w, kinds)) = Cardinality(S) + 1
    BY <1>2, <2>2, FS_AddElement
  <2> QED
    BY <1>3, <2>3 DEF Count, w
<1>4. CASE x.kind \notin kinds
  <2>1. Beyond(w, v, kinds)
    BY <1>1, <1>4 DEF Beyond
  <2>2. Count(w, kinds) = Count(v, kinds)
    BY <2>1, CountBeyond
  <2> QED
    BY <1>2, <1>4, <2>2 DEF w
<1> QED
  BY <1>3, <1>4

LEMMA CountTail ==
  ASSUME NEW v \in Seq(Works), v # <<>>, NEW kinds
  PROVE  Count(v, kinds) = Count(Tail(v), kinds) + IF Head(v).kind \in kinds THEN 1 ELSE 0
<1> DEFINE w == Tail(v)
           S == Those(w, kinds)
           T == Those(v, kinds) \ {1}
           f == [i \in S |-> i + 1]
<1>1. /\ w \in Seq(Works) /\ Len(v) \in Nat /\ Len(v) >= 1 /\ Len(w) = Len(v) - 1
      /\ \A i \in 1 .. Len(w) : i + 1 \in 1 .. Len(v) /\ w[i] = v[i + 1]
      /\ \A i \in 1 .. Len(v) : i # 1 => i - 1 \in 1 .. Len(w) /\ w[i - 1] = v[i]
      /\ DOMAIN w = 1 .. Len(w) /\ DOMAIN v = 1 .. Len(v) /\ Head(v) = v[1]
  OBVIOUS
<1> HIDE DEF w
<1>2. /\ \A i : i \in S <=> i \in 1 .. Len(w) /\ w[i].kind \in kinds
      /\ \A i : i \in T <=> i \in 1 .. Len(v) /\ v[i].kind \in kinds /\ i # 1
      /\ S \subseteq Nat /\ T \subseteq Nat
  BY <1>1 DEF Those
<1>3. IsFiniteSet(S) /\ IsFiniteSet(Those(v, kinds))
  BY <1>1, CountIs
<1>4. \A i \in S : i + 1 \in T
  <2> SUFFICES ASSUME NEW i \in S PROVE i + 1 \in T
    OBVIOUS
  <2>1. i \in 1 .. Len(w) /\ w[i].kind \in kinds
    BY <1>2
  <2>2. i + 1 \in 1 .. Len(v) /\ v[i + 1].kind \in kinds /\ i + 1 # 1
    BY <1>1, <2>1
  <2> QED
    BY <1>2, <2>2
<1>5. \A i \in T : i - 1 \in S /\ (i - 1) + 1 = i
  BY <1>1, <1>2
<1>6. \A i, j \in S : i + 1 = j + 1 => i = j
  BY <1>2
<1> HIDE DEF S, T
<1>7. f \in Bijection(S, T)
  <2>1. f \in [S -> T] /\ \A i \in S : f[i] = i + 1
    BY <1>4
  <2>2. \A j \in T : \E i \in S : f[i] = j
    BY <1>5, <2>1
  <2>3. \A i, j \in S : f[i] = f[j] => i = j
    BY <1>6, <2>1
  <2> HIDE DEF f
  <2> QED
    BY <2>1, <2>2, <2>3 DEF Bijection, Injection, Surjection, IsInjective
<1>8. Cardinality(T) = Cardinality(S)
  BY <1>3, <1>7, FS_Bijection DEF ExistsBijection
<1>9. Cardinality(T) = IF Head(v).kind \in kinds THEN Count(v, kinds) - 1 ELSE Count(v, kinds)
  <2>1. 1 \in Those(v, kinds) <=> Head(v).kind \in kinds
    BY <1>1 DEF Those
  <2> QED
    BY <1>3, <2>1, FS_RemoveElement DEF Count, T
<1>10. Cardinality(T) = Count(Tail(v), kinds)
  BY <1>8 DEF Count, S, w
<1> QED
  BY <1>9, <1>10, CountIs
-----------------------------------------------------------------------------
(* The releases: a step that leaves them, ends them, or adds to them.      *)
Plain(w, v) == Beyond(w, v, {"release"} \union Changes)

LEMMA PlainIs ==
  ASSUME NEW v \in Seq(Works), NEW w
  PROVE  /\ Grown(w, v) => Plain(w, v)
         /\ w = v => Plain(w, v)
         /\ \A x \in Works : /\ x.kind \notin {"release"} \union Changes
                             /\ w = Append(v, x)
                             => Plain(w, v)
<1>1. Harmless \intersect ({"release"} \union Changes) = {}
  BY DEF Harmless, Changes
<1>2. Grown(w, v) => Plain(w, v)
  BY <1>1 DEF Grown, Plain, Beyond
<1>3. w = v => Plain(w, v)
  BY DEF Plain, Beyond
<1>4. ASSUME NEW x \in Works, x.kind \notin {"release"} \union Changes, w = Append(v, x)
      PROVE  Plain(w, v)
  BY <1>4 DEF Plain, Beyond
<1> QED
  BY <1>2, <1>3, <1>4

LEMMA WorkSame ==
  ASSUME NEW x \in Works, NEW y \in Works, x.kind = y.kind, x.of = y.of
  PROVE  x = y
BY DEF Works

LEMMA PlainParts ==
  ASSUME NEW v \in Seq(Works), NEW w, Plain(w, v)
  PROVE  /\ w \in Seq(Works) /\ Beyond(w, v, Changes)
         /\ \A i \in DOMAIN w : w[i].kind \in {"release"} \union Changes =>
              i \in DOMAIN v /\ w[i] = v[i]
BY DEF Plain, Beyond

(* Where the driver is does not matter to the textures, unless it has one  *)
(* or runs work.                                                           *)
NotRunning == driver'.at # "run"

LEMMA ReleasesKept ==
  ASSUME TypeInv, TypeInv', ReleaseInv, Plain(s'.work, s.work),
         s'.retargets = s.retargets \/ (Changing /\ NotRunning /\ s'.retargets = s.retargets - 1),
         Held(s') \subseteq Held(s), NotRunning \/ Stays,
         \A i \in Slots : s.slot[i] = "returning" =>
           \/ s'.slot[i] = "returning"
           \/ Running("release") /\ i = driver.item.of /\ NotRunning
           \/ Changing
  PROVE  ReleaseInv'
<1>1. s.work \in Seq(Works) /\ s'.work \in Seq(Works) /\ s.retargets \in Int
      /\ s'.retargets \in Int
  BY DEF TypeInv, SessionType
<1>2. /\ \A i \in DOMAIN s'.work : s'.work[i].kind \in {"release"} \union Changes =>
           i \in DOMAIN s.work /\ s'.work[i] = s.work[i]
      /\ Count(s'.work, Changes) = Count(s.work, Changes) /\ Count(s.work, Changes) \in Nat
  BY <1>1, PlainParts, CountBeyond, CountIs
<1>3. (Running("release")' => Running("release") /\ driver'.item = driver.item)
      /\ (Changing' => Changing)
  BY DEF Stays, NotRunning, Running, Changing
<1>4. Running("release") => driver.item \in Works /\ driver.item.kind = "release"
  BY DEF TypeInv, Drivers, NoItem, Running
<1>5. \A i \in DOMAIN s.work : s.work[i].kind = "release" /\ Running("release") =>
        s.work[i].of # driver.item.of
  <2>1. \A i \in DOMAIN s.work : s.work[i] \in Works
    BY <1>1
  <2>2. \A i \in DOMAIN s.work : Running("release") => s.work[i] # driver.item
    BY DEF ReleaseInv
  <2> QED
    BY <1>4, <2>1, <2>2, WorkSame
<1>6. \A i \in DOMAIN s.work : s.work[i].kind = "release" =>
        s.work[i].of \in Slots /\ s'.slot[s.work[i].of] = "returning"
  BY <1>5 DEF ReleaseInv
<1>7. \A i \in DOMAIN s'.work : s'.work[i].kind = "release" =>
        s'.work[i].of \in Slots /\ s'.slot[s'.work[i].of] = "returning"
  BY <1>2, <1>6
<1>8. Running("release")' =>
        /\ driver'.item.of \in Slots /\ s'.slot[driver'.item.of] = "returning"
        /\ \A i \in DOMAIN s'.work : s'.work[i] # driver'.item
  <2> SUFFICES ASSUME Running("release")'
               PROVE  /\ driver.item.of \in Slots /\ s'.slot[driver.item.of] = "returning"
                      /\ \A i \in DOMAIN s'.work : s'.work[i] # driver.item
    BY <1>3
  <2>1. Running("release") /\ driver.item.kind = "release" /\ ~NotRunning /\ ~Changing
    BY <1>3 DEF Running, Changes, NotRunning, Changing
  <2>2. driver.item.of \in Slots /\ s'.slot[driver.item.of] = "returning"
    BY <2>1 DEF ReleaseInv
  <2>3. \A i \in DOMAIN s'.work : s'.work[i] # driver.item
    BY <1>2, <2>1 DEF ReleaseInv
  <2> QED
    BY <2>2, <2>3
<1>9. \A i, j \in DOMAIN s'.work :
        s'.work[i].kind = "release" /\ s'.work[i] = s'.work[j] => i = j
  BY <1>2 DEF ReleaseInv
<1>10. s'.retargets >= Count(s'.work, Changes) + (IF Changing' THEN 1 ELSE 0)
  BY <1>1, <1>2, <1>3 DEF ReleaseInv, NotRunning, Changing
<1>11. s'.retargets > 0 => Held(s') = {}
  BY <1>1 DEF ReleaseInv
<1>12. \A i, j \in DOMAIN s'.work :
         s'.work[i].kind \in Changes /\ s'.work[j].kind = "release" => j < i
  BY <1>2 DEF ReleaseInv
<1>13. Changing' => \A i \in DOMAIN s'.work : s'.work[i].kind # "release"
  BY <1>2, <1>3 DEF ReleaseInv
<1> QED
  BY <1>7, <1>8, <1>9, <1>10, <1>11, <1>12, <1>13 DEF ReleaseInv

LEMMA ReleasesEnd ==
  ASSUME TypeInv, TypeInv', ReleaseInv, NotRunning, s'.retargets = s.retargets,
         Held(s') \subseteq Held(s),
         \A i \in DOMAIN s'.work : s'.work[i].kind \notin {"release"} \union Changes
  PROVE  ReleaseInv'
<1>1. s'.work \in Seq(Works) /\ s.work \in Seq(Works) /\ s.retargets \in Int
  BY DEF TypeInv, SessionType
<1>2. Count(s'.work, Changes) = 0 /\ Count(s.work, Changes) \in Nat
  BY <1>1, CountIs
<1>3. s.retargets >= 0
  BY <1>1, <1>2 DEF ReleaseInv
<1> QED
  BY <1>1, <1>2, <1>3 DEF ReleaseInv, NotRunning, Running, Changing

LEMMA ReleasesTaken ==
  ASSUME TypeInv, TypeInv', ReleaseInv, s.work # <<>>, s'.work = Tail(s.work),
         SlotsOf(s') = SlotsOf(s), driver'.item = Head(s.work), driver.at # "run"
  PROVE  ReleaseInv'
<1>1. s.work \in Seq(Works) /\ s'.slot = s.slot /\ s'.retargets = s.retargets
      /\ s.retargets \in Int /\ Held(s') = Held(s)
  BY DEF TypeInv, SessionType, SlotsOf, Held, SlotsThat
<1>2. /\ Len(s.work) \in Nat /\ Len(s.work) >= 1 /\ DOMAIN s.work = 1 .. Len(s.work)
      /\ \A i \in DOMAIN s'.work : /\ i \in Nat /\ i + 1 \in DOMAIN s.work /\ 1 # i + 1
                                   /\ 1 < i + 1 /\ s'.work[i] = s.work[i + 1]
      /\ Head(s.work) = s.work[1] /\ 1 \in DOMAIN s.work
  BY <1>1
<1>3. Count(s.work, Changes) =
        Count(s'.work, Changes) + IF driver'.item.kind \in Changes THEN 1 ELSE 0
  BY <1>1, CountTail
<1>4. Count(s'.work, Changes) \in Nat
  BY CountIs DEF TypeInv, SessionType
<1>5. \A i, j \in DOMAIN s'.work : i + 1 = j + 1 => i = j
  BY <1>2
<1>6. \A i, j \in DOMAIN s'.work : j + 1 < i + 1 => j < i
  BY <1>2
<1>7. \A i \in DOMAIN s'.work : s'.work[i].kind = "release" =>
        s'.work[i].of \in Slots /\ s'.slot[s'.work[i].of] = "returning"
  BY <1>1, <1>2 DEF ReleaseInv
<1>8. Running("release")' =>
        /\ driver'.item.of \in Slots /\ s'.slot[driver'.item.of] = "returning"
        /\ \A i \in DOMAIN s'.work : s'.work[i] # driver'.item
  <2> SUFFICES ASSUME driver'.item.kind = "release"
               PROVE  /\ driver'.item.of \in Slots /\ s'.slot[driver'.item.of] = "returning"
                      /\ \A i \in DOMAIN s'.work : s'.work[i] # driver'.item
    BY DEF Running
  <2>1. \A i \in DOMAIN s.work : s.work[1] = s.work[i] => 1 = i
    BY <1>2 DEF ReleaseInv
  <2> QED
    BY <1>1, <1>2, <2>1 DEF ReleaseInv
<1>9. \A i, j \in DOMAIN s'.work :
        s'.work[i].kind = "release" /\ s'.work[i] = s'.work[j] => i = j
  BY <1>2, <1>5 DEF ReleaseInv
<1>10. s'.retargets >= Count(s'.work, Changes) + (IF Changing' THEN 1 ELSE 0)
  BY <1>1, <1>3, <1>4 DEF ReleaseInv, Changing
<1>11. \A i, j \in DOMAIN s'.work :
         s'.work[i].kind \in Changes /\ s'.work[j].kind = "release" => j < i
  BY <1>2, <1>6 DEF ReleaseInv
<1>12. Changing' => \A i \in DOMAIN s'.work : s'.work[i].kind # "release"
  <2> SUFFICES ASSUME s.work[1].kind \in Changes, NEW i \in DOMAIN s'.work,
                      s'.work[i].kind = "release"
               PROVE  FALSE
    BY <1>2 DEF Changing
  <2>1. i + 1 < 1
    BY <1>2 DEF ReleaseInv
  <2> QED
    BY <1>2, <2>1
<1> QED
  BY <1>1, <1>7, <1>8, <1>9, <1>10, <1>11, <1>12 DEF ReleaseInv

LEMMA ReleasesAsked ==
  ASSUME TypeInv, TypeInv', ReleaseInv, NEW i \in Slots, s.slot[i] = "held",
         Sets(s', s, i, "returning"), s'.work = Append(s.work, Item("release", i)),
         Item("release", i) \in Works, s'.retargets = s.retargets, driver' = driver
  PROVE  ReleaseInv'
<1>1. s.work \in Seq(Works) /\ s.retargets \in Int /\ Count(s.work, Changes) \in Nat
      /\ s.slot \in [Slots -> {"free", "rendering", "held", "returning", "quarantined"}]
  BY CountIs DEF TypeInv, SessionType
<1>2. s.retargets <= 0
  BY <1>1 DEF ReleaseInv, Held, SlotsThat
<1>3. Count(s.work, Changes) = 0 /\ ~Changing /\ s.retargets = 0
  BY <1>1, <1>2 DEF ReleaseInv
<1>4. \A j \in DOMAIN s.work : s.work[j].kind \notin Changes
  BY <1>1, <1>3, CountIs
<1>5. Item("release", i).kind = "release" /\ Item("release", i).of = i /\ "release" \notin Changes
  BY DEF Item, Changes
<1>6. Count(s'.work, Changes) = 0
  BY <1>1, <1>3, <1>5, CountAppended
<1>7. s'.slot[i] = "returning" /\ \A j \in Slots : j # i => s'.slot[j] = s.slot[j]
  BY <1>1 DEF Sets
<1>8. \A j \in DOMAIN s'.work :
        \/ j \in DOMAIN s.work /\ s'.work[j] = s.work[j] /\ s.work[j] # Item("release", i)
        \/ j = Len(s.work) + 1 /\ s'.work[j] = Item("release", i)
  <2>1. \A j \in DOMAIN s.work : s.work[j] # Item("release", i)
    BY <1>5 DEF ReleaseInv
  <2> QED
    BY <1>1, <2>1
<1>9. \A j \in DOMAIN s'.work : s'.work[j].kind = "release" =>
        s'.work[j].of \in Slots /\ s'.slot[s'.work[j].of] = "returning"
  BY <1>5, <1>7, <1>8 DEF ReleaseInv
<1>10. Running("release") =>
         /\ driver.item.of \in Slots /\ s'.slot[driver.item.of] = "returning"
         /\ \A j \in DOMAIN s'.work : s'.work[j] # driver.item
  BY <1>5, <1>7, <1>8 DEF ReleaseInv
<1>11. \A j, k \in DOMAIN s'.work :
         s'.work[j].kind = "release" /\ s'.work[j] = s'.work[k] => j = k
  BY <1>8 DEF ReleaseInv
<1>12. \A j \in DOMAIN s'.work : s'.work[j].kind \notin Changes
  BY <1>4, <1>5, <1>8
<1> QED
  BY <1>2, <1>3, <1>6, <1>9, <1>10, <1>11, <1>12 DEF ReleaseInv, Running, Changing

LEMMA ReleasesBefore ==
  ASSUME TypeInv, TypeInv', ReleaseInv, NEW w \in Works, w.kind \in Changes,
         s'.work = Append(s.work, w), Held(s) = {}, s'.slot = s.slot,
         s'.retargets = s.retargets + 1, driver' = driver
  PROVE  ReleaseInv'
<1>1. s.work \in Seq(Works) /\ s.retargets \in Int /\ Count(s.work, Changes) \in Nat
  BY CountIs DEF TypeInv, SessionType
<1>2. Count(s'.work, Changes) = Count(s.work, Changes) + 1
  BY <1>1, CountAppended
<1>3. Held(s') = {} /\ w.kind # "release"
  BY DEF Held, SlotsThat, Changes
<1>4. \A j \in DOMAIN s'.work :
        \/ j \in DOMAIN s.work /\ s'.work[j] = s.work[j] /\ j < Len(s.work) + 1
        \/ j = Len(s.work) + 1 /\ s'.work[j] = w
  BY <1>1
<1>5. \A j \in DOMAIN s'.work : s'.work[j].kind = "release" =>
        s'.work[j].of \in Slots /\ s'.slot[s'.work[j].of] = "returning"
  BY <1>3, <1>4 DEF ReleaseInv
<1>6. Running("release") =>
        /\ driver.item.of \in Slots /\ s'.slot[driver.item.of] = "returning"
        /\ \A j \in DOMAIN s'.work : s'.work[j] # driver.item
  BY <1>3, <1>4 DEF ReleaseInv, Running
<1>7. \A j, k \in DOMAIN s'.work :
        s'.work[j].kind = "release" /\ s'.work[j] = s'.work[k] => j = k
  BY <1>3, <1>4 DEF ReleaseInv
<1>8. \A j, k \in DOMAIN s'.work :
        s'.work[j].kind \in Changes /\ s'.work[k].kind = "release" => k < j
  BY <1>3, <1>4 DEF ReleaseInv
<1>9. \A j \in DOMAIN s'.work : Changing => s'.work[j].kind # "release"
  BY <1>3, <1>4 DEF ReleaseInv
<1>10. s'.retargets >= Count(s'.work, Changes) + (IF Changing THEN 1 ELSE 0)
  BY <1>1, <1>2 DEF ReleaseInv
<1> QED
  BY <1>3, <1>5, <1>6, <1>7, <1>8, <1>9, <1>10 DEF ReleaseInv, Running, Changing

(* The textures, one after the other.                                      *)
Handed == {"held", "returning", "quarantined"}

DriverKeeps ==
  \/ driver'.slot = 0
  \/ driver'.slot = driver.slot /\ driver'.at \in {"render", "draw", "publish", "wait"}

LEMMA ReadyIs ==
  ASSUME TypeInv
  PROVE  /\ s.ready \in Seq(Slots) /\ ToSet(s.ready) \subseteq Slots
         /\ ToSet(<<>>) = {} /\ IsInjective(<<>>)
BY ToSetIs DEF TypeInv, SessionType, ToSet, IsInjective

LEMMA SlotFrom ==
  ASSUME IsInjective(s'.ready),
         \A i \in ToSet(s'.ready) : s'.slot[i] = "free" /\ i \notin s'.reading,
         s'.objects => \A i \in s'.reading : s'.slot[i] \in {"held", "returning", "quarantined"},
         driver'.slot # 0 =>
           s'.slot[driver'.slot] = "rendering"
           /\ driver'.at \in {"render", "draw", "publish", "wait"}
  PROVE  SlotInv'
BY DEF SlotInv

LEMMA SlotsKept ==
  ASSUME TypeInv, SlotInv, s'.slot = s.slot, s'.ready = s.ready \/ s'.ready = <<>>,
         s'.reading = s.reading, s'.objects => s.objects,
         DriverKeeps \/ (Stays /\ driver'.slot = driver.slot)
  PROVE  SlotInv'
<1>1. IsInjective(s'.ready) /\ \A i \in ToSet(s'.ready) : i \in ToSet(s.ready)
  BY ReadyIs DEF SlotInv
<1>2. driver'.slot # 0 =>
        s'.slot[driver'.slot] = "rendering" /\ driver'.at \in {"render", "draw", "publish", "wait"}
  BY DEF SlotInv, DriverKeeps, Stays
<1> QED
  BY <1>1, <1>2 DEF SlotInv

(* A texture that nobody reads or renders into is free again ...           *)
LEMMA SlotFree ==
  ASSUME TypeInv, SlotInv, NEW i \in Slots, Sets(s', s, i, "free"), s'.ready = s.ready,
         s'.objects => s.objects, s.slot[i] # "free",
         s'.reading = s.reading \ {i}
           \/ (s'.reading = s.reading /\ (s.objects => i \notin s.reading)),
         driver'.slot = 0 \/ (Stays /\ driver'.slot = driver.slot /\ driver.slot # i)
  PROVE  SlotInv'
<1>1. /\ s.slot \in [Slots -> {"free", "rendering", "held", "returning", "quarantined"}]
      /\ s.reading \subseteq Slots /\ driver.slot \in {0} \union Slots
  BY DEF TypeInv, SessionType, Drivers
<1>2. s'.slot[i] = "free" /\ \A j \in Slots : j # i => s'.slot[j] = s.slot[j]
  BY <1>1 DEF Sets
<1>3. \A j \in ToSet(s.ready) : j \in Slots /\ j # i
  BY ReadyIs DEF SlotInv
<1>4. \A j \in ToSet(s'.ready) : s'.slot[j] = "free" /\ j \notin s'.reading
  BY <1>2, <1>3 DEF SlotInv
<1>5. s'.objects => \A j \in s'.reading : s'.slot[j] \in {"held", "returning", "quarantined"}
  BY <1>1, <1>2 DEF SlotInv
<1>6. driver'.slot # 0 =>
        s'.slot[driver'.slot] = "rendering" /\ driver'.at \in {"render", "draw", "publish", "wait"}
  BY <1>1, <1>2 DEF SlotInv, Stays
<1>7. IsInjective(s'.ready)
  BY DEF SlotInv
<1> QED
  BY <1>4, <1>5, <1>6, <1>7, SlotFrom

(* ... one that is handed back, or never comes back, is not.               *)
LEMMA SlotHandedBack ==
  ASSUME TypeInv, SlotInv, NEW i \in Slots, NEW is \in Handed, Sets(s', s, i, is),
         s.slot[i] \in Handed, s'.ready = s.ready, s'.reading = s.reading,
         s'.objects = s.objects, driver'.slot = 0 \/ (Stays /\ driver'.slot = driver.slot)
  PROVE  SlotInv'
<1>1. /\ s.slot \in [Slots -> {"free", "rendering", "held", "returning", "quarantined"}]
      /\ s.reading \subseteq Slots /\ driver.slot \in {0} \union Slots
  BY DEF TypeInv, SessionType, Drivers
<1>2. s'.slot[i] = is /\ \A j \in Slots : j # i => s'.slot[j] = s.slot[j]
  BY <1>1 DEF Sets
<1>3. \A j \in ToSet(s.ready) : j \in Slots /\ j # i
  BY ReadyIs DEF SlotInv, Handed
<1>4. \A j \in ToSet(s'.ready) : s'.slot[j] = "free" /\ j \notin s'.reading
  BY <1>2, <1>3 DEF SlotInv
<1>5. s'.objects => \A j \in s'.reading : s'.slot[j] \in {"held", "returning", "quarantined"}
  BY <1>1, <1>2 DEF SlotInv, Handed
<1>6. driver'.slot # 0 =>
        s'.slot[driver'.slot] = "rendering" /\ driver'.at \in {"render", "draw", "publish", "wait"}
  BY <1>1, <1>2 DEF SlotInv, Handed, Stays
<1> QED
  BY <1>4, <1>5, <1>6 DEF SlotInv

LEMMA SlotAcquired ==
  ASSUME TypeInv, SlotInv, NEW i \in ToSet(s.ready), Sets(s', s, i, "held"),
         s'.ready = <<>>, s'.reading = s.reading \union {i}, s'.objects = s.objects,
         driver' = driver
  PROVE  SlotInv'
<1>1. /\ s.slot \in [Slots -> {"free", "rendering", "held", "returning", "quarantined"}]
      /\ s.reading \subseteq Slots /\ driver.slot \in {0} \union Slots /\ i \in Slots
      /\ ToSet(s'.ready) = {} /\ IsInjective(s'.ready)
  BY ReadyIs DEF TypeInv, SessionType, Drivers
<1>2. s'.slot[i] = "held" /\ \A j \in Slots : j # i => s'.slot[j] = s.slot[j]
  BY <1>1 DEF Sets
<1>3. s.slot[i] = "free"
  BY DEF SlotInv
<1>4. s'.objects => \A j \in s'.reading : s'.slot[j] \in {"held", "returning", "quarantined"}
  BY <1>1, <1>2 DEF SlotInv
<1>5. driver'.slot # 0 =>
        s'.slot[driver'.slot] = "rendering" /\ driver'.at \in {"render", "draw", "publish", "wait"}
  BY <1>1, <1>2, <1>3 DEF SlotInv
<1> QED
  BY <1>1, <1>4, <1>5 DEF SlotInv

LEMMA SlotPicked ==
  ASSUME TypeInv, SlotInv, NEW i \in Slots, s.slot[i] = "free" \/ i \in ToSet(s.ready),
         Sets(s', s, i, "rendering"), s'.ready = Without(s.ready, {i}),
         s'.reading = s.reading, s'.objects = s.objects, s.objects,
         driver'.slot = i, driver'.at = "render"
  PROVE  SlotInv'
<1>1. /\ s.slot \in [Slots -> {"free", "rendering", "held", "returning", "quarantined"}]
      /\ s.reading \subseteq Slots /\ s.ready \in Seq(Slots) /\ ToSet(s.ready) \subseteq Slots
  BY ReadyIs DEF TypeInv, SessionType
<1>2. s'.slot[i] = "rendering" /\ \A j \in Slots : j # i => s'.slot[j] = s.slot[j]
  BY <1>1 DEF Sets
<1>3. /\ \A j : j \in ToSet(s'.ready) <=> j \in ToSet(s.ready) /\ j # i
      /\ IsInjective(s'.ready)
  BY <1>1, WithoutIs DEF SlotInv
<1>4. i \notin s.reading
  BY DEF SlotInv
<1>5. \A j \in ToSet(s'.ready) : s'.slot[j] = "free" /\ j \notin s'.reading
  <2>1. \A j \in ToSet(s'.ready) : j \in ToSet(s.ready) /\ j # i /\ j \in Slots
    BY <1>1, <1>3
  <2> QED
    BY <1>2, <2>1 DEF SlotInv
<1>6. \A j \in s'.reading : s'.slot[j] \in {"held", "returning", "quarantined"}
  BY <1>1, <1>2, <1>4 DEF SlotInv
<1> QED
  BY <1>2, <1>3, <1>5, <1>6, SlotFrom

LEMMA SlotPublished ==
  ASSUME TypeInv, SlotInv, NEW i \in Slots, i = driver.slot, Sets(s', s, i, "free"),
         s'.ready = Append(s.ready, i), s'.reading = s.reading, s'.objects = s.objects,
         s.objects, driver'.slot = 0
  PROVE  SlotInv'
<1>1. /\ s.slot \in [Slots -> {"free", "rendering", "held", "returning", "quarantined"}]
      /\ s.reading \subseteq Slots /\ s.ready \in Seq(Slots) /\ ToSet(s.ready) \subseteq Slots
  BY ReadyIs DEF TypeInv, SessionType
<1>2. s'.slot[i] = "free" /\ \A j \in Slots : j # i => s'.slot[j] = s.slot[j]
  BY <1>1 DEF Sets
<1>3. s.slot[i] = "rendering" /\ i \notin ToSet(s.ready) /\ i \notin s.reading
  BY DEF SlotInv, Slots
<1>4. /\ \A j : j \in ToSet(s'.ready) <=> j \in ToSet(s.ready) \/ j = i
      /\ IsInjective(s'.ready)
  BY <1>1, <1>3, AppendedIs DEF SlotInv
<1> QED
  BY <1>1, <1>2, <1>3, <1>4 DEF SlotInv

(* The releases that a cancelled queue held.                               *)
LEMMA CutReturning ==
  ASSUME TypeInv, ReleaseInv
  PROVE  \A i \in Cancelled(s) : i \in Slots /\ s.slot[i] = "returning"
<1>1. s.work \in Seq(Works)
  BY DEF TypeInv, SessionType
<1>2. \A i \in Cancelled(s) : \E j \in DOMAIN s.work : s.work[j] = Item("release", i)
  BY <1>1, ToSetIs DEF Cancelled
<1> QED
  BY <1>2 DEF ReleaseInv, Item, Cancelled

LEMMA SlotsCut ==
  ASSUME TypeInv, SlotInv, ReleaseInv, NEW to \in {"free", "quarantined"}, Cuts(s', s, to),
         s'.ready = s.ready \/ s'.ready = <<>>, s'.objects => s.objects,
         IF to = "free" /\ s.objects THEN s'.reading = s.reading \ Cancelled(s)
         ELSE s'.reading = s.reading,
         driver'.slot = 0 \/ (Stays /\ driver'.slot = driver.slot)
  PROVE  SlotInv'
<1>1. /\ s.slot \in [Slots -> {"free", "rendering", "held", "returning", "quarantined"}]
      /\ s.reading \subseteq Slots /\ driver.slot \in {0} \union Slots
  BY DEF TypeInv, SessionType, Drivers
<1>2. \A i \in Slots : s'.slot[i] = IF i \in Cancelled(s) THEN to ELSE s.slot[i]
  BY DEF Cuts
<1>3. \A i \in Cancelled(s) : s.slot[i] = "returning"
  BY CutReturning
<1>4. /\ IsInjective(s'.ready)
      /\ \A i \in ToSet(s'.ready) : i \in Slots /\ i \in ToSet(s.ready)
  BY ReadyIs DEF SlotInv
<1>5. \A i \in ToSet(s'.ready) : s'.slot[i] = "free" /\ i \notin s'.reading
  BY <1>2, <1>3, <1>4 DEF SlotInv
<1>6. s'.objects => \A i \in s'.reading : s'.slot[i] \in {"held", "returning", "quarantined"}
  BY <1>1, <1>2 DEF SlotInv
<1>7. driver'.slot # 0 =>
        s'.slot[driver'.slot] = "rendering" /\ driver'.at \in {"render", "draw", "publish", "wait"}
  BY <1>1, <1>2, <1>3 DEF SlotInv, Stays
<1> QED
  BY <1>4, <1>5, <1>6, <1>7 DEF SlotInv

(* The steps.                                                              *)
TextureInv == SlotInv /\ ReleaseInv

LEMMA SlotsSame ==
  ASSUME SlotsOf(s') = SlotsOf(s)
  PROVE  /\ s'.slot = s.slot /\ s'.ready = s.ready /\ s'.reading = s.reading
         /\ s'.retargets = s.retargets /\ Held(s') = Held(s)
BY DEF SlotsOf, Held, SlotsThat

LEMMA TexturesKept ==
  ASSUME TypeInv, TypeInv', TextureInv, s'.slot = s.slot, s'.reading = s.reading,
         s'.ready = s.ready \/ s'.ready = <<>>, s'.retargets = s.retargets,
         s'.objects => s.objects, Plain(s'.work, s.work),
         (Stays /\ driver'.slot = driver.slot) \/ (NotRunning /\ DriverKeeps)
  PROVE  TextureInv'
<1>1. Held(s') \subseteq Held(s)
  BY DEF Held, SlotsThat
<1>2. NotRunning \/ Stays
  OBVIOUS
<1>3. ReleaseInv'
  BY <1>1, <1>2, ReleasesKept DEF TextureInv
<1>4. SlotInv'
  BY SlotsKept DEF TextureInv
<1> QED
  BY <1>3, <1>4 DEF TextureInv

(* A driver that has no texture keeps to that.                             *)
LEMMA NoSlot ==
  ASSUME TypeInv, SlotInv, driver.at \notin {"render", "draw", "publish", "wait"}
  PROVE  driver.slot = 0
BY DEF SlotInv

LEMMA TexturesInCalls ==
  ASSUME TypeInv, TypeInv', TextureInv, UNCHANGED <<map, abandoner, disposer>>,
         \/ CoreWaits \/ CoreDisposes \/ CoreAsks \/ CoreStops \/ Service \/ LoopDisposes
         \/ LoopEnds \/ EndCall \/ RunBarrier \/ FreeGraphics \/ FinishDetach \/ TakeDemand
  PROVE  TextureInv'
<1> DEFINE Same == s'.objects \in {s.objects, FALSE} /\ SlotsOf(s') = SlotsOf(s)
                   /\ s'.work = s.work
           OnItsWay == driver'.slot = driver.slot /\ driver'.at \notin {"run"}
                    /\ driver.at \notin {"render", "draw", "publish", "wait"}
<1>1. Same /\ (driver' = driver \/ OnItsWay \/ Ends)
  <2>1. CASE CoreWaits
    BY <2>1, CoreWaitsIs DEF PartsOf, LifeOf
  <2>2. CASE CoreDisposes \/ CoreStops
    BY <2>2, CoreDisposesIs, CoreStopsIs DEF LifeOf
  <2>3. CASE CoreAsks
    BY <2>3, CoreAsksIs DEF LifeOf
  <2>4. CASE Service
    BY <2>4, ServiceIs DEF LifeOf
  <2>5. CASE LoopDisposes
    BY <2>5, LoopDisposesIs DEF LifeOf
  <2>6. CASE LoopEnds
    BY <2>6, LoopEndsIs DEF PartsOf, LifeOf
  <2>7. CASE EndCall
    BY <2>7, EndCallIs DEF LifeOf
  <2>8. CASE RunBarrier
    BY <2>8, RunBarrierIs DEF LifeOf
  <2>9. CASE FreeGraphics
    BY <2>9, FreeGraphicsIs DEF LifeOf, Running
  <2>10. CASE FinishDetach
    BY <2>10, FinishDetachIs DEF LifeOf
  <2>11. CASE TakeDemand
    BY <2>11, TakeDemandIs DEF LifeOf, Running
  <2> QED
    BY <2>1, <2>2, <2>3, <2>4, <2>5, <2>6, <2>7, <2>8, <2>9, <2>10, <2>11
<1>2. s'.objects => s.objects
  BY <1>1 DEF LifeOf, TypeInv, SessionType
<1>3. Plain(s'.work, s.work)
  BY <1>1, PlainIs DEF TypeInv, SessionType
<1>4. (Stays /\ driver'.slot = driver.slot) \/ (NotRunning /\ DriverKeeps)
  BY <1>1, EndsIs, NoSlot DEF Stays, NotRunning, DriverKeeps, TextureInv
<1> HIDE DEF Same, OnItsWay
<1>5. /\ s'.slot = s.slot /\ s'.ready = s.ready /\ s'.reading = s.reading
      /\ s'.retargets = s.retargets
  BY <1>1, SlotsSame DEF Same
<1> QED
  BY <1>2, <1>3, <1>4, <1>5, TexturesKept

LEMMA TexturesTaken ==
  ASSUME TypeInv, TypeInv', TextureInv, CoreTakes \/ LoopTakes
  PROVE  TextureInv'
<1>1. /\ s.work # <<>> /\ s'.work = Tail(s.work) /\ SlotsOf(s') = SlotsOf(s)
      /\ LifeOf(s') = <<s.kind, s.views, TRUE, s.disposed, s.due, s.hook, s.objects>>
      /\ driver'.item = Head(s.work) /\ driver'.slot = driver.slot
      /\ driver.at \in {"idle", "loop"}
  BY TakesIs
<1>2. ReleaseInv'
  BY <1>1, ReleasesTaken DEF TextureInv
<1>3. s'.objects = s.objects
  BY <1>1 DEF LifeOf
<1>4. driver'.slot = 0
  BY <1>1, NoSlot DEF TextureInv
<1>5. SlotInv'
  BY <1>1, <1>3, <1>4, SlotsSame, SlotsKept DEF TextureInv, DriverKeeps
<1> QED
  BY <1>2, <1>5 DEF TextureInv

(* A session that fails, or is abandoned or disposed, cancels its work.    *)
LEMMA TexturesCut ==
  ASSUME TypeInv, TypeInv', TextureInv, NEW to \in {"free", "quarantined"}, Cuts(s', s, to),
         s'.ready = s.ready \/ s'.ready = <<>>, s'.retargets = s.retargets,
         s'.objects => s.objects,
         IF to = "free" /\ s.objects THEN s'.reading = s.reading \ Cancelled(s)
         ELSE s'.reading = s.reading,
         \A i \in DOMAIN s'.work : s'.work[i].kind \notin {"release"} \union Changes,
         NotRunning, driver'.slot = 0 \/ (Stays /\ driver'.slot = driver.slot)
  PROVE  TextureInv'
<1>1. Held(s') \subseteq Held(s)
  BY CutHeld DEF TypeInv
<1>2. ReleaseInv'
  BY <1>1, ReleasesEnd DEF TextureInv
<1>3. SlotInv'
  BY SlotsCut DEF TextureInv
<1> QED
  BY <1>2, <1>3 DEF TextureInv

LEMMA TexturesAttach ==
  ASSUME TypeInv, TypeInv', LifeInv, TextureInv, Attach
  PROVE  TextureInv'
<1>1. StateInv
  BY DEF LifeInv
<1>2. /\ Ends
      /\ \/ s'.objects = s.objects /\ SlotsOf(s') = SlotsOf(s) /\ s'.work = s.work
         \/ Fails(s', s)
  BY <1>1, AttachIs DEF LifeOf
<1>3. driver'.slot = 0 /\ NotRunning
  BY <1>2, EndsIs DEF NotRunning
<1>4. CASE s'.objects = s.objects /\ SlotsOf(s') = SlotsOf(s) /\ s'.work = s.work
  <2>1. Plain(s'.work, s.work)
    BY <1>4, PlainIs DEF TypeInv, SessionType
  <2> QED
    BY <1>3, <1>4, <2>1, SlotsSame, TexturesKept DEF DriverKeeps
<1>5. CASE Fails(s', s)
  <2>1. /\ Cuts(s', s, "quarantined") /\ s'.ready = <<>> /\ s'.retargets = s.retargets
        /\ s'.reading = s.reading /\ s'.objects = s.objects /\ s'.work = <<>>
    BY <1>5 DEF Fails, LifeOf
  <2> QED
    BY <1>3, <2>1, TexturesCut
<1> QED
  BY <1>2, <1>4, <1>5

(* A texture that the host's GPU is done with, or that is lost.            *)
LEMMA TexturesReleased ==
  ASSUME TypeInv, TypeInv', LifeInv, TextureInv, RunRelease
  PROVE  TextureInv'
<1> DEFINE i == driver.item.of
<1>1. StateInv
  BY DEF LifeInv
<1>2. /\ Ends /\ Running("release") /\ s'.retargets = s.retargets /\ s'.objects = s.objects
      /\ \/ /\ Grown(s'.work, s.work) /\ Sets(s', s, i, "free") /\ s'.ready = s.ready
            /\ s'.reading = IF s.objects THEN s.reading \ {i} ELSE s.reading
         \/ \E u : /\ Fails(u, s) /\ s'.work = <<>> /\ Sets(s', u, i, "quarantined")
                   /\ s'.ready = <<>> /\ s'.reading = s.reading
  BY <1>1, RunReleaseIs DEF LifeOf
<1>3. driver'.slot = 0 /\ NotRunning
  BY <1>2, EndsIs DEF NotRunning
<1>4. i \in Slots /\ s.slot[i] = "returning"
  BY <1>2 DEF TextureInv, ReleaseInv
<1> HIDE DEF i
<1>5. CASE /\ Grown(s'.work, s.work) /\ Sets(s', s, i, "free") /\ s'.ready = s.ready
           /\ s'.reading = IF s.objects THEN s.reading \ {i} ELSE s.reading
  <2>1. SlotInv'
    BY <1>2, <1>3, <1>4, <1>5, SlotFree DEF TextureInv
  <2>2. Held(s') \subseteq Held(s) /\ Plain(s'.work, s.work)
    BY <1>5, HeldKept, PlainIs DEF TypeInv, SessionType
  <2>3. \A j \in Slots : j # i => s'.slot[j] = s.slot[j]
    BY <1>5 DEF Sets, TypeInv, SessionType
  <2>4. ReleaseInv'
    BY <1>2, <1>3, <2>2, <2>3, ReleasesKept DEF TextureInv, i
  <2> QED
    BY <2>1, <2>4 DEF TextureInv
<1>6. CASE \E u : /\ Fails(u, s) /\ s'.work = <<>> /\ Sets(s', u, i, "quarantined")
                  /\ s'.ready = <<>> /\ s'.reading = s.reading
  <2>1. PICK u : Fails(u, s) /\ Sets(s', u, i, "quarantined")
    BY <1>6
  <2>2. /\ s.slot \in [Slots -> {"free", "rendering", "held", "returning", "quarantined"}]
        /\ s.reading \subseteq Slots
    BY DEF TypeInv, SessionType
  <2>3. \A j \in Slots : \/ s'.slot[j] = s.slot[j]
                         \/ s.slot[j] = "returning" /\ s'.slot[j] = "quarantined"
    <3>1. \A j \in Slots : u.slot[j] = IF j \in Cancelled(s) THEN "quarantined" ELSE s.slot[j]
      BY <2>1 DEF Fails, Cuts
    <3>2. \A j \in Slots : s'.slot[j] = IF j = i THEN "quarantined" ELSE u.slot[j]
      BY <2>1 DEF Sets, Fails, SessionType
    <3>3. \A j \in Cancelled(s) : s.slot[j] = "returning"
      BY CutReturning DEF TextureInv
    <3> QED
      BY <1>4, <3>1, <3>2, <3>3
  <2>4. Held(s') \subseteq Held(s)
    BY <2>3 DEF Held, SlotsThat
  <2>5. ReleaseInv'
    BY <1>2, <1>3, <1>6, <2>4, ReleasesEnd DEF TextureInv
  <2>6. ToSet(s'.ready) = {} /\ IsInjective(s'.ready)
    BY <1>6, ReadyIs
  <2>7. s'.objects => \A j \in s'.reading : s'.slot[j] \in {"held", "returning", "quarantined"}
    BY <1>2, <1>6, <2>2, <2>3 DEF TextureInv, SlotInv
  <2>8. SlotInv'
    BY <1>3, <2>6, <2>7, SlotFrom
  <2> QED
    BY <2>5, <2>8 DEF TextureInv
<1> QED
  BY <1>2, <1>5, <1>6

LEMMA TexturesChanged ==
  ASSUME TypeInv, TypeInv', TextureInv, RunUntarget \/ RunRetarget
  PROVE  TextureInv'
<1>1. /\ Ends /\ (Running("untarget") \/ Running("retarget"))
      /\ s'.objects = s.objects /\ s'.retargets = s.retargets - 1
      /\ \/ /\ s'.work = s.work /\ s'.slot = s.slot
            /\ s'.ready = s.ready /\ s'.reading = s.reading
         \/ /\ Grown(s'.work, s.work)
            /\ s'.slot = [i \in Slots |-> "free"] /\ s'.ready = <<>> /\ s'.reading = {}
  BY ChangeIs DEF LifeOf
<1>2. driver'.slot = 0 /\ NotRunning
  <2>1. Ends
    BY ChangeIs
  <2> QED
    BY <2>1, EndsIs DEF NotRunning
<1>3. Changing
  <2>1. Running("untarget") \/ Running("retarget")
    BY ChangeIs
  <2> QED
    BY <2>1 DEF Changing, Running, Changes
<1>4. Plain(s'.work, s.work)
  BY <1>1, PlainIs DEF TypeInv, SessionType
<1>5. Held(s') \subseteq Held(s)
  BY <1>1, HeldKept
<1>6. ReleaseInv'
  BY <1>1, <1>2, <1>3, <1>4, <1>5, ReleasesKept DEF TextureInv
<1>7. CASE s'.slot = s.slot /\ s'.ready = s.ready /\ s'.reading = s.reading
  <2>1. SlotInv'
    BY <1>1, <1>2, <1>7, SlotsKept DEF TextureInv, DriverKeeps
  <2> QED
    BY <1>6, <2>1 DEF TextureInv
<1>8. CASE s'.ready = <<>> /\ s'.reading = {}
  <2>1. SlotInv'
    BY <1>2, <1>8, ReadyIs, SlotFrom
  <2> QED
    BY <1>6, <2>1 DEF TextureInv
<1> QED
  BY <1>1, <1>7, <1>8

LEMMA TexturesDisposed ==
  ASSUME TypeInv, TypeInv', TextureInv, BeginDisposal \/ HandOver
  PROVE  TextureInv'
<1>1. /\ s'.ready = s.ready /\ s'.retargets = s.retargets /\ s'.objects = s.objects
      /\ driver.at \in {"dispose", "handover"} /\ NotRunning
      /\ driver'.slot \in {0, driver.slot}
      /\ \/ /\ \A i \in DOMAIN s'.work : s'.work[i].kind = "frame"
            /\ Cuts(s', s, "free")
            /\ s'.reading = IF s.objects THEN s.reading \ Cancelled(s) ELSE s.reading
         \/ s'.work = s.work /\ s'.slot = s.slot /\ s'.reading = s.reading
  <2>1. CASE BeginDisposal
    BY <2>1, BeginDisposalIs DEF LifeOf, NotRunning
  <2>2. CASE HandOver
    BY <2>2, HandOverIs DEF LifeOf, NotRunning
  <2> QED
    BY <2>1, <2>2
<1>2. driver'.slot = 0
  BY <1>1, NoSlot DEF TextureInv
<1>3. CASE /\ \A i \in DOMAIN s'.work : s'.work[i].kind = "frame"
           /\ Cuts(s', s, "free")
           /\ s'.reading = IF s.objects THEN s.reading \ Cancelled(s) ELSE s.reading
  <2>1. \A i \in DOMAIN s'.work : s'.work[i].kind \notin {"release"} \union Changes
    BY <1>3 DEF Changes
  <2> QED
    BY <1>1, <1>2, <1>3, <2>1, TexturesCut
<1>4. CASE s'.work = s.work /\ s'.slot = s.slot /\ s'.reading = s.reading
  <2>1. Plain(s'.work, s.work)
    BY <1>4, PlainIs DEF TypeInv, SessionType
  <2> QED
    BY <1>1, <1>2, <1>4, <2>1, TexturesKept DEF DriverKeeps
<1> QED
  BY <1>1, <1>3, <1>4

(* The frame that the driver renders.                                      *)
LEMMA ObjectsToRender ==
  ASSUME TypeInv, LifeInv, driver.at \in Rendering
  PROVE  s.objects
BY DEF LifeInv, StateInv, Live, Rendering, TypeInv, SessionType

LEMMA EndsHere ==
  ASSUME Ends
  PROVE  driver'.slot = 0 /\ NotRunning
BY EndsIs DEF NotRunning

LEMMA TexturesFreed ==
  ASSUME TypeInv, TypeInv', LifeInv, TextureInv, driver.at \in Rendering, Frees(s', s), Ends,
         s'.objects = s.objects, Plain(s'.work, s.work)
  PROVE  TextureInv'
<1>1. driver'.slot = 0 /\ NotRunning /\ s.objects
  BY EndsHere, ObjectsToRender
<1>2. Held(s') \subseteq Held(s)
  BY FreesHeld
<1>3. CASE driver.slot = 0
  BY <1>1, <1>3, TexturesKept DEF Frees, DriverKeeps
<1>4. CASE driver.slot # 0
  <2>1. driver.slot \in Slots /\ s.slot[driver.slot] = "rendering"
    BY <1>4 DEF TextureInv, SlotInv, TypeInv, Drivers
  <2>2. driver.slot \notin s.reading
    BY <1>1, <2>1 DEF TextureInv, SlotInv
  <2>3. Sets(s', s, driver.slot, "free") /\ s'.ready = s.ready /\ s'.reading = s.reading
        /\ s'.retargets = s.retargets
    BY <1>4 DEF Frees
  <2>4. SlotInv'
    BY <1>1, <2>1, <2>2, <2>3, SlotFree DEF TextureInv
  <2>5. \A j \in Slots : s.slot[j] = "returning" => s'.slot[j] = "returning"
    BY <2>1, <2>3 DEF Sets, TypeInv, SessionType
  <2>6. ReleaseInv'
    BY <1>1, <1>2, <2>3, <2>5, ReleasesKept DEF TextureInv
  <2> QED
    BY <2>4, <2>6 DEF TextureInv
<1> QED
  BY <1>3, <1>4

LEMMA TexturesFailed ==
  ASSUME TypeInv, TypeInv', TextureInv, NEW u, Fails(u, s), Frees(s', u), Ends,
         s'.objects = s.objects, s'.work = u.work
  PROVE  TextureInv'
<1>1. driver'.slot = 0 /\ NotRunning
  BY EndsHere
<1>2. /\ s.slot \in [Slots -> {"free", "rendering", "held", "returning", "quarantined"}]
      /\ s.reading \subseteq Slots
  BY DEF TypeInv, SessionType
<1>3. \A j \in Slots : u.slot[j] = IF j \in Cancelled(s) THEN "quarantined" ELSE s.slot[j]
  BY DEF Fails, Cuts
<1>4. driver.slot # 0 => driver.slot \in Slots /\ s.slot[driver.slot] = "rendering"
  BY DEF TextureInv, SlotInv, TypeInv, Drivers
<1>5. \A j \in Slots : s'.slot[j] = IF j = driver.slot THEN "free" ELSE u.slot[j]
  <2>1. DOMAIN u.slot = Slots /\ 0 \notin Slots
    BY DEF Fails, Cuts, Slots
  <2>2. s'.slot = IF driver.slot = 0 THEN u.slot ELSE [u.slot EXCEPT ![driver.slot] = "free"]
    BY DEF Frees, Sets
  <2> QED
    BY <1>4, <2>1, <2>2
<1>6. \A j \in Slots : \/ s'.slot[j] = s.slot[j]
                       \/ s.slot[j] = "returning" /\ s'.slot[j] = "quarantined"
                       \/ s.slot[j] = "rendering" /\ s'.slot[j] = "free"
  <2>1. \A j \in Cancelled(s) : s.slot[j] = "returning"
    BY CutReturning DEF TextureInv
  <2>2. ASSUME NEW j \in Slots, j = driver.slot
        PROVE  s.slot[j] = "rendering" /\ s'.slot[j] = "free"
    BY <1>4, <1>5, <2>2 DEF Slots
  <2>3. ASSUME NEW j \in Slots, j # driver.slot
        PROVE  s'.slot[j] = IF j \in Cancelled(s) THEN "quarantined" ELSE s.slot[j]
    BY <1>3, <1>5, <2>3
  <2> QED
    BY <2>1, <2>2, <2>3
<1>7. /\ s'.work = <<>> /\ s'.ready = <<>> /\ s'.reading = s.reading
      /\ s'.retargets = s.retargets
  BY DEF Fails, Frees
<1>8. Held(s') \subseteq Held(s)
  BY <1>6 DEF Held, SlotsThat
<1>9. ReleaseInv'
  BY <1>1, <1>7, <1>8, ReleasesEnd DEF TextureInv
<1>10. ToSet(s'.ready) = {} /\ IsInjective(s'.ready)
  BY <1>7, ReadyIs
<1>11. s'.objects => \A j \in s'.reading : s'.slot[j] \in {"held", "returning", "quarantined"}
  <2>1. s.objects => \A j \in s.reading : s.slot[j] \in {"held", "returning", "quarantined"}
    BY DEF TextureInv, SlotInv
  <2> QED
    BY <1>2, <1>6, <1>7, <2>1
<1>12. SlotInv'
  BY <1>1, <1>10, <1>11, SlotFrom
<1> QED
  BY <1>9, <1>12 DEF TextureInv

LEMMA TexturesWait ==
  ASSUME TypeInv, TypeInv', TextureInv, s' = s, driver'.slot = driver.slot,
         driver'.at \in {"draw", "wait"}
  PROVE  TextureInv'
<1>1. Plain(s'.work, s.work)
  BY PlainIs DEF TypeInv, SessionType
<1> QED
  BY <1>1, TexturesKept DEF NotRunning, DriverKeeps

LEMMA TexturesEndEarly ==
  ASSUME TypeInv, TypeInv', LifeInv, TextureInv, EndEarly
  PROVE  TextureInv'
<1>1. /\ driver.at = "took"
      /\ \/ s'.objects = s.objects /\ s'.work = s.work /\ Frees(s', s) /\ Ends
         \/ s' = s /\ driver'.at = "wait" /\ driver'.slot = driver.slot
  BY EndEarlyIs DEF EndsWith, LifeOf
<1>2. Plain(s.work, s.work)
  BY PlainIs DEF TypeInv, SessionType
<1> QED
  BY <1>1, <1>2, TexturesFreed, TexturesWait DEF Rendering

LEMMA TexturesPicked ==
  ASSUME TypeInv, TypeInv', LifeInv, TextureInv, PickSlot
  PROVE  TextureInv'
<1>1. /\ driver.at = "took" /\ s'.objects = s.objects
      /\ \/ /\ Grown(s'.work, s.work) \/ s'.work = s.work
            /\ Ends /\ SlotsOf(s') = SlotsOf(s)
         \/ Grown(s'.work, s.work) /\ Ends /\ Frees(s', s)
         \/ \E i \in Slots :
              /\ s.slot[i] = "free" \/ i \in ToSet(s.ready)
              /\ s'.work = s.work /\ Sets(s', s, i, "rendering")
              /\ s'.ready = Without(s.ready, {i})
              /\ s'.reading = s.reading /\ s'.retargets = s.retargets
              /\ driver'.at = "render" /\ driver'.slot = i
  BY PickSlotIs DEF EndsWith, LifeOf
<1>2. (Grown(s'.work, s.work) \/ s'.work = s.work) => Plain(s'.work, s.work)
  BY PlainIs DEF TypeInv, SessionType
<1>3. CASE /\ Grown(s'.work, s.work) \/ s'.work = s.work
           /\ Ends /\ SlotsOf(s') = SlotsOf(s)
  BY <1>1, <1>2, <1>3, SlotsSame, EndsHere, TexturesKept DEF DriverKeeps
<1>4. CASE Grown(s'.work, s.work) /\ Ends /\ Frees(s', s)
  BY <1>1, <1>2, <1>4, TexturesFreed DEF Rendering
<1>5. ASSUME NEW i \in Slots, s.slot[i] = "free" \/ i \in ToSet(s.ready), s'.work = s.work,
             Sets(s', s, i, "rendering"), s'.ready = Without(s.ready, {i}),
             s'.reading = s.reading, s'.retargets = s.retargets,
             driver'.at = "render", driver'.slot = i
      PROVE  TextureInv'
  <2>1. s.objects
    BY <1>1, ObjectsToRender DEF Rendering
  <2>2. SlotInv'
    BY <1>1, <1>5, <2>1, SlotPicked DEF TextureInv
  <2>3. Held(s') \subseteq Held(s)
    BY <1>5, HeldKept
  <2>4. s.slot[i] = "free"
    BY <1>5 DEF TextureInv, SlotInv
  <2>5. \A j \in Slots : s.slot[j] = "returning" => s'.slot[j] = "returning"
    BY <1>5, <2>4 DEF Sets, TypeInv, SessionType
  <2>6. ReleaseInv'
    BY <1>2, <1>5, <2>3, <2>5, ReleasesKept DEF TextureInv, NotRunning
  <2> QED
    BY <2>2, <2>6 DEF TextureInv
<1> QED
  BY <1>1, <1>3, <1>4, <1>5

LEMMA TexturesDrawn ==
  ASSUME TypeInv, TypeInv', LifeInv, TextureInv, Draw
  PROVE  TextureInv'
<1>1. StateInv
  BY DEF LifeInv
<1>2. /\ driver.at = "draw"
      /\ \/ PartsOf(s') = PartsOf(s) /\ driver'.at = "publish" /\ driver'.slot = driver.slot
         \/ s' = s /\ driver'.at = "wait" /\ driver'.slot = driver.slot
         \/ s'.objects = s.objects /\ s'.work = s.work /\ Frees(s', s) /\ Ends
         \/ \E u : /\ Fails(u, s) /\ s'.objects = u.objects /\ s'.work = u.work
                   /\ Frees(s', u) /\ Ends
  BY <1>1, DrawIs DEF EndsWith, LifeOf
<1>3. Plain(s.work, s.work)
  BY PlainIs DEF TypeInv, SessionType
<1>4. CASE PartsOf(s') = PartsOf(s) /\ driver'.at = "publish" /\ driver'.slot = driver.slot
  <2>1. SlotsOf(s') = SlotsOf(s) /\ s'.work = s.work /\ s'.objects = s.objects
    BY <1>4 DEF PartsOf, LifeOf
  <2> QED
    BY <1>3, <1>4, <2>1, SlotsSame, TexturesKept DEF NotRunning, DriverKeeps
<1>5. CASE s' = s /\ driver'.at = "wait" /\ driver'.slot = driver.slot
  BY <1>5, TexturesWait
<1>6. CASE s'.objects = s.objects /\ s'.work = s.work /\ Frees(s', s) /\ Ends
  BY <1>2, <1>3, <1>6, TexturesFreed DEF Rendering
<1>7. ASSUME NEW u, Fails(u, s), s'.objects = u.objects, s'.work = u.work, Frees(s', u), Ends
      PROVE  TextureInv'
  <2>1. u.objects = s.objects
    BY <1>7 DEF Fails, LifeOf
  <2> QED
    BY <1>7, <2>1, TexturesFailed
<1> QED
  BY <1>2, <1>4, <1>5, <1>6, <1>7

LEMMA TexturesPublished ==
  ASSUME TypeInv, TypeInv', LifeInv, TextureInv, Publish
  PROVE  TextureInv'
<1>1. /\ driver.at = "publish" /\ Ends /\ driver.slot \in Slots
      /\ s'.objects = s.objects /\ s'.work = s.work
      /\ Sets(s', s, driver.slot, "free") /\ s'.ready = Append(s.ready, driver.slot)
      /\ s'.reading = s.reading /\ s'.retargets = s.retargets
  BY PublishIs DEF EndsWith, LifeOf
<1>2. driver'.slot = 0 /\ NotRunning /\ s.objects
  BY <1>1, EndsHere, ObjectsToRender DEF Rendering
<1>3. SlotInv'
  BY <1>1, <1>2, SlotPublished DEF TextureInv
<1>4. Held(s') \subseteq Held(s) /\ Plain(s'.work, s.work)
  BY <1>1, HeldKept, PlainIs DEF TypeInv, SessionType
<1>5. s.slot[driver.slot] = "rendering"
  BY <1>1 DEF TextureInv, SlotInv, Slots
<1>6. \A j \in Slots : s.slot[j] = "returning" => s'.slot[j] = "returning"
  BY <1>1, <1>5 DEF Sets, TypeInv, SessionType
<1>7. ReleaseInv'
  BY <1>1, <1>2, <1>4, <1>6, ReleasesKept DEF TextureInv
<1> QED
  BY <1>3, <1>7 DEF TextureInv

LEMMA TexturesByDriver ==
  ASSUME TypeInv, TypeInv', LifeInv, TextureInv, DriverStep
  PROVE  TextureInv'
<1>1. UNCHANGED <<map, abandoner, disposer>>
  BY DEF DriverStep
<1>2. CASE Select
  BY <1>2, SelectIs, TexturesWait
<1>3. CASE WaitForUpdate
  <2>1. /\ driver.at = "wait" /\ Ends /\ s'.objects = s.objects /\ Frees(s', s)
        /\ s'.work = s.work \/ Grown(s'.work, s.work)
    BY <1>3, WaitForUpdateIs DEF LifeOf
  <2>2. Plain(s'.work, s.work)
    BY <2>1, PlainIs DEF TypeInv, SessionType
  <2> QED
    BY <2>1, <2>2, TexturesFreed DEF Rendering
<1> QED
  BY <1>1, <1>2, <1>3, TexturesInCalls, TexturesTaken, TexturesAttach, TexturesReleased,
     TexturesChanged, TexturesDisposed, TexturesEndEarly, TexturesPicked, TexturesDrawn,
     TexturesPublished DEF DriverStep

(* The host, an end of the session, the lane and the map.                  *)
LEMMA TexturesAside ==
  ASSUME TypeInv, TypeInv', TextureInv, SlotsOf(s') = SlotsOf(s), Plain(s'.work, s.work),
         s'.objects => s.objects, driver' = driver
  PROVE  TextureInv'
BY SlotsSame, TexturesKept DEF Stays

LEMMA TexturesAsked ==
  ASSUME TypeInv, TypeInv', TextureInv, Untarget \/ Retarget, driver' = driver
  PROVE  TextureInv'
<1>1. /\ Held(s) = {} /\ s'.objects = s.objects /\ s'.slot = s.slot
      /\ s'.ready = s.ready \/ s'.ready = <<>>
      /\ s'.reading = s.reading /\ s'.retargets = s.retargets + 1
      /\ \E w \in Works : w.kind \in Changes /\ s'.work = Append(s.work, w)
  BY AsksChangeIs DEF LifeOf
<1>2. ReleaseInv'
  BY <1>1, ReleasesBefore DEF TextureInv
<1>3. SlotInv'
  BY <1>1, SlotsKept DEF TextureInv, Stays
<1> QED
  BY <1>2, <1>3 DEF TextureInv

LEMMA TexturesAcquired ==
  ASSUME TypeInv, TypeInv', TextureInv, Acquire, driver' = driver
  PROVE  TextureInv'
<1>1. /\ s.retargets = 0 /\ s'.retargets = 0 /\ s'.work = s.work /\ s'.objects = s.objects
      /\ s'.ready = <<>>
      /\ \E n \in DOMAIN s.ready : /\ s.ready[n] \in Slots /\ Sets(s', s, s.ready[n], "held")
                                   /\ s'.reading = s.reading \union {s.ready[n]}
  BY AcquireIs DEF LifeOf
<1>2. PICK n \in DOMAIN s.ready : /\ s.ready[n] \in Slots /\ Sets(s', s, s.ready[n], "held")
                                  /\ s'.reading = s.reading \union {s.ready[n]}
  BY <1>1
<1> DEFINE i == s.ready[n]
<1>3. i \in ToSet(s.ready) /\ i \in Slots
  BY <1>2, ReadyIs, ToSetIs
<1>4. Sets(s', s, i, "held") /\ s'.reading = s.reading \union {i}
  BY <1>2
<1> HIDE DEF i
<1>5. SlotInv'
  BY <1>1, <1>3, <1>4, SlotAcquired DEF TextureInv
<1>6. s.slot[i] = "free"
  BY <1>3 DEF TextureInv, SlotInv
<1>7. \A j \in Slots : s.slot[j] = "returning" => s'.slot[j] = "returning"
  BY <1>4, <1>6 DEF Sets, TypeInv, SessionType
<1>8. ReleaseInv'
  BY <1>1, <1>7 DEF TextureInv, ReleaseInv, Running, Changing
<1> QED
  BY <1>5, <1>8 DEF TextureInv

LEMMA TexturesHandedBack ==
  ASSUME TypeInv, TypeInv', TextureInv, driver' = driver, NEW i \in Slots,
         ReleaseFrame(i) \/ ReleaseAfterGpu(i) \/ Discard(i)
  PROVE  TextureInv'
<1>1. /\ s.slot[i] = "held" /\ s'.objects = s.objects /\ s'.retargets = s.retargets
      /\ s'.ready = s.ready
      /\ \/ /\ Sets(s', s, i, "free") /\ Grown(s'.work, s.work)
            /\ s'.reading = s.reading \ {i}
         \/ /\ Sets(s', s, i, "quarantined") /\ s'.reading = s.reading
            /\ s'.work = s.work \/ Grown(s'.work, s.work)
         \/ /\ Sets(s', s, i, "returning") /\ s'.reading = s.reading
            /\ s'.work = Append(s.work, Item("release", i)) /\ Item("release", i) \in Works
  <2>1. CASE ReleaseFrame(i)
    BY <2>1, ReleaseFrameIs DEF LifeOf
  <2>2. CASE ReleaseAfterGpu(i)
    BY <2>2, ReleaseAfterGpuIs DEF LifeOf
  <2>3. CASE Discard(i)
    BY <2>3, DiscardIs DEF LifeOf
  <2> QED
    BY <2>1, <2>2, <2>3
<1>2. driver.slot # i /\ Stays
  <2>1. i # 0
    BY DEF Slots
  <2> QED
    BY <1>1, <2>1 DEF TextureInv, SlotInv, Stays
<1>3. ASSUME NEW is \in {"free", "quarantined", "returning"}, Sets(s', s, i, is)
      PROVE  /\ \A j \in Slots : s.slot[j] = "returning" => s'.slot[j] = "returning"
             /\ Held(s') \subseteq Held(s)
  <2>1. \A j \in Slots : s.slot[j] = "returning" => s'.slot[j] = "returning"
    BY <1>1, <1>3 DEF Sets, TypeInv, SessionType
  <2>2. Held(s') \subseteq Held(s)
    BY <1>3, HeldKept
  <2> QED
    BY <2>1, <2>2
<1>4. CASE /\ Sets(s', s, i, "free") /\ Grown(s'.work, s.work)
           /\ s'.reading = s.reading \ {i}
  <2>1. SlotInv'
    BY <1>1, <1>2, <1>4, SlotFree DEF TextureInv
  <2>2. Plain(s'.work, s.work)
    BY <1>4, PlainIs DEF TypeInv, SessionType
  <2>3. ReleaseInv'
    BY <1>1, <1>2, <1>3, <1>4, <2>2, ReleasesKept DEF TextureInv
  <2> QED
    BY <2>1, <2>3 DEF TextureInv
<1>5. CASE /\ Sets(s', s, i, "quarantined") /\ s'.reading = s.reading
           /\ s'.work = s.work \/ Grown(s'.work, s.work)
  <2>1. SlotInv'
    BY <1>1, <1>2, <1>5, SlotHandedBack DEF TextureInv, Handed
  <2>2. Plain(s'.work, s.work)
    BY <1>5, PlainIs DEF TypeInv, SessionType
  <2>3. ReleaseInv'
    BY <1>1, <1>2, <1>3, <1>5, <2>2, ReleasesKept DEF TextureInv
  <2> QED
    BY <2>1, <2>3 DEF TextureInv
<1>6. CASE /\ Sets(s', s, i, "returning") /\ s'.reading = s.reading
           /\ s'.work = Append(s.work, Item("release", i)) /\ Item("release", i) \in Works
  <2>1. SlotInv'
    BY <1>1, <1>2, <1>6, SlotHandedBack DEF TextureInv, Handed
  <2>2. ReleaseInv'
    BY <1>1, <1>6, ReleasesAsked DEF TextureInv
  <2> QED
    BY <2>1, <2>2 DEF TextureInv
<1> QED
  BY <1>1, <1>4, <1>5, <1>6

LEMMA TexturesAbandoned ==
  ASSUME TypeInv, TypeInv', LifeInv, TextureInv, Abandons(s', s), ~s.call, driver' = driver
  PROVE  TextureInv'
<1>1. driver.at \in {"idle", "stopped", "dispose", "handover"} /\ NotRunning /\ Stays
  BY DEF LifeInv, CallInv, NotRunning, Stays
<1>2. /\ s'.work = <<>> /\ Cuts(s', s, "quarantined") /\ s'.ready = s.ready
      /\ s'.retargets = s.retargets /\ s'.reading = s.reading /\ s'.objects = s.objects
  BY DEF Abandons, LifeOf
<1> QED
  BY <1>1, <1>2, TexturesCut

LEMMA TexturesByHost ==
  ASSUME TypeInv, TypeInv', LifeInv, TextureInv, HostStep
  PROVE  TextureInv'
<1>1. driver' = driver
  BY DEF HostStep
<1> DEFINE Aside == /\ SlotsOf(s') = SlotsOf(s) /\ s'.objects = s.objects
                    /\ \/ s'.work = s.work \/ Grown(s'.work, s.work)
                       \/ \E x \in Works : /\ x.kind \notin {"release"} \union Changes
                                           /\ s'.work = Append(s.work, x)
<1>2. Aside => TextureInv'
  BY <1>1, PlainIs, TexturesAside DEF TypeInv, SessionType
<1>3. /\ Item("barrier", Len(s.log)).kind \notin {"release"} \union Changes
      /\ Item("detach", 0).kind \notin {"release"} \union Changes
  BY DEF Item, Changes
<1>4. ASSUME NEW policy \in Policies, Demand(policy) PROVE Aside
  BY <1>4, DemandIs DEF LifeOf
<1>5. CASE Barrier
  <2>1. Aside
    BY <1>3, <1>5, BarrierIs DEF LifeOf
  <2> QED
    BY <1>2, <2>1
<1>6. CASE Detach
  <2>1. Aside
    BY <1>3, <1>6, DetachIs DEF LifeOf
  <2> QED
    BY <1>2, <2>1
<1>7. PostTiles => Aside
  BY PostTilesIs DEF LifeOf
<1>8. ASSUME NEW i \in Slots, BeginView(i) PROVE Aside
  BY <1>8, BeginViewIs DEF LifeOf
<1> HIDE DEF Aside
<1>9. CASE Untarget \/ Retarget \/ Acquire
  BY <1>1, <1>9, TexturesAsked, TexturesAcquired
<1>10. ASSUME NEW i \in Slots, ReleaseFrame(i) \/ ReleaseAfterGpu(i) \/ Discard(i)
       PROVE  TextureInv'
  BY <1>1, <1>10, TexturesHandedBack
<1> QED
  BY <1>2, <1>4, <1>5, <1>6, <1>7, <1>8, <1>9, <1>10 DEF HostStep

LEMMA TexturesByOthers ==
  ASSUME TypeInv, TypeInv', LifeInv, TextureInv,
         GpuStep \/ ViewStep \/ EndingStep \/ EndingGoesOn \/ LaneStep \/ MapWork \/ MapStep
  PROVE  TextureInv'
<1>1. driver' = driver
  BY GpuDoneIs DEF GpuStep, ViewStep, EndingStep, EndingGoesOn, LaneStep, MapWork, MapStep
<1> DEFINE Aside == /\ SlotsOf(s') = SlotsOf(s) /\ (s'.objects => s.objects)
                    /\ s'.work = s.work \/ Grown(s'.work, s.work)
<1>2. Aside => TextureInv'
  BY <1>1, PlainIs, TexturesAside DEF TypeInv, SessionType
<1>3. s.objects \in BOOLEAN
  BY DEF TypeInv, SessionType
<1>4. GpuDone => Aside
  BY GpuDoneIs DEF PartsOf, LifeOf
<1>5. ASSUME NEW i \in Slots, EndView(i) PROVE Aside
  BY <1>5, EndViewIs DEF LifeOf
<1>6. Abandon \/ AbandonAfterCall => Aside \/ (~s.call /\ Abandons(s', s))
  BY AbandonIs, AbandonAfterCallIs DEF PartsOf, LifeOf
<1>7. RetireGraphics => Aside
  BY RetireGraphicsIs DEF LifeOf
<1>8. ASSUME NEW mode, Dispose(mode) PROVE Aside
  BY <1>8, DisposeIs DEF LifeOf
<1>9. HookClose => Aside
  BY HookCloseIs DEF LifeOf
<1>10. CloseMap => Aside
  BY CloseMapIs DEF LifeOf
<1>11. LaneTakes \/ LaneReaps => Aside
  BY DEF LaneTakes, LaneReaps
<1>12. LaneAbandons => Aside \/ (~s.call /\ Abandons(s', s))
  BY LaneAbandonsIs
<1>13. LaneRetires => Aside
  BY LaneRetiresIs DEF LifeOf
<1>14. LaneDestroys => Aside
  BY LaneDestroysIs DEF PartsOf, LifeOf
<1>15. Announce => Aside
  BY AnnounceIs DEF LifeOf
<1>16. CreateMap \/ SendCommand \/ RunCommand \/ CountCommand \/ SkipNotice \/ SendNotice
         \/ NoticeCommands \/ StoreUpdate => Aside
  BY MapWorkIs DEF PartsOf, LifeOf
<1> HIDE DEF Aside
<1>17. ~s.call /\ Abandons(s', s) => TextureInv'
  BY <1>1, TexturesAbandoned
<1>18. CASE GpuStep \/ ViewStep
  BY <1>2, <1>4, <1>5, <1>18 DEF GpuStep, ViewStep
<1>19. CASE EndingStep \/ EndingGoesOn
  BY <1>2, <1>6, <1>7, <1>8, <1>9, <1>17, <1>19 DEF EndingStep, EndingGoesOn
<1>20. CASE LaneStep
  BY <1>2, <1>11, <1>12, <1>13, <1>14, <1>17, <1>20 DEF LaneStep
<1>21. CASE MapWork \/ MapStep
  BY <1>2, <1>10, <1>15, <1>16, <1>21 DEF MapWork, MapStep
<1> QED
  BY <1>18, <1>19, <1>20, <1>21

LEMMA TexturesStep ==
  ASSUME TypeInv, TypeInv', LifeInv, TextureInv, [Next]_vars
  PROVE  TextureInv'
<1>1. CASE UNCHANGED vars
  <2>1. SlotsOf(s') = SlotsOf(s) /\ s'.objects = s.objects /\ driver' = driver
        /\ Plain(s'.work, s.work)
    BY <1>1, PlainIs DEF vars, TypeInv, SessionType
  <2> QED
    BY <2>1, TexturesAside
<1> QED
  BY <1>1, TexturesByDriver, TexturesByHost, TexturesByOthers DEF Next

LEMMA TexturesInit ==
  ASSUME Init
  PROVE  TextureInv
<1>1. /\ s.work = <<Item("attach", 0)>> /\ s.ready = <<>> /\ s.reading = {}
      /\ s.retargets = 0
  BY DEF Init
<1>2. driver.at = "idle" /\ driver.slot = 0
  BY DEF Init, AtRest
<1>3. DOMAIN s.work = {1} /\ s.work[1].kind = "attach" /\ s.work \in Seq(Works)
  BY <1>1 DEF Item, Works, WorkKinds
<1>4. Count(s.work, Changes) = 0
  BY <1>3, CountIs DEF Changes
<1>5. SlotInv
  BY <1>1, <1>2 DEF SlotInv, IsInjective, ToSet
<1>6. ReleaseInv
  BY <1>1, <1>2, <1>3, <1>4 DEF ReleaseInv, Running, Changing, Changes
<1> QED
  BY <1>5, <1>6 DEF TextureInv

LEMMA TexturesHold == Safety => [](TypeInv /\ LifeInv /\ TextureInv)
<1>1. Init => TextureInv
  BY TexturesInit
<1>2. (TypeInv /\ LifeInv) /\ (TypeInv /\ LifeInv)' /\ TextureInv /\ [Next]_vars => TextureInv'
  BY TexturesStep
<1> QED
  BY <1>1, <1>2, LifeHolds, PTL DEF Safety

(* The driver renders into a texture that is its own: not one of which the *)
(* host may take the frame, and not one that the host's GPU may still      *)
(* read, whatever was handed back, replaced, cancelled or lost meanwhile.  *)
THEOREM RenderedSlotsAreSafe == Spec => []SlotsAreSafe
<1>1. ASSUME TypeInv, LifeInv, TextureInv PROVE SlotsAreSafe
  <2>1. driver.slot # 0 => s.slot[driver.slot] = "rendering" /\ s.objects
    BY <1>1, ObjectsToRender DEF TextureInv, SlotInv, Rendering
  <2> QED
    BY <1>1, <2>1 DEF TextureInv, SlotInv, SlotsAreSafe
<1> QED
  BY <1>1, TexturesHold, PTL DEF Spec
-----------------------------------------------------------------------------
(* The demands.  A step keeps each, or ends it with a result, which shows  *)
(* the commands that it needs or no frame.                                 *)
DemandsInv == DemandInv /\ BarrierInv /\ FrameInv

Ended(d) ==
  \E r \in Int : /\ r = Nothing \/ r >= s.log[d].needs
                 /\ s'.log[d].results = Append(s.log[d].results, r)

Moved ==
  /\ Len(s'.log) = Len(s.log) /\ Open' \subseteq Open
  /\ \A d \in Demands :
       /\ s'.log[d].needs = s.log[d].needs
       /\ \/ /\ s'.log[d].results = s.log[d].results
             /\ d \in Open => d \in Open' \/ Dropped'
          \/ d \in Open \ Open' /\ Ended(d)

LEMMA DemandsAre ==
  ASSUME TypeInv
  PROVE  /\ s.demands \in Seq(Nat) /\ s.waiting \in Seq(Nat) /\ s.log \in Seq(Entries)
         /\ Len(s.log) \in Nat /\ driver.demand \in Nat
         /\ \A d \in Demands : /\ d \in Nat /\ d # 0 /\ s.log[d].needs \in Nat
                               /\ s.log[d].results \in Seq(Int)
<1>1. /\ s.demands \in Seq(Nat) /\ s.waiting \in Seq(Nat) /\ s.log \in Seq(Entries)
      /\ Len(s.log) \in Nat /\ driver.demand \in Nat
  BY DEF TypeInv, SessionType, Drivers
<1>2. \A d \in Demands : d \in Nat /\ d # 0 /\ s.log[d] \in Entries
  BY <1>1 DEF Demands
<1> QED
  BY <1>1, <1>2 DEF Entries

LEMMA EndedIs ==
  ASSUME TypeInv, NEW d \in Demands, s.log[d].results = <<>>, Ended(d)
  PROVE  /\ Len(s'.log[d].results) = 1 /\ s'.log[d].results # <<>>
         /\ \A i \in DOMAIN s'.log[d].results :
              s'.log[d].results[i] = Nothing \/ s'.log[d].results[i] >= s.log[d].needs
<1>1. PICK r \in Int : /\ r = Nothing \/ r >= s.log[d].needs
                       /\ s'.log[d].results = Append(<<>>, r)
  BY DEF Ended
<1>2. Append(<<>>, r) = <<r>>
  OBVIOUS
<1> QED
  BY <1>1, <1>2

LEMMA DemandsFollow ==
  ASSUME TypeInv, TypeInv', DemandInv, Moved, Apart', Dropped => Dropped',
         driver'.demand # 0 <=> driver'.at \in Rendering
  PROVE  DemandInv'
<1>1. Demands' = Demands /\ Open' \subseteq Demands
  BY DEF Moved, Demands, DemandInv
<1>2. ASSUME NEW d \in Demands, d \in Open' PROVE s'.log[d].results = <<>>
  BY <1>2 DEF Moved, DemandInv
<1>3. ASSUME NEW d \in Demands, d \notin Open'
      PROVE  Len(s'.log[d].results) = 1 \/ (s'.log[d].results = <<>> /\ Dropped')
  <2>1. CASE s'.log[d].results = s.log[d].results /\ (d \in Open => Dropped')
    BY <1>3, <2>1 DEF Moved, DemandInv
  <2>2. CASE d \in Open /\ Ended(d)
    BY <2>2, EndedIs DEF DemandInv
  <2> QED
    BY <1>3, <2>1, <2>2 DEF Moved
<1> QED
  BY <1>1, <1>2, <1>3 DEF DemandInv

(* The barriers that remain queued stay as they are.                       *)
Barred == \/ Beyond(s'.work, s.work, Barriers)
          \/ \A i \in DOMAIN s'.work : s'.work[i].kind \notin Barriers

(* What Settled(n) says of the next state.                                 *)
SettledNext(n) ==
  \A d \in Demands' : d <= n => s'.log[d].results # <<>> \/ d = driver'.demand \/ Dropped'

LEMMA BarrierFrom ==
  ASSUME s'.barriers >= Count(s'.work, Barriers) + (IF Running("barrier")' THEN 1 ELSE 0),
         \A i \in DOMAIN s'.work : s'.work[i].kind \in Barriers =>
           SettledNext(s'.work[i].of) /\ s'.work[i].of <= Len(s'.log),
         Running("barrier")' => SettledNext(driver'.item.of) /\ driver'.item.of <= Len(s'.log),
         \A d \in Demands' : d <= s'.passed => s'.log[d].results # <<>> \/ Dropped',
         s'.passed <= Len(s'.log)
  PROVE  BarrierInv'
BY DEF BarrierInv, Settled, SettledNext

LEMMA SettledFollows ==
  ASSUME TypeInv, TypeInv', DemandInv, Moved, Dropped => Dropped', driver.demand \notin Queued'
  PROVE  \A n : Settled(n) => SettledNext(n)
<1> SUFFICES ASSUME NEW n, Settled(n), NEW d \in Demands, d <= n, ~Dropped'
             PROVE  s'.log[d].results # <<>> \/ d = driver'.demand
  BY DEF SettledNext, Moved, Demands
<1>1. CASE s.log[d].results # <<>>
  <2>1. d \notin Open
    BY <1>1 DEF DemandInv
  <2> QED
    BY <1>1, <2>1 DEF Moved
<1>2. CASE d = driver.demand
  <2>1. d \in Open /\ s.log[d].results = <<>>
    BY <1>2, DemandsAre DEF Open, DemandInv
  <2>2. CASE d \in Open'
    BY <1>2, <2>2 DEF Open
  <2>3. CASE Ended(d)
    BY <2>1, <2>3, EndedIs
  <2> QED
    BY <2>1, <2>2, <2>3 DEF Moved
<1> QED
  BY <1>1, <1>2 DEF Settled

LEMMA BarriersFollow ==
  ASSUME TypeInv, TypeInv', DemandInv, BarrierInv, Moved, Dropped => Dropped',
         s.barriers # 0 => driver.demand \notin Queued', Barred, NotRunning \/ Stays,
         s'.barriers = s.barriers, s'.passed = s.passed
  PROVE  BarrierInv'
<1>1. /\ Len(s'.log) = Len(s.log) /\ Demands' = Demands
      /\ s.work \in Seq(Works) /\ s'.work \in Seq(Works) /\ s.barriers \in Int
      /\ Count(s.work, Barriers) \in Nat /\ Count(s'.work, Barriers) \in Nat
  BY CountIs DEF Moved, Demands, TypeInv, SessionType
<1>2. Running("barrier")' => Running("barrier") /\ driver'.item = driver.item
  BY DEF NotRunning, Stays, Running
<1>3. /\ \A i \in DOMAIN s'.work : s'.work[i].kind \in Barriers =>
           i \in DOMAIN s.work /\ s'.work[i] = s.work[i]
      /\ Count(s'.work, Barriers) <= Count(s.work, Barriers)
  <2>1. CASE Beyond(s'.work, s.work, Barriers)
    <3>1. Count(s'.work, Barriers) = Count(s.work, Barriers)
      BY <1>1, <2>1, CountBeyond
    <3>2. \A i \in DOMAIN s'.work : s'.work[i].kind \in Barriers =>
            i \in DOMAIN s.work /\ s'.work[i] = s.work[i]
      BY <1>1, <2>1 DEF Beyond
    <3> QED
      BY <1>1, <3>1, <3>2
  <2>2. CASE \A i \in DOMAIN s'.work : s'.work[i].kind \notin Barriers
    <3>1. Count(s'.work, Barriers) = 0
      BY <1>1, <2>2, CountIs
    <3> QED
      BY <1>1, <2>2, <3>1
  <2> QED
    BY <2>1, <2>2 DEF Barred
<1>4. s'.barriers >= Count(s'.work, Barriers) + (IF Running("barrier")' THEN 1 ELSE 0)
  BY <1>1, <1>2, <1>3 DEF BarrierInv
<1>5. \A n : Settled(n) /\ s.barriers # 0 => SettledNext(n)
  BY SettledFollows
<1>6. ASSUME NEW i \in DOMAIN s'.work, s'.work[i].kind \in Barriers
      PROVE  SettledNext(s'.work[i].of) /\ s'.work[i].of <= Len(s'.log)
  <2>1. i \in DOMAIN s.work /\ s'.work[i] = s.work[i] /\ s.work[i].kind \in Barriers
    BY <1>3, <1>6
  <2>2. Count(s.work, Barriers) # 0
    BY <1>1, <2>1, CountIs
  <2>3. s.barriers # 0
    BY <1>1, <2>2 DEF BarrierInv
  <2>4. Settled(s.work[i].of) /\ s.work[i].of <= Len(s.log)
    BY <2>1 DEF BarrierInv
  <2>5. SettledNext(s'.work[i].of)
    BY <1>5, <2>1, <2>3, <2>4
  <2> QED
    BY <1>1, <2>1, <2>4, <2>5
<1>7. ASSUME Running("barrier")'
      PROVE  SettledNext(driver'.item.of) /\ driver'.item.of <= Len(s'.log)
  <2>1. s.barriers # 0 /\ Settled(driver.item.of) /\ driver.item.of <= Len(s.log)
    BY <1>1, <1>2, <1>7 DEF BarrierInv
  <2> QED
    BY <1>1, <1>2, <1>5, <1>7, <2>1
<1>8. \A d \in Demands : d <= s'.passed => s'.log[d].results # <<>> \/ Dropped'
  <2> SUFFICES ASSUME NEW d \in Demands, d <= s.passed, ~Dropped'
               PROVE  s'.log[d].results # <<>>
    OBVIOUS
  <2>1. s.log[d].results # <<>>
    BY DEF BarrierInv
  <2>2. d \notin Open
    BY <2>1 DEF DemandInv
  <2> QED
    BY <2>1, <2>2 DEF Moved
<1>9. s'.passed <= Len(s'.log)
  BY <1>1 DEF BarrierInv
<1> QED
  BY <1>1, <1>4, <1>6, <1>7, <1>8, <1>9, BarrierFrom

LEMMA ResultsFollow ==
  ASSUME TypeInv, DemandInv, ResultInv, Moved
  PROVE  ResultInv'
<1>1. Demands' = Demands
  BY DEF Moved, Demands
<1>2. ASSUME NEW d \in Demands
      PROVE  \A i \in DOMAIN s'.log[d].results :
               s'.log[d].results[i] = Nothing \/ s'.log[d].results[i] >= s'.log[d].needs
  <2>1. s'.log[d].needs = s.log[d].needs
    BY DEF Moved
  <2>2. CASE s'.log[d].results = s.log[d].results
    BY <2>1, <2>2 DEF ResultInv
  <2>3. CASE d \in Open /\ Ended(d)
    BY <2>1, <2>3, EndedIs DEF DemandInv
  <2> QED
    BY <2>2, <2>3 DEF Moved
<1> QED
  BY <1>1, <1>2 DEF ResultInv

LEMMA Follow ==
  ASSUME TypeInv, TypeInv', DemandsInv, Moved, Apart', Dropped => Dropped',
         driver'.demand # 0 <=> driver'.at \in Rendering,
         s.barriers # 0 => driver.demand \notin Queued', Barred, NotRunning \/ Stays,
         s'.barriers = s.barriers, s'.passed = s.passed, MapInv', ShowsInv', LookInv'
  PROVE  DemandsInv'
<1>1. DemandInv'
  BY DemandsFollow DEF DemandsInv
<1>2. BarrierInv'
  BY BarriersFollow DEF DemandsInv
<1>3. ResultInv'
  BY ResultsFollow DEF DemandsInv, FrameInv
<1> QED
  BY <1>1, <1>2, <1>3 DEF DemandsInv, FrameInv

(* What the steps do to the demands' log.                                  *)
LEMMA LogSame ==
  ASSUME DemandsOf(s') = DemandsOf(s)
  PROVE  /\ s'.demands = s.demands /\ s'.waiting = s.waiting /\ s'.log = s.log
         /\ s'.barriers = s.barriers /\ s'.passed = s.passed
         /\ Demands' = Demands /\ Queued' = Queued
BY DEF DemandsOf, Demands, Queued

LEMMA EntryEnds ==
  ASSUME NEW e \in Entries, NEW r, NEW f, f = [e EXCEPT !.results = Append(@, r)]
  PROVE  f.needs = e.needs /\ f.looked = e.looked /\ f.results = Append(e.results, r)
BY DEF Entries

LEMMA LogFinished ==
  ASSUME TypeInv, NEW u, NEW ds, Finishes(u, s, ds)
  PROVE  /\ Len(u.log) = Len(s.log) /\ u.barriers = s.barriers /\ u.passed = s.passed
         /\ \A d \in Demands :
              /\ u.log[d].needs = s.log[d].needs /\ u.log[d].looked = s.log[d].looked
              /\ u.log[d].results = IF d \in ds THEN Append(s.log[d].results, Nothing)
                                    ELSE s.log[d].results
<1>1. \A d \in Demands : s.log[d] \in Entries
  BY DEF Demands, TypeInv, SessionType
<1>2. /\ Len(u.log) = Len(s.log) /\ u.barriers = s.barriers /\ u.passed = s.passed
      /\ \A d \in Demands :
           u.log[d] = IF d \in ds THEN [s.log[d] EXCEPT !.results = Append(@, Nothing)]
                      ELSE s.log[d]
  BY DEF Finishes, Demands
<1>3. ASSUME NEW d \in Demands, d \in ds
      PROVE  /\ u.log[d].needs = s.log[d].needs /\ u.log[d].looked = s.log[d].looked
             /\ u.log[d].results = Append(s.log[d].results, Nothing)
  <2>1. s.log[d] \in Entries /\ u.log[d] = [s.log[d] EXCEPT !.results = Append(@, Nothing)]
    BY <1>1, <1>2, <1>3
  <2> QED
    BY <2>1, EntryEnds
<1> QED
  BY <1>2, <1>3

LEMMA LogAnswered ==
  ASSUME TypeInv, NEW r, Answers(s', s, driver.demand, r)
  PROVE  /\ Len(s'.log) = Len(s.log) /\ s'.barriers = s.barriers /\ s'.passed = s.passed
         /\ \A d \in Demands :
              /\ s'.log[d].needs = s.log[d].needs /\ s'.log[d].looked = s.log[d].looked
              /\ s'.log[d].results = IF d = driver.demand THEN Append(s.log[d].results, r)
                                     ELSE s.log[d].results
<1>1. \A d \in Demands : s.log[d] \in Entries
  BY DEF Demands, TypeInv, SessionType
<1>2. /\ Len(s'.log) = Len(s.log) /\ s'.barriers = s.barriers /\ s'.passed = s.passed
      /\ \A d \in Demands :
           s'.log[d] = IF d = driver.demand
                       THEN [s.log[d] EXCEPT !.results = Append(@, r)] ELSE s.log[d]
  BY DEF Answers, Demands
<1>3. ASSUME NEW d \in Demands, d = driver.demand
      PROVE  /\ s'.log[d].needs = s.log[d].needs /\ s'.log[d].looked = s.log[d].looked
             /\ s'.log[d].results = Append(s.log[d].results, r)
  <2>1. s.log[d] \in Entries /\ s'.log[d] = [s.log[d] EXCEPT !.results = Append(@, r)]
    BY <1>1, <1>2, <1>3
  <2> QED
    BY <2>1, EntryEnds
<1> QED
  BY <1>2, <1>3

LEMMA LogLooked ==
  ASSUME TypeInv, Looks(s', s)
  PROVE  /\ Len(s'.log) = Len(s.log) /\ s'.barriers = s.barriers /\ s'.passed = s.passed
         /\ \A d \in Demands :
              /\ s'.log[d].needs = s.log[d].needs /\ s'.log[d].results = s.log[d].results
              /\ s'.log[d].looked = IF d = driver.demand THEN driver.update ELSE s.log[d].looked
<1>1. \A d \in Demands : s.log[d] \in Entries
  BY DEF Demands, TypeInv, SessionType
<1> QED
  BY <1>1 DEF Looks, Demands, Entries

LEMMA NoneQueued ==
  ASSUME s'.demands = <<>>, s'.waiting = <<>>
  PROVE  /\ Queued' = {} /\ ToSet(s'.waiting) = {} /\ Apart' /\ LookInv'
         /\ Open' = {driver'.demand} \ {0}
<1>1. ToSet(s'.demands) = {} /\ ToSet(s'.waiting) = {} /\ IsInjective(<<>>)
  BY DEF ToSet, IsInjective
<1> QED
  BY <1>1 DEF Queued, Apart, LookInv, Open

(* What a step does not touch.                                             *)
LEMMA BarredBy ==
  ASSUME TypeInv,
         \/ s'.work = s.work \/ Grown(s'.work, s.work)
         \/ \E x \in Works : x.kind \notin Barriers /\ s'.work = Append(s.work, x)
         \/ s'.work = <<>>
         \/ \A i \in DOMAIN s'.work : s'.work[i].kind = "frame"
  PROVE  Barred
<1>1. s.work \in Seq(Works) /\ Harmless \intersect Barriers = {} /\ "frame" \notin Barriers
  BY DEF TypeInv, SessionType, Harmless, Barriers
<1>2. CASE s'.work = s.work \/ Grown(s'.work, s.work)
  BY <1>1, <1>2 DEF Barred, Beyond, Grown
<1>3. CASE \E x \in Works : x.kind \notin Barriers /\ s'.work = Append(s.work, x)
  BY <1>1, <1>3 DEF Barred, Beyond
<1>4. CASE s'.work = <<>> \/ \A i \in DOMAIN s'.work : s'.work[i].kind = "frame"
  BY <1>1, <1>4 DEF Barred
<1> QED
  BY <1>2, <1>3, <1>4

LEMMA LookKept ==
  ASSUME TypeInv, DemandInv, LookInv, map' = map,
         ToSet(s'.waiting) \subseteq ToSet(s.waiting),
         \A d \in Demands : s'.log[d].looked = s.log[d].looked
  PROVE  LookInv'
<1>1. ToSet(s.waiting) \subseteq Demands
  BY DEF DemandInv, Open, Queued
<1> QED
  BY <1>1 DEF LookInv

LEMMA MapKept ==
  ASSUME FrameInv, map' = map
  PROVE  MapInv'
BY DEF FrameInv, MapInv

LEMMA ShowsNothing ==
  ASSUME driver'.at \notin {"render", "draw", "publish"}
  PROVE  ShowsInv'
BY DEF ShowsInv

LEMMA DroppedKept ==
  ASSUME s.disposed => s'.disposed, Over(s) => Over(s)'
  PROVE  Dropped => Dropped'
BY DEF Dropped

(* Most steps leave the demands as they are.                               *)
LEMMA DemandsStay ==
  ASSUME TypeInv, TypeInv', DemandsInv, DemandsOf(s') = DemandsOf(s), Dropped => Dropped',
         driver'.demand = driver.demand, driver'.at \in Rendering <=> driver.at \in Rendering,
         Barred, NotRunning \/ Stays, MapInv', ShowsInv', LookInv'
  PROVE  DemandsInv'
<1>1. /\ s'.demands = s.demands /\ s'.waiting = s.waiting /\ s'.log = s.log
      /\ s'.barriers = s.barriers /\ s'.passed = s.passed /\ Queued' = Queued
  BY LogSame
<1>2. Open' = Open
  BY <1>1 DEF Open
<1>3. Moved
  BY <1>1, <1>2 DEF Moved
<1>4. Apart' /\ driver.demand \notin Queued'
  BY <1>1 DEF Apart, DemandsInv, DemandInv
<1>5. driver'.demand # 0 <=> driver'.at \in Rendering
  BY DEF DemandsInv, DemandInv
<1> QED
  BY <1>1, <1>3, <1>4, <1>5, Follow

LEMMA DemandsAside ==
  ASSUME TypeInv, TypeInv', DemandsInv, DemandsOf(s') = DemandsOf(s), map' = map,
         s.disposed => s'.disposed, Over(s) => Over(s)', Barred,
         \/ driver' = driver
         \/ /\ driver.at \notin Rendering /\ driver'.at \notin Rendering /\ NotRunning
            /\ driver'.demand \in {0, driver.demand}
  PROVE  DemandsInv'
<1>1. Dropped => Dropped'
  BY DroppedKept
<1>2. driver'.demand = driver.demand
  BY DEF DemandsInv, DemandInv
<1>3. driver'.at \in Rendering <=> driver.at \in Rendering
  OBVIOUS
<1>4. NotRunning \/ Stays
  BY DEF Stays
<1>5. MapInv' /\ LookInv'
  <2>1. s'.waiting = s.waiting /\ s'.log = s.log
    BY LogSame
  <2> QED
    BY <2>1, MapKept, LookKept DEF DemandsInv, FrameInv
<1>6. ShowsInv'
  <2>1. CASE driver' = driver
    <3>1. s'.log = s.log
      BY LogSame
    <3> QED
      BY <2>1, <3>1 DEF DemandsInv, FrameInv, ShowsInv
  <2>2. CASE driver'.at \notin Rendering
    BY <2>2, ShowsNothing DEF Rendering
  <2> QED
    BY <2>1, <2>2
<1> QED
  BY <1>1, <1>2, <1>3, <1>4, <1>5, <1>6, DemandsStay

(* Demands that end without a frame, or are dropped.                       *)
LEMMA DemandsEnd ==
  ASSUME TypeInv, TypeInv', DemandsInv, NEW ds, Finishes(s', s, ds), ds \subseteq Queued,
         Queued' \subseteq Queued \ ds, Queued \ ds \subseteq Queued' \/ Dropped',
         ToSet(s'.waiting) \subseteq ToSet(s.waiting), Apart',
         Dropped => Dropped', Barred, map' = map,
         \/ driver' = driver
         \/ /\ driver.at \notin Rendering /\ driver'.at \notin Rendering /\ NotRunning
            /\ driver'.demand \in {0, driver.demand}
  PROVE  DemandsInv'
<1>1. /\ Len(s'.log) = Len(s.log) /\ s'.barriers = s.barriers /\ s'.passed = s.passed
      /\ \A d \in Demands :
           /\ s'.log[d].needs = s.log[d].needs /\ s'.log[d].looked = s.log[d].looked
           /\ s'.log[d].results = IF d \in ds THEN Append(s.log[d].results, Nothing)
                                  ELSE s.log[d].results
  BY LogFinished
<1>2. driver'.demand = driver.demand /\ driver.demand \notin Queued
  BY DEF DemandsInv, DemandInv, Apart
<1>3. /\ driver'.at \in Rendering <=> driver.at \in Rendering
      /\ NotRunning \/ Stays
      /\ driver'.demand # 0 <=> driver'.at \in Rendering
  BY <1>2 DEF DemandsInv, DemandInv, Stays
<1>4. Open' \subseteq Open /\ ds \subseteq Open /\ ds \intersect Open' = {}
  BY <1>2 DEF Open
<1>5. ASSUME NEW d \in Demands
      PROVE  /\ s'.log[d].needs = s.log[d].needs
             /\ \/ /\ s'.log[d].results = s.log[d].results
                   /\ d \in Open => d \in Open' \/ Dropped'
                \/ d \in Open \ Open' /\ Ended(d)
  <2>1. CASE d \in ds
    <3>1. s'.log[d].results = Append(s.log[d].results, Nothing)
      BY <1>1, <2>1
    <3>2. Nothing \in Int
      BY DEF Nothing
    <3> QED
      BY <1>1, <1>4, <2>1, <3>1, <3>2 DEF Ended
  <2>2. CASE d \notin ds
    BY <1>1, <1>2, <2>2 DEF Open
  <2> QED
    BY <2>1, <2>2
<1>6. Moved
  BY <1>1, <1>4, <1>5 DEF Moved
<1>7. MapInv' /\ LookInv'
  BY <1>1, MapKept, LookKept DEF DemandsInv, FrameInv
<1>8. ShowsInv'
  <2>1. CASE driver' = driver
    <3>1. driver.demand # 0 => s'.log[driver.demand].needs = s.log[driver.demand].needs
      BY <1>1 DEF DemandsInv, DemandInv, Open
    <3> QED
      BY <1>3, <2>1, <3>1 DEF DemandsInv, FrameInv, ShowsInv, Rendering
  <2>2. CASE driver'.at \notin Rendering
    BY <2>2, ShowsNothing DEF Rendering
  <2> QED
    BY <2>1, <2>2
<1>9. driver.demand \notin Queued'
  BY <1>2
<1> QED
  BY <1>1, <1>3, <1>6, <1>7, <1>8, <1>9, Follow

(* The steps of a driver's call that take no demand.                       *)
LEMMA DemandsInCalls ==
  ASSUME TypeInv, TypeInv', DemandsInv, map' = map,
         \/ CoreWaits \/ CoreDisposes \/ CoreAsks \/ CoreStops \/ Service \/ LoopDisposes
         \/ LoopEnds \/ EndCall \/ FreeGraphics \/ BeginDisposal \/ HandOver
  PROVE  DemandsInv'
<1> DEFINE Aside ==
      /\ DemandsOf(s') = DemandsOf(s) /\ s'.disposed = s.disposed
      /\ s'.state = s.state \/ s.state = "attached"
      /\ \/ s'.work = s.work \/ s'.work = <<>>
         \/ \A i \in DOMAIN s'.work : s'.work[i].kind = "frame"
      /\ \/ driver' = driver
         \/ /\ driver.at \notin Rendering /\ driver'.at \notin Rendering /\ NotRunning
            /\ driver'.demand \in {0, driver.demand}
<1>1. Aside
  <2>1. CASE CoreWaits
    BY <2>1, CoreWaitsIs DEF PartsOf, LifeOf
  <2>2. CASE CoreDisposes \/ CoreStops
    BY <2>2, CoreDisposesIs, CoreStopsIs DEF LifeOf, Rendering, NotRunning
  <2>3. CASE CoreAsks
    BY <2>3, CoreAsksIs DEF LifeOf, Rendering, NotRunning
  <2>4. CASE Service
    BY <2>4, ServiceIs DEF LifeOf, Rendering, NotRunning
  <2>5. CASE LoopDisposes
    BY <2>5, LoopDisposesIs DEF LifeOf, Rendering, NotRunning
  <2>6. CASE LoopEnds
    BY <2>6, LoopEndsIs DEF PartsOf, LifeOf, Rendering, NotRunning
  <2>7. CASE EndCall
    BY <2>7, EndCallIs DEF LifeOf, Rendering, NotRunning
  <2>8. CASE FreeGraphics
    BY <2>8, FreeGraphicsIs DEF LifeOf, Rendering, NotRunning, Running
  <2>9. CASE BeginDisposal
    BY <2>9, BeginDisposalIs DEF LifeOf, Rendering, NotRunning
  <2>10. CASE HandOver
    BY <2>10, HandOverIs DEF LifeOf, Rendering, NotRunning
  <2> QED
    BY <2>1, <2>2, <2>3, <2>4, <2>5, <2>6, <2>7, <2>8, <2>9, <2>10
<1>2. (s.disposed => s'.disposed) /\ (Over(s) => Over(s)')
  BY <1>1 DEF Over
<1>3. Barred
  BY <1>1, BarredBy
<1> QED
  BY <1>1, <1>2, <1>3, DemandsAside

LEMMA DemandsTaken ==
  ASSUME TypeInv, TypeInv', DemandsInv, map' = map, CoreTakes \/ LoopTakes
  PROVE  DemandsInv'
<1>1. /\ s.work # <<>> /\ s'.work = Tail(s.work) /\ DemandsOf(s') = DemandsOf(s)
      /\ s'.disposed = s.disposed /\ s'.state = s.state
      /\ driver'.at = "run" /\ driver'.item = Head(s.work)
      /\ driver'.demand = driver.demand /\ driver.at \in {"idle", "loop"}
  BY TakesIs DEF LifeOf
<1>2. /\ s'.demands = s.demands /\ s'.waiting = s.waiting /\ s'.log = s.log
      /\ s'.barriers = s.barriers /\ s'.passed = s.passed
      /\ Demands' = Demands /\ Queued' = Queued
  BY <1>1, LogSame
<1>3. Open' = Open /\ Apart' /\ (Dropped' <=> Dropped)
  BY <1>1, <1>2 DEF Open, Apart, DemandsInv, DemandInv, Dropped, Over
<1>4. Moved
  BY <1>2, <1>3 DEF Moved
<1>5. DemandInv'
  BY <1>1, <1>3, <1>4, DemandsFollow DEF DemandsInv, DemandInv, Rendering
<1>6. FrameInv'
  <2>1. MapInv' /\ LookInv'
    BY <1>2, MapKept, LookKept DEF DemandsInv, FrameInv
  <2>2. ShowsInv'
    BY <1>1, ShowsNothing
  <2> QED
    BY <1>4, <2>1, <2>2, ResultsFollow DEF DemandsInv, FrameInv
<1>7. /\ s.work \in Seq(Works) /\ s'.work \in Seq(Works) /\ s.barriers \in Int
      /\ Count(s.work, Barriers) \in Nat /\ Count(s'.work, Barriers) \in Nat
      /\ Count(s.work, Barriers) =
           Count(s'.work, Barriers) + IF Head(s.work).kind \in Barriers THEN 1 ELSE 0
  <2>1. s.work \in Seq(Works) /\ s'.work \in Seq(Works) /\ s.barriers \in Int
    BY DEF TypeInv, SessionType
  <2>2. Count(s.work, Barriers) =
          Count(s'.work, Barriers) + IF Head(s.work).kind \in Barriers THEN 1 ELSE 0
    BY <1>1, <2>1, CountTail
  <2>3. Count(s.work, Barriers) \in Nat /\ Count(s'.work, Barriers) \in Nat
    BY <2>1, CountIs
  <2> QED
    BY <2>1, <2>2, <2>3
<1>8. s'.barriers >= Count(s'.work, Barriers) + (IF Running("barrier")' THEN 1 ELSE 0)
  BY <1>1, <1>2, <1>7 DEF DemandsInv, BarrierInv, Running, Barriers
<1>9. \A n : Settled(n) => SettledNext(n)
  BY <1>1, <1>2, <1>3 DEF Settled, SettledNext
<1>10. /\ Head(s.work) = s.work[1] /\ 1 \in DOMAIN s.work
       /\ \A i \in DOMAIN s'.work : i + 1 \in DOMAIN s.work /\ s'.work[i] = s.work[i + 1]
  BY <1>1, <1>7
<1>11. \A i \in DOMAIN s.work : s.work[i].kind \in Barriers =>
         SettledNext(s.work[i].of) /\ s.work[i].of <= Len(s'.log)
  BY <1>2, <1>9 DEF DemandsInv, BarrierInv
<1>12. Running("barrier")' => SettledNext(driver'.item.of) /\ driver'.item.of <= Len(s'.log)
  BY <1>1, <1>10, <1>11 DEF Running, Barriers
<1>13. \A i \in DOMAIN s'.work : s'.work[i].kind \in Barriers =>
         SettledNext(s'.work[i].of) /\ s'.work[i].of <= Len(s'.log)
  BY <1>10, <1>11
<1>14. /\ \A d \in Demands' : d <= s'.passed => s'.log[d].results # <<>> \/ Dropped'
       /\ s'.passed <= Len(s'.log)
  BY <1>2, <1>3 DEF DemandsInv, BarrierInv
<1>15. BarrierInv'
  BY <1>8, <1>12, <1>13, <1>14, BarrierFrom
<1> QED
  BY <1>5, <1>6, <1>15 DEF DemandsInv

(* A barrier that completes has every demand before it settled.            *)
LEMMA DemandsBarred ==
  ASSUME TypeInv, TypeInv', DemandsInv, map' = map, RunBarrier
  PROVE  DemandsInv'
<1>1. /\ Ends /\ Running("barrier") /\ s'.disposed = s.disposed /\ s'.state = s.state
      /\ s'.demands = s.demands /\ s'.waiting = s.waiting /\ s'.log = s.log
      /\ s'.barriers = s.barriers - 1 /\ s'.passed = driver.item.of /\ s'.work = s.work
  BY RunBarrierIs DEF LifeOf, DemandsOf
<1>2. /\ driver'.demand = 0 /\ driver.demand = 0 /\ driver'.at \notin Rendering
      /\ driver'.at # "run"
  BY <1>1, EndsIs DEF Running, Rendering, DemandsInv, DemandInv
<1>3. /\ Open' = Open /\ Apart' /\ (Dropped' <=> Dropped) /\ Demands' = Demands
  BY <1>1, <1>2 DEF Queued, Open, Apart, DemandsInv, DemandInv, Dropped, Over, Demands
<1>4. Moved
  BY <1>1, <1>3 DEF Moved
<1>5. DemandInv'
  BY <1>2, <1>3, <1>4, DemandsFollow DEF DemandsInv
<1>6. FrameInv'
  <2>1. MapInv' /\ LookInv'
    BY <1>1, MapKept, LookKept DEF DemandsInv, FrameInv
  <2>2. ShowsInv'
    BY <1>2, ShowsNothing DEF Rendering
  <2> QED
    BY <1>4, <2>1, <2>2, ResultsFollow DEF DemandsInv, FrameInv
<1>7. s.barriers \in Int /\ Count(s.work, Barriers) \in Nat
  BY CountIs DEF TypeInv, SessionType
<1>8. s'.barriers >= Count(s'.work, Barriers) + (IF Running("barrier")' THEN 1 ELSE 0)
  BY <1>1, <1>2, <1>7 DEF DemandsInv, BarrierInv, Running
<1>9. \A n : Settled(n) => SettledNext(n)
  BY <1>1, <1>2, <1>3 DEF Settled, SettledNext
<1>10. \A i \in DOMAIN s'.work : s'.work[i].kind \in Barriers =>
         SettledNext(s'.work[i].of) /\ s'.work[i].of <= Len(s'.log)
  BY <1>1, <1>9 DEF DemandsInv, BarrierInv
<1>11. ~Running("barrier")'
  BY <1>2 DEF Running
<1>12. Settled(driver.item.of) /\ driver.item.of <= Len(s.log)
  BY <1>1 DEF DemandsInv, BarrierInv
<1>13. \A d \in Demands' : d <= s'.passed => s'.log[d].results # <<>> \/ Dropped'
  BY <1>1, <1>2, <1>3, <1>12 DEF Settled, Demands
<1>14. BarrierInv'
  BY <1>1, <1>8, <1>10, <1>11, <1>12, <1>13, BarrierFrom
<1> QED
  BY <1>5, <1>6, <1>14 DEF DemandsInv

(* A session that fails, detaches or is abandoned ends what it holds.      *)
LEMMA QueuedIs ==
  ASSUME TypeInv
  PROVE  ToSet(s.demands \o s.waiting) = Queued
BY JoinedIs DEF TypeInv, SessionType, Queued

LEMMA DemandsEndAll ==
  ASSUME TypeInv, TypeInv', DemandsInv, s'.demands = <<>>, s'.waiting = <<>>,
         s'.disposed = s.disposed, Over(s) => Over(s)', Barred, map' = map,
         \/ Finishes(s', s, ToSet(s.demands \o s.waiting))
         \/ Finishes(s', s, {}) /\ Dropped',
         \/ driver' = driver
         \/ /\ driver.at \notin Rendering /\ driver'.at \notin Rendering /\ NotRunning
            /\ driver'.demand \in {0, driver.demand}
  PROVE  DemandsInv'
<1>1. Queued' = {} /\ ToSet(s'.waiting) = {} /\ Apart'
  BY NoneQueued
<1>2. Dropped => Dropped'
  BY DroppedKept
<1>3. ToSet(s.demands \o s.waiting) = Queued
  BY QueuedIs
<1>4. PICK ds \in SUBSET Queued : Finishes(s', s, ds) /\ (Queued \ ds = {} \/ Dropped')
  BY <1>3
<1> QED
  BY <1>1, <1>2, <1>4, DemandsEnd

LEMMA DemandsEndWithSession ==
  ASSUME TypeInv, TypeInv', LifeInv, DemandsInv, map' = map, Attach \/ FinishDetach \/ RunRelease
  PROVE  DemandsInv'
<1>1. StateInv
  BY DEF LifeInv
<1>2. driver.at \notin Rendering
  BY AttachIs, FinishDetachIs, RunReleaseIs, <1>1 DEF Running, Rendering
<1>3. (Ends \/ (FinishDetach /\ driver'.at = "handover" /\ driver'.demand = driver.demand))
        => driver'.at \notin Rendering /\ NotRunning /\ driver'.demand \in {0, driver.demand}
  BY EndsIs DEF Rendering, NotRunning
<1>4. CASE Attach
  <2>1. /\ Ends /\ s.state = "attaching" /\ s'.disposed = s.disposed
        /\ \/ DemandsOf(s') = DemandsOf(s) /\ s'.work = s.work
           \/ Fails(s', s)
    BY <1>1, <1>4, AttachIs DEF LifeOf, Fails, StateInv
  <2>2. Barred /\ (Over(s) => Over(s)')
    BY <2>1, BarredBy DEF Fails, Over
  <2>3. CASE DemandsOf(s') = DemandsOf(s)
    BY <1>2, <1>3, <2>1, <2>2, <2>3, DemandsAside
  <2>4. CASE Fails(s', s)
    BY <1>2, <1>3, <2>1, <2>2, <2>4, DemandsEndAll DEF Fails
  <2> QED
    BY <2>1, <2>3, <2>4
<1>5. CASE FinishDetach
  <2>1. /\ s'.demands = <<>> /\ s'.waiting = <<>> /\ s'.disposed = s.disposed
        /\ s'.state = "detached" /\ s'.work = s.work
        /\ Finishes(s', s, IF s.disposed THEN {} ELSE ToSet(s.demands \o s.waiting))
        /\ Ends \/ (driver'.at = "handover" /\ driver'.demand = driver.demand)
    BY <1>5, FinishDetachIs DEF LifeOf
  <2>2. Barred /\ Over(s)' /\ (s.disposed => Dropped')
    BY <2>1, BarredBy DEF Over, Dropped
  <2> QED
    BY <1>2, <1>3, <1>5, <2>1, <2>2, DemandsEndAll
<1>6. CASE RunRelease
  <2>1. /\ Ends /\ ~Over(s) /\ s'.disposed = s.disposed
        /\ \/ DemandsOf(s') = DemandsOf(s) /\ Grown(s'.work, s.work)
           \/ \E u : Fails(u, s) /\ DemandsOf(s') = DemandsOf(u) /\ s'.work = <<>>
    BY <1>1, <1>6, RunReleaseIs DEF LifeOf, Over
  <2>2. Barred
    BY <2>1, BarredBy
  <2>3. CASE DemandsOf(s') = DemandsOf(s)
    BY <1>2, <1>3, <2>1, <2>2, <2>3, DemandsAside
  <2>4. CASE \E u : Fails(u, s) /\ DemandsOf(s') = DemandsOf(u) /\ s'.work = <<>>
    <3>1. /\ s'.demands = <<>> /\ s'.waiting = <<>>
          /\ Finishes(s', s, ToSet(s.demands \o s.waiting))
      BY <2>4 DEF Fails, DemandsOf, Finishes
    <3> QED
      BY <1>2, <1>3, <2>1, <2>2, <3>1, DemandsEndAll
  <2> QED
    BY <2>1, <2>3, <2>4
<1> QED
  BY <1>4, <1>5, <1>6

LEMMA DemandsAbandoned ==
  ASSUME TypeInv, TypeInv', DemandsInv, map' = map, driver' = driver, Abandons(s', s)
  PROVE  DemandsInv'
<1>1. /\ s'.demands = <<>> /\ s'.waiting = <<>> /\ s'.disposed = s.disposed
      /\ s'.state = "abandoned" /\ s'.work = <<>>
      /\ Finishes(s', s, IF s.disposed THEN {} ELSE ToSet(s.demands \o s.waiting))
  BY DEF Abandons, LifeOf
<1>2. Barred /\ Over(s)' /\ (s.disposed => Dropped')
  BY <1>1, BarredBy DEF Over, Dropped
<1> QED
  BY <1>1, <1>2, DemandsEndAll

(* The demands that waited for an update are queued again.                 *)
LEMMA DemandsAgain ==
  ASSUME TypeInv, TypeInv', DemandsInv,
         DemandsOf(s') = <<s.waiting \o s.demands, <<>>, s.log, s.barriers, s.passed>>,
         Dropped => Dropped', driver'.demand = driver.demand,
         driver'.at \in Rendering <=> driver.at \in Rendering,
         Barred, NotRunning \/ Stays, MapInv', ShowsInv'
  PROVE  DemandsInv'
<1>1. /\ s'.demands = s.waiting \o s.demands /\ s'.waiting = <<>> /\ s'.log = s.log
      /\ s'.barriers = s.barriers /\ s'.passed = s.passed
  BY DEF DemandsOf
<1>2. /\ s.demands \in Seq(Nat) /\ s.waiting \in Seq(Nat)
      /\ IsInjective(s.demands) /\ IsInjective(s.waiting)
      /\ ToSet(s.waiting) \intersect ToSet(s.demands) = {} /\ driver.demand \notin Queued
  BY DemandsAre DEF DemandsInv, DemandInv, Apart
<1>3. ToSet(s'.waiting) = {} /\ IsInjective(s'.waiting)
  BY <1>1 DEF ToSet, IsInjective
<1>4. IsInjective(s'.demands)
  BY <1>1, <1>2, JoinedApart
<1>5. Queued' = Queued
  BY <1>1, <1>2, <1>3, JoinedIs DEF Queued
<1>6. Apart' /\ LookInv' /\ Open' = Open
  BY <1>2, <1>3, <1>4, <1>5 DEF Apart, LookInv, Open
<1>7. Moved
  BY <1>1, <1>6 DEF Moved
<1>8. driver'.demand # 0 <=> driver'.at \in Rendering
  BY DEF DemandsInv, DemandInv
<1> QED
  BY <1>1, <1>2, <1>5, <1>6, <1>7, <1>8, Follow

LEMMA DemandsChanged ==
  ASSUME TypeInv, TypeInv', DemandsInv, map' = map, RunUntarget \/ RunRetarget
  PROVE  DemandsInv'
<1>1. /\ Ends /\ s'.disposed = s.disposed /\ s'.state = s.state
      /\ s'.work = s.work \/ Grown(s'.work, s.work)
      /\ \/ DemandsOf(s') = DemandsOf(s)
         \/ DemandsOf(s') = <<s.waiting \o s.demands, <<>>, s.log, s.barriers, s.passed>>
  BY ChangeIs DEF LifeOf
<1>2. driver.at \notin Rendering
  <2>1. Running("untarget") \/ Running("retarget")
    BY ChangeIs
  <2> QED
    BY <2>1 DEF Running, Rendering
<1>3. driver'.at \notin Rendering /\ NotRunning /\ driver'.demand = 0
  BY <1>1, EndsIs DEF Rendering, NotRunning
<1>4. Barred /\ (s.disposed => s'.disposed) /\ (Over(s) => Over(s)')
  BY <1>1, BarredBy DEF Over
<1>5. CASE DemandsOf(s') = DemandsOf(s)
  BY <1>2, <1>3, <1>4, <1>5, DemandsAside
<1>6. CASE DemandsOf(s') = <<s.waiting \o s.demands, <<>>, s.log, s.barriers, s.passed>>
  <2>1. driver'.demand = driver.demand
    BY <1>2, <1>3 DEF DemandsInv, DemandInv
  <2>2. MapInv' /\ ShowsInv' /\ (Dropped => Dropped')
    BY <1>3, <1>4, MapKept, ShowsNothing, DroppedKept DEF DemandsInv, Rendering
  <2> QED
    BY <1>2, <1>3, <1>4, <1>6, <2>1, <2>2, DemandsAgain
<1> QED
  BY <1>1, <1>5, <1>6

(* The driver's demand: it is taken from the front, ...                    *)
LEMMA DemandInHand ==
  ASSUME TypeInv, DemandsInv, driver.at \in Rendering
  PROVE  /\ driver.demand \in Demands /\ driver.demand # 0 /\ driver.demand \notin Queued
         /\ driver.demand \in Open /\ s.log[driver.demand].results = <<>>
         /\ driver.demand \in Nat /\ 0 \notin Queued
BY DemandsAre DEF DemandsInv, DemandInv, Apart, Open, Demands

LEMMA DemandsTakenUp ==
  ASSUME TypeInv, TypeInv', DemandsInv, map' = map, TakeDemand
  PROVE  DemandsInv'
<1>1. /\ driver.at = "run" /\ s'.disposed = s.disposed /\ s'.state = s.state
      /\ s'.work = s.work
      /\ \/ /\ s.demands # <<>>
            /\ DemandsOf(s') = <<Tail(s.demands), s.waiting, s.log, s.barriers, s.passed>>
            /\ driver'.at = "took" /\ driver'.demand = Head(s.demands)
         \/ DemandsOf(s') = DemandsOf(s) /\ Ends
  BY TakeDemandIs DEF LifeOf, Running
<1>2. Barred /\ (s.disposed => s'.disposed) /\ (Over(s) => Over(s)') /\ (Dropped => Dropped')
  BY <1>1, BarredBy, DroppedKept DEF Over
<1>3. CASE DemandsOf(s') = DemandsOf(s) /\ Ends
  <2>1. driver'.at \notin Rendering /\ NotRunning /\ driver'.demand = 0
    BY <1>3, EndsIs DEF Rendering, NotRunning
  <2> QED
    BY <1>1, <1>2, <1>3, <2>1, DemandsAside DEF Rendering
<1>4. CASE /\ s.demands # <<>>
           /\ DemandsOf(s') = <<Tail(s.demands), s.waiting, s.log, s.barriers, s.passed>>
           /\ driver'.at = "took" /\ driver'.demand = Head(s.demands)
  <2> DEFINE h == Head(s.demands)
  <2>1. /\ s'.demands = Tail(s.demands) /\ s'.waiting = s.waiting /\ s'.log = s.log
        /\ s'.barriers = s.barriers /\ s'.passed = s.passed /\ driver'.demand = h
    BY <1>4 DEF DemandsOf
  <2>2. /\ s.demands \in Seq(Nat) /\ IsInjective(s.demands) /\ IsInjective(s.waiting)
        /\ ToSet(s.demands) \intersect ToSet(s.waiting) = {}
        /\ driver.demand = 0 /\ Open = Queued /\ 0 \notin Queued
    BY <1>1, DemandsAre DEF DemandsInv, DemandInv, Apart, Open, Demands, Rendering
  <2>3. /\ IsInjective(Tail(s.demands)) /\ h \in ToSet(s.demands)
        /\ \A y : y \in ToSet(Tail(s.demands)) <=> y \in ToSet(s.demands) /\ y # h
    BY <1>4, <2>2, TailIs
  <2> HIDE DEF h
  <2>4. /\ ToSet(s'.demands) = ToSet(s.demands) \ {h} /\ ToSet(s'.waiting) = ToSet(s.waiting)
        /\ h # 0 /\ h \notin ToSet(s.waiting)
    BY <2>1, <2>2, <2>3 DEF Queued
  <2>5. Open' = Open /\ Apart' /\ 0 \notin Queued'
    BY <2>1, <2>2, <2>3, <2>4 DEF Open, Apart, Queued
  <2>6. Moved
    BY <2>1, <2>5 DEF Moved
  <2>7. MapInv' /\ LookInv' /\ ShowsInv'
    BY <1>4, <2>1, MapKept, LookKept, ShowsNothing DEF DemandsInv, FrameInv
  <2>8. NotRunning /\ (driver'.demand # 0 <=> driver'.at \in Rendering)
    BY <1>4, <2>1, <2>4 DEF NotRunning, Rendering
  <2> QED
    BY <1>2, <2>1, <2>2, <2>5, <2>6, <2>7, <2>8, Follow
<1> QED
  BY <1>1, <1>3, <1>4

(* ... is looked at and drawn, ...                                         *)
LEMMA DemandsDrawn ==
  ASSUME TypeInv, TypeInv', DemandsInv, map' = map, driver.at \in Rendering,
         driver'.at \in Rendering, driver'.demand = driver.demand,
         DemandsOf(s') = DemandsOf(s), s'.disposed = s.disposed, s'.state = s.state,
         s'.work = s.work, ShowsInv'
  PROVE  DemandsInv'
<1>1. Barred /\ (Dropped => Dropped') /\ NotRunning
  BY BarredBy, DroppedKept DEF Over, NotRunning, Rendering
<1>2. MapInv' /\ LookInv'
  <2>1. s'.waiting = s.waiting /\ s'.log = s.log
    BY LogSame
  <2> QED
    BY <2>1, MapKept, LookKept DEF DemandsInv, FrameInv
<1> QED
  BY <1>1, <1>2, DemandsStay

(* ... and answered, ...                                                   *)
LEMMA DemandsAnswered ==
  ASSUME TypeInv, TypeInv', DemandsInv, map' = map, driver.at \in Rendering, Ends,
         NEW r \in Int, r = Nothing \/ r >= s.log[driver.demand].needs,
         EndsWith(s', s, r), s'.work = s.work \/ Grown(s'.work, s.work)
  PROVE  DemandsInv'
<1>1. /\ Len(s'.log) = Len(s.log) /\ s'.barriers = s.barriers /\ s'.passed = s.passed
      /\ \A d \in Demands :
           /\ s'.log[d].needs = s.log[d].needs /\ s'.log[d].looked = s.log[d].looked
           /\ s'.log[d].results = IF d = driver.demand THEN Append(s.log[d].results, r)
                                  ELSE s.log[d].results
  BY LogAnswered DEF EndsWith
<1>2. /\ s'.demands = s.demands /\ s'.waiting = s.waiting
      /\ s'.disposed = s.disposed /\ s'.state = s.state
  BY DEF EndsWith, LifeOf
<1>3. /\ driver'.demand = 0 /\ driver'.at \notin Rendering /\ NotRunning
  BY EndsIs DEF Rendering, NotRunning
<1>4. driver.demand \in Open /\ driver.demand \notin Queued /\ 0 \notin Queued
  BY DemandInHand
<1>5. Queued' = Queued /\ Open' = Queued /\ Open = Queued \union {driver.demand} /\ Apart'
  BY <1>2, <1>3, <1>4 DEF Queued, Open, Apart, DemandsInv, DemandInv
<1>6. ASSUME NEW d \in Demands
      PROVE  /\ s'.log[d].needs = s.log[d].needs
             /\ \/ /\ s'.log[d].results = s.log[d].results
                   /\ d \in Open => d \in Open' \/ Dropped'
                \/ d \in Open \ Open' /\ Ended(d)
  BY <1>1, <1>4, <1>5 DEF Ended
<1>7. Moved
  BY <1>1, <1>4, <1>5, <1>6 DEF Moved
<1>8. Barred /\ (Dropped => Dropped')
  BY <1>2, BarredBy, DroppedKept DEF Over
<1>9. MapInv' /\ LookInv' /\ ShowsInv'
  BY <1>1, <1>2, <1>3, MapKept, LookKept, ShowsNothing DEF DemandsInv, FrameInv, Rendering
<1> QED
  BY <1>1, <1>3, <1>4, <1>5, <1>7, <1>8, <1>9, Follow

LEMMA DemandsFailed ==
  ASSUME TypeInv, TypeInv', DemandsInv, map' = map, driver.at \in Rendering, Live(s), Ends,
         NEW u, Fails(u, s), EndsWith(s', u, Nothing), s'.work = u.work
  PROVE  DemandsInv'
<1>1. /\ Len(u.log) = Len(s.log) /\ u.barriers = s.barriers /\ u.passed = s.passed
      /\ \A d \in Demands :
           /\ u.log[d].needs = s.log[d].needs /\ u.log[d].looked = s.log[d].looked
           /\ u.log[d].results = IF d \in Queued THEN Append(s.log[d].results, Nothing)
                                 ELSE s.log[d].results
  BY LogFinished, QueuedIs DEF Fails
<1>2. /\ Len(s'.log) = Len(u.log) /\ s'.barriers = u.barriers /\ s'.passed = u.passed
      /\ \A d \in Demands :
           /\ s'.log[d].needs = u.log[d].needs
           /\ s'.log[d].results = IF d = driver.demand THEN Append(u.log[d].results, Nothing)
                                  ELSE u.log[d].results
  <2>1. \A d \in Demands : u.log[d] \in Entries
    BY <1>1 DEF Demands, Fails, SessionType
  <2>2. /\ Len(s'.log) = Len(u.log) /\ s'.barriers = u.barriers /\ s'.passed = u.passed
        /\ \A d \in Demands :
             s'.log[d] = IF d = driver.demand
                         THEN [u.log[d] EXCEPT !.results = Append(@, Nothing)]
                         ELSE u.log[d]
    BY <1>1 DEF EndsWith, Answers, Demands
  <2>3. ASSUME NEW d \in Demands, d = driver.demand
        PROVE  /\ s'.log[d].needs = u.log[d].needs
               /\ s'.log[d].results = Append(u.log[d].results, Nothing)
    <3>1. u.log[d] \in Entries /\ s'.log[d] = [u.log[d] EXCEPT !.results = Append(@, Nothing)]
      BY <2>1, <2>2, <2>3
    <3> QED
      BY <3>1, EntryEnds
  <2> QED
    BY <2>2, <2>3
<1>3. s'.demands = <<>> /\ s'.waiting = <<>> /\ s'.work = <<>>
  BY DEF Fails, EndsWith
<1>4. driver'.demand = 0 /\ driver'.at \notin Rendering /\ NotRunning
  BY EndsIs DEF Rendering, NotRunning
<1>5. Queued' = {} /\ Apart' /\ LookInv' /\ Open' = {}
  BY <1>3, <1>4, NoneQueued
<1>6. Open = Queued \union {driver.demand} /\ driver.demand \notin Queued
  BY DemandInHand DEF Open
<1>7. ASSUME NEW d \in Demands
      PROVE  /\ s'.log[d].needs = s.log[d].needs
             /\ \/ s'.log[d].results = s.log[d].results /\ d \notin Open
                \/ d \in Open /\ Ended(d)
  <2>1. s'.log[d].results = IF d \in Open THEN Append(s.log[d].results, Nothing)
                            ELSE s.log[d].results
    BY <1>1, <1>2, <1>6
  <2>2. Nothing \in Int
    BY DEF Nothing
  <2> QED
    BY <1>1, <1>2, <2>1, <2>2 DEF Ended
<1>8. Moved
  BY <1>1, <1>2, <1>5, <1>7 DEF Moved
<1>9. Barred /\ ~Dropped
  BY <1>3, BarredBy DEF Live, Over, Dropped
<1>10. MapInv' /\ ShowsInv'
  BY <1>4, MapKept, ShowsNothing DEF DemandsInv, Rendering
<1> QED
  BY <1>1, <1>2, <1>4, <1>5, <1>8, <1>9, <1>10, Follow

(* ... or it waits, before the others or for an update.                    *)
LEMMA DemandsPutBack ==
  ASSUME TypeInv, TypeInv', DemandsInv, map' = map, driver.at \in Rendering, Ends,
         s.barriers = 0, s'.disposed = s.disposed, s'.state = s.state,
         s'.work = s.work \/ Grown(s'.work, s.work),
         DemandsOf(s') = <<<<driver.demand>> \o s.demands, s.waiting, s.log,
                           s.barriers, s.passed>>
  PROVE  DemandsInv'
<1> DEFINE d == driver.demand
<1>1. /\ s'.demands = <<d>> \o s.demands /\ s'.waiting = s.waiting /\ s'.log = s.log
      /\ s'.barriers = s.barriers /\ s'.passed = s.passed
  BY DEF DemandsOf
<1>2. d \in Nat /\ d # 0 /\ d \notin Queued /\ 0 \notin Queued
  BY DemandInHand
<1>3. /\ s.demands \in Seq(Nat) /\ IsInjective(s.demands) /\ IsInjective(s.waiting)
      /\ ToSet(s.demands) \intersect ToSet(s.waiting) = {}
  BY DemandsAre DEF DemandsInv, DemandInv, Apart
<1>4. driver'.demand = 0 /\ driver'.at \notin Rendering /\ NotRunning
  BY EndsIs DEF Rendering, NotRunning
<1>5. Open = Queued \union {d}
  BY <1>2 DEF Open
<1> HIDE DEF d
<1> DEFINE q == <<d>>
<1>6. q \in Seq(Nat) /\ IsInjective(q) /\ ToSet(q) = {d} /\ s'.demands = q \o s.demands
  BY <1>1, <1>2, SingleIs
<1> HIDE DEF q
<1>7. IsInjective(s'.demands)
  <2>1. ToSet(q) \intersect ToSet(s.demands) = {}
    BY <1>2, <1>6 DEF Queued
  <2> QED
    BY <1>3, <1>6, <2>1, JoinedApart
<1>8. ToSet(s'.demands) = ToSet(s.demands) \union {d} /\ ToSet(s'.waiting) = ToSet(s.waiting)
  BY <1>1, <1>3, <1>6, JoinedIs
<1>9. Open' = Open /\ Apart'
  BY <1>1, <1>2, <1>3, <1>4, <1>5, <1>7, <1>8 DEF Open, Apart, Queued
<1>10. Moved
  BY <1>1, <1>9 DEF Moved
<1>11. Barred /\ (Dropped => Dropped')
  BY BarredBy, DroppedKept DEF Over
<1>12. MapInv' /\ LookInv' /\ ShowsInv'
  BY <1>1, <1>4, MapKept, LookKept, ShowsNothing DEF DemandsInv, FrameInv, Rendering
<1> QED
  BY <1>1, <1>4, <1>9, <1>10, <1>11, <1>12, Follow

LEMMA DemandsParked ==
  ASSUME TypeInv, TypeInv', DemandsInv, map' = map, driver.at \in Rendering, Ends,
         s.barriers = 0, map.update = driver.update,
         s'.disposed = s.disposed, s'.state = s.state, s'.work = s.work,
         s'.demands = s.demands, s'.waiting = Append(s.waiting, driver.demand), Looks(s', s)
  PROVE  DemandsInv'
<1> DEFINE d == driver.demand
<1>1. /\ Len(s'.log) = Len(s.log) /\ s'.barriers = s.barriers /\ s'.passed = s.passed
      /\ \A e \in Demands :
           /\ s'.log[e].needs = s.log[e].needs /\ s'.log[e].results = s.log[e].results
           /\ s'.log[e].looked = IF e = d THEN map.update ELSE s.log[e].looked
  BY LogLooked
<1>2. d \in Nat /\ d # 0 /\ d \notin Queued /\ d \in Demands
  BY DemandInHand
<1>3. /\ s.waiting \in Seq(Nat) /\ IsInjective(s.demands) /\ IsInjective(s.waiting)
      /\ ToSet(s.demands) \intersect ToSet(s.waiting) = {}
      /\ Queued \subseteq Demands /\ 0 \notin Queued
  BY DemandsAre, DemandInHand DEF DemandsInv, DemandInv, Apart, Open
<1>4. driver'.demand = 0 /\ driver'.at \notin Rendering /\ NotRunning
  BY EndsIs DEF Rendering, NotRunning
<1>5. Open = Queued \union {d}
  BY <1>2 DEF Open
<1>6. s'.waiting = Append(s.waiting, d)
  OBVIOUS
<1> HIDE DEF d
<1>7. /\ IsInjective(s'.waiting)
      /\ \A y : y \in ToSet(s'.waiting) <=> y \in ToSet(s.waiting) \/ y = d
  BY <1>2, <1>3, <1>6, AppendedIs DEF Queued
<1>8. Open' = Open /\ Apart'
  BY <1>2, <1>3, <1>4, <1>5, <1>7 DEF Open, Apart, Queued
<1>9. Moved
  BY <1>1, <1>8 DEF Moved
<1>10. Barred /\ (Dropped => Dropped')
  BY BarredBy, DroppedKept DEF Over
<1>11. LookInv'
  BY <1>1, <1>2, <1>3, <1>7 DEF DemandsInv, FrameInv, LookInv, Queued
<1>12. MapInv' /\ ShowsInv'
  BY <1>4, MapKept, ShowsNothing DEF DemandsInv, Rendering
<1> QED
  BY <1>1, <1>4, <1>8, <1>9, <1>10, <1>11, <1>12, Follow

LEMMA DemandsRendered ==
  ASSUME TypeInv, TypeInv', LifeInv, DemandsInv, map' = map,
         EndEarly \/ PickSlot \/ Select \/ Draw \/ Publish \/ WaitForUpdate
  PROVE  DemandsInv'
<1>1. StateInv /\ Nothing \in Int
  BY DEF LifeInv, Nothing
<1> DEFINE StaysInHand ==
      /\ driver.at \in Rendering /\ driver'.at \in Rendering
      /\ driver'.demand = driver.demand
      /\ DemandsOf(s') = DemandsOf(s) /\ s'.disposed = s.disposed
      /\ s'.state = s.state /\ s'.work = s.work
<1>2. StaysInHand /\ ShowsInv' => DemandsInv'
  BY DemandsDrawn
<1>3. driver'.at = "wait" => ShowsInv'
  BY ShowsNothing
<1>4. driver.at \in Rendering /\ Ends /\ EndsWith(s', s, Nothing)
        /\ (s'.work = s.work \/ Grown(s'.work, s.work)) => DemandsInv'
  BY <1>1, DemandsAnswered
<1>5. CASE EndEarly
  <2>1. /\ driver.at \in Rendering
        /\ \/ EndsWith(s', s, Nothing) /\ s'.work = s.work /\ Ends
           \/ StaysInHand /\ driver'.at = "wait"
    BY <1>5, EndEarlyIs DEF Rendering
  <2> HIDE DEF StaysInHand
  <2> QED
    BY <1>2, <1>3, <1>4, <2>1
<1>6. CASE PickSlot
  <2>1. /\ driver.at \in Rendering /\ ~Late
        /\ \/ EndsWith(s', s, Nothing) /\ Grown(s'.work, s.work) /\ Ends
           \/ /\ s.barriers = 0 /\ Ends /\ s'.disposed = s.disposed
              /\ s'.state = s.state /\ s'.work = s.work
              /\ DemandsOf(s') = <<<<driver.demand>> \o s.demands, s.waiting, s.log,
                                   s.barriers, s.passed>>
           \/ StaysInHand /\ driver'.at = "render"
    BY <1>6, PickSlotIs DEF Rendering, LifeOf
  <2>2. StaysInHand /\ driver'.at = "render" => ShowsInv'
    <3>1. s.log[driver.demand].needs \in Nat /\ map.applied \in Nat
      BY <2>1, DemandInHand, DemandsAre DEF TypeInv, Maps
    <3>2. map.applied >= s.log[driver.demand].needs
      BY <2>1, <3>1 DEF Late
    <3> QED
      BY <3>2, LogSame DEF ShowsInv
  <2> HIDE DEF StaysInHand
  <2> QED
    BY <1>2, <1>4, <2>1, <2>2, DemandsPutBack
<1>7. CASE Select
  <2>1. /\ driver.at = "render" /\ s' = s /\ driver'.at = "draw"
        /\ driver'.demand = driver.demand /\ driver'.shows = map.shows
    BY <1>7, SelectIs
  <2>2. map.applied >= s.log[driver.demand].needs /\ map.shows >= map.applied
    BY <2>1 DEF DemandsInv, FrameInv, ShowsInv, MapInv
  <2>3. map.applied \in Nat /\ map.shows \in Nat /\ s.log[driver.demand].needs \in Nat
    BY <2>1, DemandInHand, DemandsAre DEF TypeInv, Maps, Rendering
  <2>4. ShowsInv'
    BY <2>1, <2>2, <2>3 DEF ShowsInv
  <2> QED
    BY <1>2, <2>1, <2>4 DEF Rendering
<1>8. CASE Draw
  <2>1. /\ driver.at \in Rendering
        /\ \/ /\ StaysInHand /\ driver'.at = "publish" /\ driver.at = "draw"
              /\ driver'.shows = driver.shows
           \/ StaysInHand /\ driver'.at = "wait"
           \/ EndsWith(s', s, Nothing) /\ s'.work = s.work /\ Ends
           \/ \E u : Fails(u, s) /\ EndsWith(s', u, Nothing) /\ s'.work = u.work /\ Ends
    BY <1>1, <1>8, DrawIs DEF Rendering, PartsOf, LifeOf
  <2>2. StaysInHand /\ driver'.at = "publish" /\ driver.at = "draw" /\ driver'.shows = driver.shows
          => ShowsInv'
    BY LogSame DEF DemandsInv, FrameInv, ShowsInv
  <2>3. Live(s)
    BY <1>1, <2>1 DEF StateInv
  <2> HIDE DEF StaysInHand
  <2>4. ASSUME NEW u, Fails(u, s), EndsWith(s', u, Nothing), s'.work = u.work, Ends
        PROVE  DemandsInv'
    BY <2>1, <2>3, <2>4, DemandsFailed
  <2> QED
    BY <1>2, <1>3, <1>4, <2>1, <2>2, <2>4
<1>9. CASE Publish
  <2>1. /\ driver.at = "publish" /\ Ends /\ EndsWith(s', s, driver.shows) /\ s'.work = s.work
    BY <1>9, PublishIs
  <2>2. driver.shows \in Int
    BY DEF TypeInv, Drivers
  <2>3. driver.shows >= s.log[driver.demand].needs
    BY <2>1 DEF DemandsInv, FrameInv, ShowsInv
  <2> QED
    BY <2>1, <2>2, <2>3, DemandsAnswered DEF Rendering
<1>10. CASE WaitForUpdate
  <2>1. /\ driver.at \in Rendering /\ Ends /\ s'.disposed = s.disposed /\ s'.state = s.state
        /\ \/ EndsWith(s', s, Nothing) /\ s'.work = s.work
           \/ /\ map.update = driver.update /\ s'.work = s.work
              /\ s'.demands = s.demands /\ s'.waiting = Append(s.waiting, driver.demand)
              /\ Looks(s', s) /\ s.barriers = 0
           \/ /\ Grown(s'.work, s.work) /\ s.barriers = 0
              /\ DemandsOf(s') = <<<<driver.demand>> \o s.demands, s.waiting, s.log,
                                   s.barriers, s.passed>>
    BY <1>10, WaitForUpdateIs DEF Rendering, LifeOf
  <2> HIDE DEF StaysInHand
  <2> QED
    BY <1>4, <2>1, DemandsParked, DemandsPutBack
<1> QED
  BY <1>5, <1>6, <1>7, <1>8, <1>9, <1>10

LEMMA DemandsByDriver ==
  ASSUME TypeInv, TypeInv', LifeInv, DemandsInv, DriverStep
  PROVE  DemandsInv'
<1>1. map' = map
  BY DEF DriverStep
<1> QED
  BY <1>1, DemandsInCalls, DemandsTaken, DemandsBarred, DemandsEndWithSession,
     DemandsChanged, DemandsTakenUp, DemandsRendered DEF DriverStep

(* A host's demand ends those of its kind.                                 *)
LEMMA DemandsMade ==
  ASSUME TypeInv, TypeInv', DemandsInv, map' = map, driver' = driver,
         NEW policy \in Policies, Demand(policy)
  PROVE  DemandsInv'
<1> DEFINE n == Len(s.log) + 1
           e == [policy |-> policy, needs |-> map.sent, results |-> <<>>, looked |-> 0]
<1>1. /\ s'.state = s.state /\ s'.disposed = s.disposed /\ Grown(s'.work, s.work)
      /\ s'.barriers = s.barriers /\ s'.passed = s.passed
      /\ \E old, f :
           /\ old \subseteq ToSet(s.waiting) \union ToSet(s.demands)
           /\ s'.waiting = Without(s.waiting, old)
           /\ s'.demands = Append(Without(s.demands, old), n)
           /\ SessionType(f) /\ Finishes(f, s, old) /\ s'.log = Append(f.log, e)
  BY DemandIs DEF LifeOf
<1>2. PICK old, f :
        /\ old \subseteq ToSet(s.waiting) \union ToSet(s.demands)
        /\ s'.waiting = Without(s.waiting, old)
        /\ s'.demands = Append(Without(s.demands, old), n)
        /\ SessionType(f) /\ Finishes(f, s, old) /\ s'.log = Append(f.log, e)
  BY <1>1
<1>3. e.results = <<>> /\ e \in Entries
  BY DEF Entries, TypeInv, Maps
<1> HIDE DEF e
<1>4. /\ s.demands \in Seq(Nat) /\ s.waiting \in Seq(Nat) /\ Len(s.log) \in Nat
      /\ IsInjective(s.demands) /\ IsInjective(s.waiting)
      /\ ToSet(s.demands) \intersect ToSet(s.waiting) = {} /\ driver.demand \notin Queued
      /\ Queued \subseteq Demands /\ driver.demand \in {0} \union Demands /\ 0 \notin Queued
  BY DemandsAre DEF DemandsInv, DemandInv, Apart, Open, Demands
<1>5. /\ Len(f.log) = Len(s.log)
      /\ \A d \in Demands :
           /\ f.log[d].needs = s.log[d].needs /\ f.log[d].looked = s.log[d].looked
           /\ f.log[d].results = IF d \in old THEN Append(s.log[d].results, Nothing)
                                 ELSE s.log[d].results
  BY <1>2, LogFinished
<1>6. /\ Len(s'.log) = n /\ s'.log[n] = e /\ \A d \in Demands : s'.log[d] = f.log[d]
  <2> DEFINE q == f.log
  <2>1. q \in Seq(Entries) /\ Len(q) = Len(s.log) /\ s'.log = Append(q, e)
    BY <1>2, <1>5 DEF SessionType
  <2>2. \A d \in Demands : d \in 1 .. Len(q)
    BY <2>1 DEF Demands
  <2> HIDE DEF q
  <2>3. /\ Len(s'.log) = Len(q) + 1 /\ s'.log[Len(q) + 1] = e
        /\ \A d \in 1 .. Len(q) : s'.log[d] = q[d]
    BY <1>3, <2>1
  <2> QED
    BY <2>1, <2>2, <2>3 DEF q
<1>7. n \in Nat /\ n \notin Demands /\ Demands' = Demands \union {n} /\ n # 0
  BY <1>4, <1>6 DEF Demands
<1> HIDE DEF n
<1>8. /\ IsInjective(s'.waiting)
      /\ \A d : d \in ToSet(s'.waiting) <=> d \in ToSet(s.waiting) /\ d \notin old
  BY <1>2, <1>4, WithoutIs
<1>9. /\ IsInjective(s'.demands)
      /\ \A d : d \in ToSet(s'.demands) <=> d = n \/ (d \in ToSet(s.demands) /\ d \notin old)
  <2> DEFINE q == Without(s.demands, old)
  <2>1. /\ q \in Seq(Nat) /\ IsInjective(q)
        /\ \A d : d \in ToSet(q) <=> d \in ToSet(s.demands) /\ d \notin old
    BY <1>4, WithoutIs
  <2>2. s'.demands = Append(q, n)
    BY <1>2
  <2> HIDE DEF q
  <2>3. n \notin ToSet(q)
    BY <1>4, <1>7, <2>1 DEF Queued
  <2> QED
    BY <1>7, <2>1, <2>2, <2>3, AppendedIs
<1>10. /\ Open' = (Open \ old) \union {n} /\ Apart' /\ old \subseteq Queued
       /\ Open \subseteq Demands
  BY <1>2, <1>4, <1>7, <1>8, <1>9 DEF Open, Apart, Queued
<1>11. Dropped' <=> Dropped
  BY <1>1 DEF Dropped, Over
<1>12. DemandInv'
  <2>1. ASSUME NEW d \in Demands, d \in old
        PROVE  Len(s'.log[d].results) = 1
    <3>1. s.log[d].results = <<>>
      BY <1>10, <2>1 DEF Open, DemandsInv, DemandInv
    <3>2. s'.log[d].results = Append(<<>>, Nothing)
      BY <1>5, <1>6, <2>1, <3>1
    <3> QED
      BY <3>2
  <2>2. ASSUME NEW d \in Demands, d \notin old
        PROVE  s'.log[d].results = s.log[d].results /\ (d \in Open' <=> d \in Open)
    BY <1>5, <1>6, <1>7, <1>10, <2>2
  <2>3. ASSUME NEW d \in Demands', d \in Open' PROVE s'.log[d].results = <<>>
    BY <1>3, <1>6, <1>7, <1>10, <2>2, <2>3 DEF DemandsInv, DemandInv
  <2>4. ASSUME NEW d \in Demands', d \notin Open'
        PROVE  Len(s'.log[d].results) = 1 \/ (s'.log[d].results = <<>> /\ Dropped')
    <3>1. d \in Demands
      BY <1>7, <1>10, <2>4
    <3> QED
      BY <1>11, <2>1, <2>2, <2>4, <3>1 DEF DemandsInv, DemandInv
  <2>5. driver'.demand # 0 <=> driver'.at \in Rendering
    BY DEF DemandsInv, DemandInv
  <2>6. Open' \subseteq Demands'
    BY <1>7, <1>10
  <2> QED
    BY <1>10, <2>3, <2>4, <2>5, <2>6 DEF DemandInv
<1>13. \A d \in Demands : s.log[d].results # <<>> => s'.log[d].results # <<>>
  <2>1. \A d \in Demands : s.log[d].results # <<>> => d \notin old
    BY <1>10 DEF Open, DemandsInv, DemandInv
  <2> QED
    BY <1>5, <1>6, <2>1
<1>14. BarrierInv'
  <2>1. /\ Beyond(s'.work, s.work, Barriers) /\ s.work \in Seq(Works)
    BY <1>1 DEF TypeInv, SessionType, Beyond, Grown, Harmless, Barriers
  <2>2. Count(s'.work, Barriers) = Count(s.work, Barriers)
    BY <2>1, CountBeyond
  <2>3. \A i \in DOMAIN s'.work : s'.work[i].kind \in Barriers =>
          i \in DOMAIN s.work /\ s'.work[i] = s.work[i]
    BY <2>1 DEF Beyond
  <2>4. ASSUME NEW m \in Nat, Settled(m), m <= Len(s.log)
        PROVE  SettledNext(m) /\ m <= Len(s'.log)
    <3>1. m <= Len(s'.log)
      BY <1>4, <1>6, <2>4 DEF n
    <3>2. ASSUME NEW d \in Demands', d <= m
          PROVE  s'.log[d].results # <<>> \/ d = driver'.demand \/ Dropped'
      <4>1. d \in Demands
        BY <1>4, <1>7, <2>4, <3>2 DEF n, Demands
      <4> QED
        BY <1>11, <1>13, <2>4, <3>2, <4>1 DEF Settled
    <3> QED
      BY <3>1, <3>2 DEF SettledNext
  <2>5. \A i \in DOMAIN s'.work : s'.work[i].kind \in Barriers =>
          SettledNext(s'.work[i].of) /\ s'.work[i].of <= Len(s'.log)
    <3>1. \A i \in DOMAIN s.work : s.work[i] \in Works
      BY <2>1
    <3>2. \A i \in DOMAIN s.work : s.work[i].of \in Nat
      BY <3>1 DEF Works
    <3> QED
      BY <2>3, <2>4, <3>2 DEF DemandsInv, BarrierInv
  <2>6. Running("barrier")' => SettledNext(driver'.item.of) /\ driver'.item.of <= Len(s'.log)
    <3>1. driver.item.of \in Nat
      BY DEF TypeInv, Drivers, Works, NoItem
    <3> QED
      BY <2>4, <3>1 DEF DemandsInv, BarrierInv, Running
  <2>7. s'.barriers >= Count(s'.work, Barriers) + (IF Running("barrier")' THEN 1 ELSE 0)
    <3>1. s.barriers >= Count(s.work, Barriers) + (IF Running("barrier") THEN 1 ELSE 0)
      BY DEF DemandsInv, BarrierInv
    <3>2. (IF Running("barrier")' THEN 1 ELSE 0) = IF Running("barrier") THEN 1 ELSE 0
      BY DEF Running
    <3> QED
      BY <1>1, <2>2, <3>1, <3>2
  <2>8. s'.passed \in Nat /\ s'.passed <= Len(s.log) /\ s'.passed <= Len(s'.log)
    <3>1. s'.passed = s.passed /\ s.passed \in Nat /\ s.passed <= Len(s.log)
      BY <1>1 DEF DemandsInv, BarrierInv, TypeInv, SessionType
    <3>2. Len(s.log) \in Nat /\ Len(s'.log) = Len(s.log) + 1
      BY <1>4, <1>6 DEF n
    <3> QED
      BY <3>1, <3>2
  <2>9. ASSUME NEW d \in Demands', d <= s'.passed
        PROVE  s'.log[d].results # <<>> \/ Dropped'
    <3>1. d \in Demands
      BY <1>4, <1>7, <2>8, <2>9 DEF n, Demands
    <3> QED
      BY <1>1, <1>11, <1>13, <2>9, <3>1 DEF DemandsInv, BarrierInv
  <2> QED
    BY <2>5, <2>6, <2>7, <2>8, <2>9, BarrierFrom
<1>15. MapInv' /\ ShowsInv'
  <2>1. driver.at \in Rendering =>
          driver.demand \in Demands /\ s'.log[driver.demand].needs = s.log[driver.demand].needs
    BY <1>5, <1>6, DemandInHand
  <2> QED
    BY <2>1, MapKept DEF DemandsInv, FrameInv, ShowsInv, Rendering
<1>16. LookInv'
  BY <1>4, <1>5, <1>6, <1>8 DEF DemandsInv, FrameInv, LookInv, Queued
<1>17. ResultInv'
  <2>1. ASSUME NEW d \in Demands
        PROVE  /\ s'.log[d].needs = s.log[d].needs
               /\ \A i \in DOMAIN s'.log[d].results : \/ s'.log[d].results[i] = Nothing
                                                      \/ s'.log[d].results[i] >= s.log[d].needs
    <3>1. d \in old => s.log[d].results = <<>>
      BY <1>10 DEF Open, DemandsInv, DemandInv
    <3>2. Append(<<>>, Nothing) = <<Nothing>>
      OBVIOUS
    <3>3. d \in old => s'.log[d].results = <<Nothing>>
      BY <1>5, <1>6, <3>1, <3>2
    <3>4. d \notin old => s'.log[d].results = s.log[d].results
      BY <1>5, <1>6
    <3>5. s'.log[d].needs = s.log[d].needs
      BY <1>5, <1>6
    <3> QED
      BY <3>3, <3>4, <3>5 DEF DemandsInv, FrameInv, ResultInv
  <2> QED
    BY <1>3, <1>6, <1>7, <2>1 DEF ResultInv
<1> QED
  BY <1>12, <1>14, <1>15, <1>16, <1>17 DEF DemandsInv, FrameInv

(* A barrier ends the demands before it, but for the driver's.             *)
LEMMA DemandsBarrier ==
  ASSUME TypeInv, TypeInv', DemandsInv, map' = map, driver' = driver, Barrier
  PROVE  DemandsInv'
<1> DEFINE x == Item("barrier", Len(s.log))
<1>1. /\ s'.state = s.state /\ s'.disposed = s.disposed
      /\ s'.work = Append(s.work, x) /\ x \in Works
      /\ s'.demands = <<>> /\ s'.waiting = <<>>
      /\ s'.barriers = s.barriers + 1 /\ s'.passed = s.passed
      /\ \E f : Finishes(f, s, ToSet(s.demands \o s.waiting)) /\ s'.log = f.log
  BY BarrierIs DEF LifeOf
<1>2. x.kind \in Barriers /\ x.of = Len(s.log)
  BY DEF Item, Barriers
<1> HIDE DEF x
<1>3. /\ Len(s'.log) = Len(s.log)
      /\ \A d \in Demands :
           /\ s'.log[d].needs = s.log[d].needs /\ s'.log[d].looked = s.log[d].looked
           /\ s'.log[d].results = IF d \in Queued THEN Append(s.log[d].results, Nothing)
                                  ELSE s.log[d].results
  <2>1. PICK f : Finishes(f, s, Queued) /\ s'.log = f.log
    BY <1>1, QueuedIs
  <2> QED
    BY <2>1, LogFinished
<1>4. Queued' = {} /\ Apart' /\ LookInv' /\ Open' = {driver.demand} \ {0}
  BY <1>1, NoneQueued
<1>5. driver.demand \notin Queued /\ Demands' = Demands
  BY <1>3 DEF DemandsInv, DemandInv, Apart, Demands
<1>6. Open' \subseteq Open /\ Open \ Open' = Queued
  BY <1>4, <1>5 DEF Open
<1>7. ASSUME NEW d \in Demands
      PROVE  /\ s'.log[d].needs = s.log[d].needs
             /\ \/ /\ s'.log[d].results = s.log[d].results
                   /\ d \in Open => d \in Open' \/ Dropped'
                \/ d \in Open \ Open' /\ Ended(d)
  <2>1. Nothing \in Int
    BY DEF Nothing
  <2> QED
    BY <1>3, <1>6, <2>1 DEF Ended
<1>8. Moved
  BY <1>3, <1>6, <1>7 DEF Moved
<1>9. Dropped' <=> Dropped
  BY <1>1 DEF Dropped, Over
<1>10. DemandInv'
  BY <1>4, <1>8, <1>9, DemandsFollow DEF DemandsInv, DemandInv
<1>11. FrameInv'
  <2>1. driver.at \in Rendering =>
          driver.demand \in Demands /\ s'.log[driver.demand].needs = s.log[driver.demand].needs
    BY <1>3, DemandInHand
  <2>2. ShowsInv'
    BY <2>1 DEF DemandsInv, FrameInv, ShowsInv, Rendering
  <2>3. MapInv'
    BY MapKept DEF DemandsInv
  <2>4. ResultInv'
    BY <1>8, ResultsFollow DEF DemandsInv, FrameInv
  <2> QED
    BY <1>4, <2>2, <2>3, <2>4 DEF FrameInv
<1>12. s.work \in Seq(Works) /\ s.barriers \in Int /\ Count(s.work, Barriers) \in Nat
       /\ Len(s.log) \in Nat
  <2>1. s.work \in Seq(Works) /\ s.barriers \in Int /\ s.log \in Seq(Entries)
    BY DEF TypeInv, SessionType
  <2>2. Count(s.work, Barriers) \in Nat
    BY <2>1, CountIs
  <2> QED
    BY <2>1, <2>2
<1>13. Count(s'.work, Barriers) = Count(s.work, Barriers) + 1
  BY <1>1, <1>2, <1>12, CountAppended
<1>14. s'.barriers >= Count(s'.work, Barriers) + (IF Running("barrier")' THEN 1 ELSE 0)
  <2>1. s.barriers >= Count(s.work, Barriers) + (IF Running("barrier") THEN 1 ELSE 0)
    BY DEF DemandsInv, BarrierInv
  <2>2. (IF Running("barrier")' THEN 1 ELSE 0) = IF Running("barrier") THEN 1 ELSE 0
    BY DEF Running
  <2> QED
    BY <1>1, <1>12, <1>13, <2>1, <2>2
<1>15. \A n : Settled(n) => SettledNext(n)
  BY <1>4, <1>8, <1>9, SettledFollows DEF DemandsInv
<1>16. SettledNext(x.of) /\ x.of <= Len(s'.log)
  <2>1. \A d \in Demands' : d \in Open' => d = driver'.demand
    BY <1>4
  <2>2. \A d \in Demands' : d \notin Open' => s'.log[d].results # <<>> \/ Dropped'
    BY <1>10 DEF DemandInv
  <2> QED
    BY <1>2, <1>3, <1>12, <2>1, <2>2 DEF SettledNext
<1>17. \A i \in DOMAIN s'.work :
         \/ i \in DOMAIN s.work /\ s'.work[i] = s.work[i]
         \/ s'.work[i] = x
  BY <1>1, <1>12
<1>18. \A i \in DOMAIN s'.work : s'.work[i].kind \in Barriers =>
         SettledNext(s'.work[i].of) /\ s'.work[i].of <= Len(s'.log)
  BY <1>3, <1>15, <1>16, <1>17 DEF DemandsInv, BarrierInv
<1>19. Running("barrier")' => SettledNext(driver'.item.of) /\ driver'.item.of <= Len(s'.log)
  BY <1>3, <1>15 DEF DemandsInv, BarrierInv, Running
<1>20. \A d \in Demands' : d <= s'.passed => s'.log[d].results # <<>> \/ Dropped'
  <2>1. \A d \in Demands : s.log[d].results # <<>> => d \notin Open
    BY DEF DemandsInv, DemandInv
  <2>2. \A d \in Demands : s.log[d].results # <<>> => s'.log[d].results # <<>>
    BY <2>1, <1>8 DEF Moved
  <2> QED
    BY <1>1, <1>5, <1>9, <2>2 DEF DemandsInv, BarrierInv
<1>21. s'.passed <= Len(s'.log)
  BY <1>1, <1>3 DEF DemandsInv, BarrierInv
<1>22. BarrierInv'
  BY <1>14, <1>18, <1>19, <1>20, <1>21, BarrierFrom
<1> QED
  BY <1>10, <1>11, <1>22 DEF DemandsInv

LEMMA DemandsByHost ==
  ASSUME TypeInv, TypeInv', DemandsInv, HostStep
  PROVE  DemandsInv'
<1>1. map' = map /\ driver' = driver
  BY DEF HostStep
<1> DEFINE Aside ==
      /\ DemandsOf(s') = DemandsOf(s) /\ s'.disposed = s.disposed
      /\ s'.state = s.state \/ s.state = "attached"
      /\ \/ s'.work = s.work \/ Grown(s'.work, s.work)
         \/ \E x \in Works : x.kind \notin Barriers /\ s'.work = Append(s.work, x)
<1>2. Aside => DemandsInv'
  <2> SUFFICES ASSUME Aside PROVE DemandsInv'
    OBVIOUS
  <2>1. Barred /\ (s.disposed => s'.disposed) /\ (Over(s) => Over(s)')
    BY BarredBy DEF Over
  <2> QED
    BY <1>1, <2>1, DemandsAside
<1>3. ASSUME NEW policy \in Policies, Demand(policy) PROVE DemandsInv'
  BY <1>1, <1>3, DemandsMade
<1>4. CASE Barrier
  BY <1>1, <1>4, DemandsBarrier
<1>5. CASE Detach
  <2>1. Item("detach", 0).kind \notin Barriers
    BY DEF Item, Barriers
  <2> QED
    BY <1>2, <1>5, <2>1, DetachIs DEF LifeOf
<1>6. CASE Untarget \/ Retarget
  <2>1. Changes \intersect Barriers = {}
    BY DEF Changes, Barriers
  <2> QED
    BY <1>2, <1>6, <2>1, AsksChangeIs DEF LifeOf
<1>7. CASE Acquire
  BY <1>2, <1>7, AcquireIs DEF LifeOf
<1>8. CASE PostTiles
  BY <1>2, <1>8, PostTilesIs DEF LifeOf
<1>9. ASSUME NEW i \in Slots, ReleaseFrame(i) \/ ReleaseAfterGpu(i) \/ BeginView(i)
      PROVE  DemandsInv'
  <2>1. Item("release", i).kind \notin Barriers
    BY DEF Item, Barriers
  <2>2. CASE ReleaseFrame(i)
    BY <1>2, <2>2, ReleaseFrameIs DEF LifeOf
  <2>3. CASE ReleaseAfterGpu(i)
    BY <1>2, <2>1, <2>3, ReleaseAfterGpuIs DEF LifeOf
  <2>4. CASE BeginView(i)
    BY <1>2, <2>4, BeginViewIs DEF LifeOf
  <2> QED
    BY <1>9, <2>2, <2>3, <2>4
<1>10. ASSUME NEW i \in Slots, Discard(i) PROVE DemandsInv'
  <2>1. /\ s'.state = s.state /\ s'.disposed = s.disposed
        /\ s'.work = s.work \/ Grown(s'.work, s.work)
        /\ \/ DemandsOf(s') = DemandsOf(s)
           \/ /\ s'.demands = s.demands /\ s'.waiting = <<>>
              /\ Finishes(s', s, ToSet(s.waiting))
    BY <1>10, DiscardIs DEF LifeOf
  <2>2. CASE DemandsOf(s') = DemandsOf(s)
    BY <1>2, <2>1, <2>2
  <2>3. CASE /\ s'.demands = s.demands /\ s'.waiting = <<>>
             /\ Finishes(s', s, ToSet(s.waiting))
    <3>1. ToSet(s'.waiting) = {} /\ IsInjective(s'.waiting)
      BY <2>3 DEF ToSet, IsInjective
    <3>2. /\ ToSet(s.waiting) \subseteq Queued /\ Queued' = Queued \ ToSet(s.waiting)
          /\ Apart'
      BY <1>1, <2>3, <3>1 DEF Queued, Apart, DemandsInv, DemandInv
    <3>3. Barred /\ (Dropped => Dropped')
      BY <2>1, BarredBy, DroppedKept DEF Over
    <3> QED
      BY <1>1, <2>3, <3>1, <3>2, <3>3, DemandsEnd
  <2> QED
    BY <2>1, <2>2, <2>3
<1> QED
  BY <1>3, <1>4, <1>5, <1>6, <1>7, <1>8, <1>9, <1>10 DEF HostStep

LEMMA DemandsByOthers ==
  ASSUME TypeInv, TypeInv', DemandsInv,
         GpuStep \/ ViewStep \/ EndingStep \/ EndingGoesOn \/ LaneStep
  PROVE  DemandsInv'
<1>1. map' = map /\ driver' = driver
  BY GpuDoneIs DEF GpuStep, ViewStep, EndingStep, EndingGoesOn, LaneStep
<1> DEFINE Aside == /\ DemandsOf(s') = DemandsOf(s) /\ (s.disposed => s'.disposed)
                    /\ s'.state = s.state /\ s'.work = s.work
<1>2. Aside => DemandsInv'
  <2> SUFFICES ASSUME Aside PROVE DemandsInv'
    OBVIOUS
  <2>1. Barred /\ (Over(s) => Over(s)')
    BY BarredBy DEF Over
  <2> QED
    BY <1>1, <2>1, DemandsAside
<1>3. GpuDone => Aside
  BY GpuDoneIs DEF PartsOf, LifeOf
<1>4. ASSUME NEW i \in Slots, EndView(i) PROVE Aside
  BY <1>4, EndViewIs DEF LifeOf
<1>5. Abandon \/ AbandonAfterCall => Aside \/ Abandons(s', s)
  BY AbandonIs, AbandonAfterCallIs DEF PartsOf, LifeOf
<1>6. RetireGraphics => Aside
  BY RetireGraphicsIs DEF LifeOf
<1>7. ASSUME NEW mode, Dispose(mode) PROVE Aside
  BY <1>7, DisposeIs DEF LifeOf
<1>8. HookClose => Aside
  BY HookCloseIs DEF LifeOf
<1>9. LaneTakes \/ LaneReaps => Aside
  BY DEF LaneTakes, LaneReaps
<1>10. LaneAbandons => Aside \/ Abandons(s', s)
  BY LaneAbandonsIs
<1>11. LaneRetires => Aside
  BY LaneRetiresIs DEF LifeOf
<1>12. LaneDestroys => Aside
  BY LaneDestroysIs DEF PartsOf, LifeOf
<1> HIDE DEF Aside
<1>13. Abandons(s', s) => DemandsInv'
  BY <1>1, DemandsAbandoned
<1>14. CASE GpuStep \/ ViewStep
  BY <1>2, <1>3, <1>4, <1>14 DEF GpuStep, ViewStep
<1>15. CASE EndingStep \/ EndingGoesOn
  BY <1>2, <1>5, <1>6, <1>7, <1>8, <1>13, <1>15 DEF EndingStep, EndingGoesOn
<1>16. CASE LaneStep
  BY <1>2, <1>9, <1>10, <1>11, <1>12, <1>13, <1>16 DEF LaneStep
<1> QED
  BY <1>14, <1>15, <1>16

(* A command is applied after the update that shows it is stored, and an   *)
(* update that no demand has seen is announced.                            *)
LEMMA MapGoesOn ==
  ASSUME TypeInv, TypeInv', MapInv, s'.waiting = s.waiting, s'.log = s.log,
         CreateMap \/ SendCommand \/ RunCommand \/ CountCommand \/ SkipNotice \/ SendNotice
           \/ NoticeCommands \/ StoreUpdate
  PROVE  /\ MapInv' /\ map'.applied >= map.applied
         /\ map'.announce \/ (map'.update = map.update /\ map'.announce = map.announce)
<1>1. map.applied \in Nat /\ map.shows \in Nat /\ map \in Maps
  BY DEF TypeInv, Maps
<1>2. CASE CreateMap
  BY <1>1, <1>2 DEF CreateMap, MapInv
<1>3. CASE SendCommand
  BY <1>1, <1>3 DEF SendCommand, MapInv, Maps
<1>4. CASE RunCommand
  BY <1>1, <1>4 DEF RunCommand, MapInv, Maps
<1>5. CASE CountCommand
  BY <1>1, <1>5 DEF CountCommand, MapInv, Maps
<1>6. CASE SkipNotice \/ SendNotice \/ NoticeCommands
  BY <1>1, <1>6 DEF SkipNotice, SendNotice, NoticeCommands, Worker, MapInv, Maps
<1>7. CASE StoreUpdate
  BY <1>1, <1>7 DEF StoreUpdate, MapInv, Maps
<1> QED
  BY <1>2, <1>3, <1>4, <1>5, <1>6, <1>7

LEMMA DemandsByMap ==
  ASSUME TypeInv, TypeInv', DemandsInv, MapWork \/ MapStep
  PROVE  DemandsInv'
<1>1. driver' = driver /\ Stays
  BY DEF MapWork, MapStep, Stays
<1>2. ASSUME s'.log = s.log, map'.applied >= map.applied PROVE ShowsInv'
  <2>1. driver.at \in Rendering =>
          driver.demand \in Demands /\ s.log[driver.demand].needs \in Nat
    BY DemandInHand, DemandsAre
  <2>2. map.applied \in Nat /\ map'.applied \in Nat
    BY DEF TypeInv, Maps
  <2> QED
    BY <1>1, <1>2, <2>1, <2>2 DEF DemandsInv, FrameInv, ShowsInv, Rendering
<1>3. ASSUME CreateMap \/ SendCommand \/ RunCommand \/ CountCommand \/ SkipNotice \/ SendNotice
               \/ NoticeCommands \/ StoreUpdate
      PROVE  DemandsInv'
  <2>1. /\ DemandsOf(s') = DemandsOf(s) /\ s'.work = s.work /\ s'.state = s.state
        /\ s'.disposed = s.disposed
    BY <1>3, MapWorkIs DEF PartsOf, LifeOf
  <2>2. s'.waiting = s.waiting /\ s'.log = s.log
    BY <2>1, LogSame
  <2>3. /\ MapInv' /\ map'.applied >= map.applied
        /\ map'.announce \/ (map'.update = map.update /\ map'.announce = map.announce)
    BY <1>3, <2>2, MapGoesOn DEF DemandsInv, FrameInv
  <2>4. LookInv'
    BY <2>2, <2>3 DEF DemandsInv, FrameInv, LookInv
  <2>5. Barred /\ (Dropped => Dropped')
    BY <2>1, BarredBy DEF Dropped, Over
  <2> QED
    BY <1>1, <1>2, <2>1, <2>2, <2>3, <2>4, <2>5, DemandsStay
<1>4. CASE Announce
  <2>1. /\ DemandsOf(s') = <<s.waiting \o s.demands, <<>>, s.log, s.barriers, s.passed>>
        /\ Grown(s'.work, s.work) /\ s'.state = s.state /\ s'.disposed = s.disposed
        /\ map' = [map EXCEPT !.announce = FALSE]
    BY <1>4, AnnounceIs DEF LifeOf
  <2>2. /\ map'.applied = map.applied /\ map'.shows = map.shows /\ map'.at = map.at
        /\ map.applied \in Nat
    BY <2>1 DEF TypeInv, Maps
  <2>3. MapInv' /\ map'.applied >= map.applied
    BY <2>2 DEF DemandsInv, FrameInv, MapInv
  <2>4. s'.log = s.log
    BY <2>1 DEF DemandsOf
  <2>5. Barred /\ (Dropped => Dropped')
    BY <2>1, BarredBy DEF Dropped, Over
  <2> QED
    BY <1>1, <1>2, <2>1, <2>3, <2>4, <2>5, DemandsAgain
<1>5. CASE CloseMap
  <2>1. /\ DemandsOf(s') = DemandsOf(s) /\ s'.work = s.work /\ s'.state = s.state
        /\ s'.disposed = s.disposed /\ map' = [map EXCEPT !.closed = TRUE]
    BY <1>5, CloseMapIs DEF LifeOf
  <2>2. /\ map'.applied = map.applied /\ map'.shows = map.shows /\ map'.at = map.at
        /\ map'.update = map.update /\ map'.announce = map.announce /\ map.applied \in Nat
    BY <2>1 DEF TypeInv, Maps
  <2>3. MapInv' /\ map'.applied >= map.applied
    BY <2>2 DEF DemandsInv, FrameInv, MapInv
  <2>4. s'.waiting = s.waiting /\ s'.log = s.log
    BY <2>1, LogSame
  <2>5. LookInv'
    BY <2>2, <2>4 DEF DemandsInv, FrameInv, LookInv
  <2>6. Barred /\ (Dropped => Dropped')
    BY <2>1, BarredBy DEF Dropped, Over
  <2> QED
    BY <1>1, <1>2, <2>1, <2>3, <2>4, <2>5, <2>6, DemandsStay
<1> QED
  BY <1>3, <1>4, <1>5 DEF MapWork, MapStep

LEMMA DemandsStep ==
  ASSUME TypeInv, TypeInv', LifeInv, DemandsInv, [Next]_vars
  PROVE  DemandsInv'
<1>1. CASE UNCHANGED vars
  <2>1. /\ DemandsOf(s') = DemandsOf(s) /\ map' = map /\ driver' = driver
        /\ s'.work = s.work /\ s'.disposed = s.disposed /\ s'.state = s.state
    BY <1>1 DEF vars
  <2>2. Barred /\ (s.disposed => s'.disposed) /\ (Over(s) => Over(s)')
    BY <2>1, BarredBy DEF Over
  <2> QED
    BY <2>1, <2>2, DemandsAside
<1> QED
  BY <1>1, DemandsByDriver, DemandsByHost, DemandsByOthers, DemandsByMap DEF Next

LEMMA DemandsInit ==
  ASSUME Init
  PROVE  DemandsInv
<1>1. /\ s.work = <<Item("attach", 0)>> /\ s.demands = <<>> /\ s.waiting = <<>>
      /\ s.log = <<>> /\ s.barriers = 0 /\ s.passed = 0
  BY DEF Init
<1>2. driver.at = "idle" /\ driver.demand = 0
  BY DEF Init, AtRest
<1>3. map.shows = 0 /\ map.applied = 0 /\ map.at = "idle"
  BY DEF Init
<1>4. /\ ToSet(s.demands) = {} /\ ToSet(s.waiting) = {} /\ Demands = {}
      /\ IsInjective(s.demands) /\ IsInjective(s.waiting) /\ Len(s.log) = 0
  BY <1>1 DEF ToSet, IsInjective, Demands
<1>5. DOMAIN s.work = {1} /\ s.work[1].kind = "attach" /\ s.work \in Seq(Works)
  BY <1>1 DEF Item, Works, WorkKinds
<1>6. Count(s.work, Barriers) = 0
  BY <1>5, CountIs DEF Barriers
<1>7. DemandInv
  BY <1>2, <1>4 DEF DemandInv, Apart, Open, Queued, Rendering
<1>8. BarrierInv
  BY <1>1, <1>2, <1>4, <1>5, <1>6 DEF BarrierInv, Barriers, Running
<1>9. FrameInv
  BY <1>2, <1>3, <1>4 DEF FrameInv, MapInv, ShowsInv, ResultInv, LookInv
<1> QED
  BY <1>7, <1>8, <1>9 DEF DemandsInv

LEMMA DemandsHold == Safety => [](TypeInv /\ LifeInv /\ DemandsInv)
<1>1. Init => DemandsInv
  BY DemandsInit
<1>2. (TypeInv /\ LifeInv) /\ (TypeInv /\ LifeInv)' /\ DemandsInv /\ [Next]_vars => DemandsInv'
  BY DemandsStep
<1> QED
  BY <1>1, <1>2, LifeHolds, PTL DEF Safety

(* Every accepted demand has one place: it is held in one queue, once, it  *)
(* runs, or it has its one result (finish_demand_locked), and a session    *)
(* that ends or fails keeps none, whatever requeued, parked, cancelled or  *)
(* dropped it.                                                             *)
THEOREM DemandsAreAnsweredOnce == Spec => []AnsweredOnce
<1>1. ASSUME TypeInv, DemandsInv, NEW d \in Demands,
             ~(s.disposed /\ Over(s) /\ s.log[d].results = <<>>)
      PROVE  Places(d)
  <2> DEFINE held == d \in ToSet(s.demands \o s.waiting)
             runs == d = driver.demand
             ended == s.log[d].results # <<>>
             places == {p \in {"held", "running", "ended"} :
                          \/ p = "held" /\ held
                          \/ p = "running" /\ runs
                          \/ p = "ended" /\ ended}
  <2>1. IsInjective(s.demands \o s.waiting)
    BY <1>1, JoinedApart, DemandsAre DEF DemandsInv, DemandInv, Apart
  <2>2. /\ held <=> d \in Queued
        /\ runs => d \notin Queued /\ d \in Open
        /\ d \in Open <=> held \/ runs
    BY <1>1, QueuedIs, DemandsAre DEF DemandsInv, DemandInv, Apart, Open
  <2>3. /\ d \in Open => s.log[d].results = <<>>
        /\ d \notin Open => Len(s.log[d].results) = 1
    BY <1>1 DEF DemandsInv, DemandInv, Dropped
  <2>4. Len(s.log[d].results) <= 1 /\ (ended <=> d \notin Open)
    <3>1. s.log[d].results \in Seq(Int)
      BY <1>1, DemandsAre
    <3>2. CASE d \in Open
      BY <2>3, <3>1, <3>2
    <3>3. CASE d \notin Open
      <4>1. Len(s.log[d].results) = 1
        BY <2>3, <3>3
      <4>2. Len(s.log[d].results) <= 1
        BY <4>1
      <4>3. s.log[d].results # <<>>
        <5> DEFINE q == s.log[d].results
        <5>1. q \in Seq(Int) /\ Len(q) = 1
          BY <3>1, <4>1
        <5> HIDE DEF q
        <5>2. q # <<>>
          BY <5>1
        <5> QED
          BY <5>2 DEF q
      <4> QED
        BY <3>3, <4>2, <4>3
    <3> QED
      BY <3>2, <3>3
  <2>5. places = {"held"} \/ places = {"running"} \/ places = {"ended"}
    <3> HIDE DEF held, runs, ended
    <3> QED
      BY <2>2, <2>4
  <2>6. Cardinality(places) = 1
    BY <2>5, FS_Singleton
  <2> QED
    BY <2>1, <2>4, <2>6 DEF Places
<1>2. TypeInv /\ LifeInv /\ DemandsInv => AnsweredOnce
  BY <1>1 DEF AnsweredOnce, LifeInv, EndInv
<1> QED
  BY <1>2, DemandsHold, PTL DEF Spec

(* A frame that the host gets for a demand shows every command that it     *)
(* sent before it (render_session.h:202-203).                              *)
THEOREM FramesShowTheirCommands == Spec => []FramesShowCommands
<1>1. ASSUME TypeInv, DemandsInv PROVE FramesShowCommands
  <2> SUFFICES ASSUME NEW d \in Demands, NEW r \in ToSet(s.log[d].results)
               PROVE  r = Nothing \/ r >= s.log[d].needs
    BY DEF FramesShowCommands
  <2>1. PICK i \in DOMAIN s.log[d].results : s.log[d].results[i] = r
    BY <1>1, DemandsAre, ToSetIs
  <2> QED
    BY <1>1, <2>1 DEF DemandsInv, FrameInv, ResultInv
<1> QED
  BY <1>1, DemandsHold, PTL DEF Spec

(* A barrier's completion (run_barrier_item) comes after the result of     *)
(* every demand accepted before it, the one that the driver had in hand    *)
(* included.                                                               *)
THEOREM BarriersComeLast == Spec => []BarrierComesLast
<1>1. ASSUME TypeInv, DemandsInv PROVE BarrierComesLast
  <2> SUFFICES ASSUME NEW d \in 1 .. s.passed
               PROVE  s.log[d].results # <<>> \/ (s.disposed /\ Over(s))
    BY DEF BarrierComesLast
  <2>1. s.passed \in Nat /\ Len(s.log) \in Nat /\ s.passed <= Len(s.log)
    BY <1>1 DEF TypeInv, SessionType, DemandsInv, BarrierInv
  <2>2. d \in Demands /\ d <= s.passed
    BY <2>1 DEF Demands
  <2> QED
    BY <1>1, <2>2 DEF DemandsInv, BarrierInv, Dropped
<1> QED
  BY <1>1, DemandsHold, PTL DEF Spec

(* A demand waits only for an update that the driver has not looked at, or *)
(* that is still to be announced (notify_render_session_map_update).       *)
THEOREM UpdatesAreNotMissed == Spec => []NoMissedUpdate
<1>1. DemandsInv => NoMissedUpdate
  BY DEF DemandsInv, FrameInv, LookInv, NoMissedUpdate
<1> QED
  BY <1>1, DemandsHold, PTL DEF Spec
=============================================================================
