------------------------- MODULE MotionPlayback_proofs -------------------------
(***************************************************************************)
(* Three promises of the sources of a reference motion.  The robot never   *)
(* goes back in the Redis stream it follows, for every length of           *)
(* TwistRedisCtrl's buffer and however often the connection breaks; a      *)
(* policy calls its motion done at the motion's end and nowhere else, for  *)
(* every motion, speed and SAFE window; and the motion loaded last is the  *)
(* one that is served, for every library, under the fairness stated and    *)
(* two hypotheses about it, StepsAreTaken and FadesReturn.                 *)
(***************************************************************************)
EXTENDS MotionPlayback, FiniteSetTheorems, SequenceTheorems, TLAPS

\* The buffer holds values of the key in the order they were set, none older than
\* the one the robot has and none newer than the key's.
StreamInv ==
  /\ key \in Nat /\ lastData \in Nat /\ lastData <= key
  /\ buffer \in Seq(Nat)
  /\ \A i \in 1 .. Len(buffer) : lastData <= buffer[i] /\ buffer[i] <= key
  /\ \A i, j \in 1 .. Len(buffer) : i <= j => buffer[i] <= buffer[j]

\* It holds at the start.
LEMMA InitStream == RedisInit => StreamInv
BY DEF RedisInit, StreamInv

\* The worker's next value is the newest, and a full buffer drops its oldest.
LEMMA PollStream == ASSUME StreamInv, Poll PROVE StreamInv'
<1> DEFINE kept == IF Len(buffer) = BufferSize THEN Tail(buffer) ELSE buffer
<1>1. buffer' = Append(kept, key) /\ key' = key /\ lastData' = lastData
  BY DEF Poll, Appended, StreamInv
<1>2. /\ kept \in Seq(Nat)
      /\ \A i \in 1 .. Len(kept) : lastData <= kept[i] /\ kept[i] <= key
      /\ \A i, j \in 1 .. Len(kept) : i <= j => kept[i] <= kept[j]
  <2>1. CASE Len(buffer) = BufferSize
    <3>1. buffer # <<>> /\ Len(buffer) \in Nat
      BY <2>1, BufferAssumption DEF StreamInv
    <3>2. /\ kept \in Seq(Nat) /\ Len(kept) = Len(buffer) - 1
          /\ \A i \in 1 .. Len(kept) : i + 1 \in 1 .. Len(buffer) /\ kept[i] = buffer[i + 1]
      BY <2>1, <3>1 DEF StreamInv
    <3> HIDE DEF kept
    <3>3. \A i \in 1 .. Len(kept) : lastData <= kept[i] /\ kept[i] <= key
      BY <3>2 DEF StreamInv
    <3>4. \A i, j \in 1 .. Len(kept) : i <= j => kept[i] <= kept[j]
      <4> SUFFICES ASSUME NEW i \in 1 .. Len(kept), NEW j \in 1 .. Len(kept), i <= j
                   PROVE  kept[i] <= kept[j]
        OBVIOUS
      <4>1. i + 1 <= j + 1 /\ i + 1 \in 1 .. Len(buffer) /\ j + 1 \in 1 .. Len(buffer)
        BY <3>2
      <4> QED
        BY <3>2, <4>1 DEF StreamInv
    <3> QED
      BY <3>2, <3>3, <3>4
  <2>2. CASE Len(buffer) # BufferSize
    BY <2>2 DEF StreamInv
  <2> QED
    BY <2>1, <2>2
<1> HIDE DEF kept
<1>3. /\ buffer' \in Seq(Nat) /\ Len(buffer') = Len(kept) + 1
      /\ \A i \in 1 .. Len(kept) : buffer'[i] = kept[i]
      /\ buffer'[Len(kept) + 1] = key
  BY <1>1, <1>2 DEF StreamInv
<1>4. \A i \in 1 .. Len(buffer') : i \in 1 .. Len(kept) \/ i = Len(kept) + 1
  BY <1>2, <1>3
<1>5. ASSUME NEW i \in 1 .. Len(buffer')
      PROVE  lastData <= buffer'[i] /\ buffer'[i] <= key
  <2>1. CASE i \in 1 .. Len(kept)
    BY <1>2, <1>3, <2>1
  <2>2. CASE i = Len(kept) + 1
    BY <1>3, <2>2 DEF StreamInv
  <2> QED
    BY <1>4, <2>1, <2>2
<1>6. \A i, j \in 1 .. Len(buffer') : i <= j => buffer'[i] <= buffer'[j]
  <2> SUFFICES ASSUME NEW i \in 1 .. Len(buffer'), NEW j \in 1 .. Len(buffer'), i <= j
               PROVE  buffer'[i] <= buffer'[j]
    OBVIOUS
  <2>1. CASE j \in 1 .. Len(kept)
    <3>1. i \in 1 .. Len(kept)
      BY <1>2, <2>1
    <3> QED
      BY <1>2, <1>3, <2>1, <3>1
  <2>2. CASE j = Len(kept) + 1
    BY <1>3, <1>5, <2>2
  <2> QED
    BY <1>4, <2>1, <2>2
<1> QED
  BY <1>1, <1>3, <1>5, <1>6 DEF StreamInv

\* Taking the oldest value does not go back, and nothing older is left behind it.
LEMMA GetStream ==
  ASSUME StreamInv, GetReference PROVE StreamInv' /\ lastData' >= lastData
<1>1. CASE buffer = <<>>
  BY <1>1 DEF GetReference, StreamInv
<1>2. CASE buffer # <<>>
  <2>1. lastData' = buffer[1] /\ key' = key /\ 1 \in 1 .. Len(buffer)
    BY <1>2 DEF GetReference, Oldest, StreamInv
  <2>2. /\ buffer' \in Seq(Nat) /\ Len(buffer') = Len(buffer) - 1
        /\ \A i \in 1 .. Len(buffer') : i + 1 \in 1 .. Len(buffer) /\ buffer'[i] = buffer[i + 1]
    <3>1. buffer' = Tail(buffer) /\ buffer \in Seq(Nat) /\ Len(buffer) \in Nat \ {0}
      BY <1>2 DEF GetReference, Oldest, StreamInv
    <3>2. Len(buffer') = Len(buffer) - 1 /\ buffer' \in Seq(Nat)
      BY <3>1
    <3> QED
      BY <3>1, <3>2
  <2>3. lastData' \in Nat /\ lastData' <= key /\ lastData' >= lastData
    BY <2>1 DEF StreamInv
  <2>4. \A i \in 1 .. Len(buffer') : lastData' <= buffer'[i] /\ buffer'[i] <= key'
    <3> SUFFICES ASSUME NEW i \in 1 .. Len(buffer')
                 PROVE  lastData' <= buffer'[i] /\ buffer'[i] <= key'
      OBVIOUS
    <3>1. 1 <= i + 1 /\ i + 1 \in 1 .. Len(buffer)
      BY <2>2
    <3> QED
      BY <2>1, <2>2, <3>1 DEF StreamInv
  <2>5. \A i, j \in 1 .. Len(buffer') : i <= j => buffer'[i] <= buffer'[j]
    <3> SUFFICES ASSUME NEW i \in 1 .. Len(buffer'), NEW j \in 1 .. Len(buffer'), i <= j
                 PROVE  buffer'[i] <= buffer'[j]
      OBVIOUS
    <3>1. i + 1 <= j + 1 /\ i + 1 \in 1 .. Len(buffer) /\ j + 1 \in 1 .. Len(buffer)
      BY <2>2
    <3> QED
      BY <2>2, <3>1 DEF StreamInv
  <2> QED
    BY <2>1, <2>2, <2>3, <2>4, <2>5 DEF StreamInv
<1> QED
  BY <1>1, <1>2

\* Every step preserves the invariant and goes forwards.
LEMMA NextStream ==
  ASSUME StreamInv, [Next]_vars
  PROVE  StreamInv' /\ lastData' >= lastData
<1>1. CASE UNCHANGED redisVars
  BY <1>1 DEF redisVars, StreamInv
<1>2. CASE Publish
  BY <1>2 DEF Publish, StreamInv
<1>3. CASE Connected \/ ConnectionLost \/ BadValue
  BY <1>3 DEF Connected, ConnectionLost, BadValue, StreamInv
<1>4. CASE Poll
  BY <1>4, PollStream DEF Poll, StreamInv
<1>5. CASE GetReference
  BY <1>5, GetStream
<1>6. CASE ClearBuffer
  BY <1>6 DEF ClearBuffer, StreamInv
<1> QED
  BY <1>1, <1>2, <1>3, <1>4, <1>5, <1>6 DEF Next, vars, RedisNext, Worker, RedisStep

\* The robot follows the stream in its order: though the worker reads the same
\* value again and again, a full buffer drops, reset() empties it and the
\* connection breaks, a reference is never followed by an older one.
THEOREM StreamGoesForwards == Spec => NeverBackwards
<1>1. Init => StreamInv
  BY InitStream DEF Init
<1>2. StreamInv /\ [Next]_vars => StreamInv' /\ [lastData' >= lastData]_redisVars
  BY NextStream
<1> QED
  BY <1>1, <1>2, PTL DEF Spec, NeverBackwards

-----------------------------------------------------------------------------
(***************************************************************************)
(* Clocks and frames                                                       *)
(***************************************************************************)
\* The quotient, as the provers need to be told of it.
LEMMA DivFacts ==
  ASSUME NEW a \in Nat, NEW t \in Nat \ {0}
  PROVE  /\ a \div t \in Nat
         /\ t * (a \div t) <= a
         /\ a < t * (a \div t) + t
OBVIOUS

\* A later clock shows no earlier frame.
LEMMA FrameMonotone ==
  ASSUME NEW a \in Nat, NEW b \in Nat, a <= b
  PROVE  Frame(a) \in Nat /\ Frame(b) \in Nat /\ Frame(a) <= Frame(b)
<1> DEFINE t == TicksPerFrame
           q == a \div t
           r == b \div t
<1>1. t \in Nat \ {0}
  BY MotionsAssumption
<1>2. q \in Nat /\ t * q <= a
  BY <1>1, DivFacts
<1>3. r \in Nat /\ b < t * r + t
  BY <1>1, DivFacts
<1>4. ASSUME r < q PROVE FALSE
  <2> HIDE DEF t, q, r
  <2>1. t * (r + 1) <= t * q
    <3>1. PICK d \in Nat : q = (r + 1) + d
      BY <1>2, <1>3, <1>4
    <3> QED
      BY <1>1, <1>3, <3>1
  <2>2. t * (r + 1) = t * r + t /\ t * r \in Nat /\ t * q \in Nat
    BY <1>1, <1>2, <1>3
  <2> QED
    BY <1>1, <1>2, <1>3, <2>1, <2>2
<1> QED
  BY <1>2, <1>3, <1>4 DEF Frame

\* The clock of a frame.
LEMMA FrameOfMultiple ==
  ASSUME NEW k \in Nat
  PROVE  k * TicksPerFrame \in Nat /\ Frame(k * TicksPerFrame) = k
<1> DEFINE t == TicksPerFrame
           q == (k * t) \div t
<1>1. t \in Nat \ {0} /\ k * t \in Nat
  BY MotionsAssumption
<1>2. q \in Nat /\ t * q <= k * t /\ k * t < t * q + t
  BY <1>1, DivFacts
<1>3. q = k
  <2> HIDE DEF t, q
  <2>1. CASE q < k
    <3>1. PICK d \in Nat : k = (q + 1) + d
      BY <1>2, <2>1
    <3>2. k * t = t * q + t + d * t /\ d * t \in Nat /\ t * q \in Nat
      BY <1>1, <1>2, <3>1
    <3> QED
      BY <1>1, <1>2, <3>2
  <2>2. CASE k < q
    <3>1. PICK d \in Nat : q = (k + 1) + d
      BY <1>2, <2>2
    <3>2. t * q = k * t + t + d * t /\ d * t \in Nat /\ k * t \in Nat
      BY <1>1, <1>2, <3>1
    <3> QED
      BY <1>1, <1>2, <3>2
  <2> QED
    BY <1>2, <2>1, <2>2
<1> QED
  BY <1>1, <1>3 DEF Frame

\* The smaller of two.
LEMMA MinOfTwo ==
  ASSUME NEW a \in Int, NEW b \in Int
  PROVE  Min({a, b}) = IF a <= b THEN a ELSE b
BY DEF Min

\* From where nothing moves any more, nothing moves later.
LEMMA RestStays ==
  ASSUME NEW m \in Motions, NEW a \in Nat, NEW b \in Nat, a <= b, AtRest(m, a)
  PROVE  AtRest(m, b)
<1>1. LastFrame(m) \in Nat
  BY MotionsAssumption DEF LastFrame
<1> QED
  BY <1>1, FrameMonotone DEF AtRest

-----------------------------------------------------------------------------
(***************************************************************************)
(* What a policy's player holds.  The clock and the watch of a motion      *)
(* without a length go together: either nothing moves any more, or the     *)
(* last poses seen, as many as the watch has counted still, are those of   *)
(* the steps up to the clock.                                              *)
(***************************************************************************)
Watch == [prev : Nat, still : Nat, active : Nat, seen : BOOLEAN]
Player == [clock : Nat, speed : Nat, done : BOOLEAN, max : Int, watch : Watch, command : Nat]

Typed(m, p) ==
  /\ p \in Player
  /\ p.speed \in {0, m.speed}
  /\ p.watch.still <= m.still
  /\ p.watch.prev = NoPose => p.watch.still = 0

\* The poses seen from clock c on, a step apart.
SeenFrom(m, c, n, pose) == \A j \in 0 .. n - 1 : Pose(m, c + j * m.speed) = pose

Steady(m, p) ==
  \E c \in Nat :
    /\ p.clock = c + p.watch.still * m.speed
    /\ SeenFrom(m, c, p.watch.still, p.watch.prev)

BeyondMimicInv(m, p) ==
  /\ p.done => p.clock <= MaxClock
  /\ p.done /\ p.max > 0 => p.clock >= p.max
  /\ p.done /\ p.max <= 0 => m.auto /\ AtRest(m, p.clock)
  /\ p.max <= 0 /\ m.auto => AtRest(m, p.clock) \/ Steady(m, p)

AsapInv(m, p) == p.done => p.clock >= m.max

TrackerInv(m, p) ==
  \E k \in 0 .. LastFrame(m) :
    p.clock = k * TicksPerFrame /\ (p.done => k = LastFrame(m))

PlayerInv(m, p) ==
  /\ Typed(m, p)
  /\ m.kind = "beyondmimic" => BeyondMimicInv(m, p)
  /\ m.kind = "asap" => AsapInv(m, p)
  /\ m.kind = "tracker" => TrackerInv(m, p)

\* A frame of the reference is one of its poses.
LEMMA PoseType ==
  ASSUME NEW m \in Motions, NEW c \in Nat
  PROVE  Pose(m, c) \in Nat \ {0}
<1>0. m.poses \in Seq(Nat \ {0}) /\ m.poses # <<>>
  BY MotionsAssumption
<1>1. /\ Frame(c) \in Nat /\ Len(m.poses) \in Nat \ {0}
      /\ LastFrame(m) \in Nat /\ LastFrame(m) + 1 = Len(m.poses)
  <2>1. Frame(c) \in Nat
    BY FrameMonotone
  <2> QED
    BY <1>0, <2>1, EmptySeq DEF LastFrame
<1>2. Min({Frame(c), LastFrame(m)}) + 1 \in 1 .. Len(m.poses)
  BY <1>1, MinOfTwo
<1> QED
  BY <1>0, <1>1, <1>2 DEF Pose

\* A player without a still watch is steady.
LEMMA FreshIsSteady ==
  ASSUME NEW m \in Motions, NEW p, Typed(m, p), p.watch.still = 0
  PROVE  Steady(m, p)
<1>1. p.clock \in Nat /\ p.clock = p.clock + p.watch.still * m.speed
  BY MotionsAssumption DEF Typed, Player
<1> QED
  BY <1>1 DEF Steady, SeenFrom

\* A reset starts over.
LEMMA ResetKeeps ==
  ASSUME NEW m \in Motions, NEW p \in Player
  PROVE  /\ Typed(m, BeyondMimicReset(m, p))
         /\ BeyondMimicInv(m, BeyondMimicReset(m, p))
         /\ BeyondMimicReset(m, p).max = p.max /\ ~BeyondMimicReset(m, p).done
<1> DEFINE q == BeyondMimicReset(m, p)
           pose == IF m.own THEN Pose(m, 0) ELSE NoPose
<1>1. pose \in Nat
  BY PoseType DEF NoPose
<1> HIDE DEF pose
<1>2. /\ q.clock = 0 /\ q.speed = m.speed /\ q.done = FALSE /\ q.max = p.max
      /\ q.watch = Unwatched /\ q.command = pose
  BY DEF BeyondMimicReset, Player, pose
<1>3. Unwatched \in Watch /\ Unwatched.still = 0
  BY DEF Unwatched, Watch, NoPose
<1>4. q \in Player
  BY <1>1, <1>3, MotionsAssumption DEF BeyondMimicReset, Player, pose
<1> HIDE DEF q
<1>5. Typed(m, q)
  BY <1>2, <1>3, <1>4, MotionsAssumption DEF Typed
<1>6. Steady(m, q)
  BY <1>2, <1>3, <1>5, FreshIsSteady
<1> QED
  BY <1>2, <1>5, <1>6 DEF BeyondMimicInv, q

\* The step's clock: it goes forward, or stops at its bound.
Ticked(p) == [p EXCEPT !.clock = Min({@ + p.speed, MaxClock})]

LEMMA ClockGoes ==
  ASSUME NEW m \in Motions, NEW p, Typed(m, p)
  PROVE  /\ Ticked(p) \in Player /\ Ticked(p).clock <= MaxClock
         /\ Ticked(p).clock = p.clock + p.speed \/ Ticked(p).clock = MaxClock
         /\ p.clock <= MaxClock => p.clock <= Ticked(p).clock
         /\ Ticked(p).speed = p.speed /\ Ticked(p).done = p.done /\ Ticked(p).max = p.max
         /\ Ticked(p).watch = p.watch /\ Ticked(p).command = p.command
<1> DEFINE q == Ticked(p)
<1>1. p \in Player /\ p.clock \in Nat /\ p.speed \in Nat /\ MaxClock \in Nat
  BY MotionsAssumption DEF Typed, Player
<1>2. Min({p.clock + p.speed, MaxClock})
        = IF p.clock + p.speed <= MaxClock THEN p.clock + p.speed ELSE MaxClock
  BY <1>1, MinOfTwo
<1>3. /\ q.clock = Min({p.clock + p.speed, MaxClock})
      /\ q.speed = p.speed /\ q.done = p.done /\ q.max = p.max
      /\ q.watch = p.watch /\ q.command = p.command
  BY <1>1 DEF Player, Ticked
<1>4. q \in Player
  BY <1>1, <1>2 DEF Player, Ticked
<1> HIDE DEF q
<1>5. /\ q.clock <= MaxClock
      /\ q.clock = p.clock + p.speed \/ q.clock = MaxClock
      /\ p.clock <= MaxClock => p.clock <= q.clock
  BY <1>1, <1>2, <1>3
<1> QED
  BY <1>3, <1>4, <1>5 DEF q

\* A motion at rest stays at rest: its clock goes forward, or its bound is behind
\* the motion's end.
LEMMA ClockRests ==
  ASSUME PausesAreShort, NEW m \in Motions, m.auto, NEW p, Typed(m, p), NEW q, q \in Player,
         q.clock = p.clock + p.speed \/ q.clock = MaxClock, AtRest(m, p.clock)
  PROVE  AtRest(m, q.clock)
<1>1. CASE q.clock = MaxClock
  BY <1>1 DEF PausesAreShort
<1>2. CASE q.clock = p.clock + p.speed
  <2>1. p.clock \in Nat /\ q.clock \in Nat /\ p.clock <= q.clock
    BY <1>2 DEF Typed, Player
  <2> QED
    BY <2>1, RestStays
<1> QED
  BY <1>1, <1>2

\* One more pose like the last one: the watch counts it, up to the number it
\* waits for, and the poses seen are those of the steps up to the new clock.
LEMMA SeesTheSame ==
  ASSUME NEW m \in Motions, NEW p, Typed(m, p), Steady(m, p),
         Pose(m, p.clock) = p.watch.prev,
         NEW n \in Nat, n = IF p.watch.still + 1 <= m.still THEN p.watch.still + 1
                            ELSE m.still
  PROVE  \E c \in Nat : /\ p.clock + m.speed = c + n * m.speed
                        /\ SeenFrom(m, c, n, p.watch.prev)
<1> DEFINE k == p.watch.still
           s == m.speed
<1>1. k \in Nat /\ s \in Nat /\ m.still \in Nat /\ k <= m.still
  BY MotionsAssumption DEF Typed, Player, Watch
<1>2. PICK c \in Nat : p.clock = c + k * s /\ SeenFrom(m, c, k, p.watch.prev)
  BY DEF Steady
<1> HIDE DEF k, s
<1>3. ASSUME NEW j \in 0 .. k PROVE Pose(m, c + j * s) = p.watch.prev
  <2>1. CASE j = k
    BY <1>2, <2>1
  <2>2. CASE j # k
    <3>1. j \in 0 .. k - 1
      BY <1>1, <2>2
    <3> QED
      BY <1>2, <3>1 DEF SeenFrom, s
  <2> QED
    BY <2>1, <2>2
<1>4. CASE n = k + 1
  <2>1. p.clock + s = c + n * s
    BY <1>1, <1>2, <1>4
  <2>2. SeenFrom(m, c, n, p.watch.prev)
    BY <1>1, <1>3, <1>4 DEF SeenFrom, s
  <2> QED
    BY <2>1, <2>2 DEF s
<1>5. CASE n # k + 1
  <2>1. n = k
    BY <1>1, <1>5 DEF k
  <2>2. p.clock + s = (c + s) + n * s /\ c + s \in Nat
    BY <1>1, <1>2, <2>1
  <2>3. ASSUME NEW j \in 0 .. n - 1 PROVE Pose(m, (c + s) + j * s) = p.watch.prev
    <3>1. j + 1 \in 0 .. k /\ (c + s) + j * s = c + (j + 1) * s
      BY <1>1, <2>1
    <3> QED
      BY <1>3, <3>1
  <2>4. SeenFrom(m, c + s, n, p.watch.prev)
    BY <2>3 DEF SeenFrom, s
  <2> QED
    BY <2>2, <2>4 DEF s
<1> QED
  BY <1>4, <1>5

\* The watch's verdict: as many poses as it waits for make the motion's end.
LEMMA EndIsSeen ==
  ASSUME PausesAreShort, NEW m \in Motions, m.auto,
         NEW c \in Nat, NEW clock \in Nat, clock <= MaxClock,
         NEW pose, clock = c + m.still * m.speed, SeenFrom(m, c, m.still, pose)
  PROVE  AtRest(m, clock)
<1>1. m.still \in Nat /\ m.speed \in Nat /\ MaxClock \in Nat
  BY MotionsAssumption
<1>2. m.still * m.speed \in Nat
  BY <1>1
<1>3. c \in 0 .. MaxClock
  BY <1>1, <1>2
<1>4. ASSUME NEW j \in 0 .. m.still - 1 PROVE Pose(m, c + j * m.speed) = Pose(m, c)
  <2>1. 0 \in 0 .. m.still - 1 /\ c + 0 * m.speed = c
    BY <1>1
  <2>2. Pose(m, c + 0 * m.speed) = pose /\ Pose(m, c + j * m.speed) = pose
    BY <2>1 DEF SeenFrom
  <2> QED
    BY <2>1, <2>2
<1> QED
  BY <1>3, <1>4 DEF PausesAreShort
\* A step's advance and its look at the reference.
LEMMA TimePasses ==
  ASSUME PausesAreShort, NEW m \in Motions, m.kind = "beyondmimic",
         NEW p, Typed(m, p), BeyondMimicInv(m, p),
         NEW a, a = Acted(m, p), NEW v, v = Advanced(a), NEW w, w = Watched(m, v)
  PROVE  Typed(m, w) /\ BeyondMimicInv(m, w)
<1>1. /\ p \in Player /\ p.clock \in Nat /\ p.watch \in Watch
      /\ m.speed \in Nat \ {0} /\ m.still \in Nat /\ m.active \in Nat /\ MaxClock \in Nat
      /\ m.auto \in BOOLEAN /\ m.own \in BOOLEAN /\ (m.auto => m.own)
  BY MotionsAssumption DEF Typed, Player
<1>2. /\ a \in Player /\ a.clock = p.clock /\ a.speed = p.speed /\ a.done = p.done
      /\ a.max = p.max /\ a.watch = p.watch
      /\ m.own => a.command = Pose(m, p.clock)
  <2>1. Pose(m, p.clock) \in Nat
    BY <1>1, PoseType
  <2> QED
    BY <1>1, <2>1 DEF Acted, Player
<1>3. Typed(m, a)
  BY <1>2 DEF Typed
<1>0. PICK q : q = Ticked(a)
  OBVIOUS
<1>4. v = IF 0 < a.max /\ a.max <= q.clock THEN Over(q) ELSE q
  <2>1. q.max = a.max
    BY <1>0, <1>3, ClockGoes
  <2> QED
    BY <1>0, <2>1 DEF Advanced, Ticked
<1>5. /\ q \in Player /\ q.clock <= MaxClock
      /\ q.clock = p.clock + p.speed \/ q.clock = MaxClock
      /\ p.clock <= MaxClock => p.clock <= q.clock
      /\ q.speed = p.speed /\ q.done = p.done /\ q.max = p.max
      /\ q.watch = p.watch /\ q.command = a.command
  <2>1. /\ q \in Player /\ q.clock <= MaxClock
        /\ q.clock = a.clock + a.speed \/ q.clock = MaxClock
        /\ a.clock <= MaxClock => a.clock <= q.clock
        /\ q.speed = a.speed /\ q.done = a.done /\ q.max = a.max
        /\ q.watch = a.watch /\ q.command = a.command
    BY <1>0, <1>3, ClockGoes
  <2> QED
    BY <1>2, <2>1
<1>6. Typed(m, q)
  BY <1>5 DEF Typed
\* An end of the clock ends the watch, too: of the others the length is open.
<1>7. CASE p.max > 0
  <2>1. CASE p.max <= q.clock
    <3>1. v = Over(q)
      BY <1>2, <1>4, <1>7, <2>1
    <3>2. /\ v \in Player /\ v.clock = q.clock /\ v.speed = 0 /\ v.done = TRUE
          /\ v.max = p.max /\ v.watch = q.watch
      <4>1. /\ Over(q) \in Player /\ Over(q).clock = q.clock /\ Over(q).speed = 0
            /\ Over(q).max = q.max /\ Over(q).watch = q.watch /\ Over(q).done = TRUE
        BY <1>5 DEF Over, Player
      <4> QED
        BY <1>5, <3>1, <4>1
    <3>3. w = v
      BY <3>2 DEF Watched, Watching
    <3>4. Typed(m, w)
      BY <1>6, <3>2, <3>3 DEF Typed
    <3>5. v.max \in Int
      BY <3>2 DEF Player
    <3> QED
      BY <1>5, <1>7, <2>1, <3>2, <3>3, <3>4, <3>5 DEF BeyondMimicInv
  <2>2. CASE ~(p.max <= q.clock)
    <3>1. v = q
      BY <1>2, <1>4, <2>2
    <3>2. w = q
      <4>1. p.max \in Int
        BY <1>1 DEF Player
      <4> QED
        BY <1>5, <1>7, <3>1, <4>1 DEF Watched, Watching
    <3>3. ~p.done
      <4>1. p.max \in Int /\ q.clock \in Nat
        BY <1>1, <1>5 DEF Player
      <4> QED
        BY <1>1, <1>5, <1>7, <2>2, <4>1 DEF BeyondMimicInv
    <3>4. q.max \in Int
      BY <1>5 DEF Player
    <3> QED
      BY <1>5, <1>6, <1>7, <3>2, <3>3, <3>4 DEF BeyondMimicInv
  <2> QED
    BY <2>1, <2>2
<1>8. CASE ~(p.max > 0)
  <2>1. p.max \in Int /\ p.max <= 0 /\ q.max <= 0
    BY <1>1, <1>5, <1>8 DEF Player
  <2>2. v = q
    BY <1>2, <1>4, <2>1
  \* What was at rest is at rest.
  <2>3. m.auto /\ AtRest(m, p.clock) => AtRest(m, q.clock)
    <3>1. SUFFICES ASSUME m.auto, AtRest(m, p.clock) PROVE AtRest(m, q.clock)
      OBVIOUS
    <3>2. q.clock = p.clock + p.speed \/ q.clock = MaxClock
      BY <1>5
    <3> QED
      BY <1>5, <3>1, <3>2, ClockRests
  <2>4. m.auto => AtRest(m, MaxClock)
    BY DEF PausesAreShort
  <2>5. CASE ~Watching(m, q)
    <3>1. w = q
      BY <2>2, <2>5 DEF Watched
    <3>2. q.done => q.clock <= MaxClock /\ m.auto /\ AtRest(m, q.clock)
      BY <1>5, <2>1, <2>3 DEF BeyondMimicInv
    <3>3. ASSUME m.auto, ~AtRest(m, q.clock) PROVE Steady(m, q)
      <4>1. ~AtRest(m, p.clock) /\ Steady(m, p) /\ ~p.done /\ q.clock # MaxClock
        BY <2>1, <2>3, <2>4, <3>3 DEF BeyondMimicInv
      <4>2. ~(p.speed > 0) /\ p.speed \in Nat
        BY <1>1, <1>5, <2>1, <2>5, <3>3, <4>1 DEF Watching, Player
      <4>3. q.clock = p.clock
        BY <1>1, <1>5, <4>1, <4>2
      <4> QED
        BY <1>5, <4>1, <4>3 DEF Steady
    <3> QED
      <4>1. BeyondMimicInv(m, q)
        <5>1. q.max \in Int /\ ~(q.max > 0)
          BY <1>5, <2>1
        <5> QED
          BY <3>2, <3>3, <5>1 DEF BeyondMimicInv
      <4> QED
        BY <1>6, <3>1, <4>1
  <2>6. CASE Watching(m, q)
    <3>5. PICK u : u = Noted(m, q.watch, q.command)
      OBVIOUS
    <3>6. PICK r : r = [q EXCEPT !.watch = u]
      OBVIOUS
    <3>1. m.auto /\ m.own /\ ~p.done /\ p.speed = m.speed
      BY <1>1, <1>5, <2>6 DEF Watching, Typed
    <3>2. q.command = Pose(m, p.clock) /\ q.command \in Nat \ {0}
      BY <1>1, <1>2, <1>5, <3>1, PoseType
    <3>3. CASE q.watch.prev = NoPose
      <4>1. w = [q EXCEPT !.watch.prev = q.command]
        BY <2>2, <2>6, <3>3 DEF Watched
      <4>2. /\ w \in Player /\ w.clock = q.clock /\ w.speed = q.speed /\ w.done = q.done
            /\ w.max = q.max /\ w.watch.prev = q.command /\ w.watch.still = q.watch.still
        BY <1>5, <3>2, <4>1 DEF Player, Watch
      <4>3. w.watch.still = 0
        BY <1>6, <3>3, <4>2 DEF Typed
      <4>4. Typed(m, w)
        BY <1>1, <1>6, <3>2, <4>2, <4>3 DEF Typed, NoPose
      <4>5. Steady(m, w)
        BY <4>3, <4>4, FreshIsSteady
      <4> QED
        BY <1>5, <3>1, <4>2, <4>4, <4>5 DEF BeyondMimicInv
    <3>4. CASE q.watch.prev # NoPose
      <4>1. w = IF u.seen /\ u.still >= m.still THEN Over(r) ELSE r
        <5>1. r.watch = u
          BY <1>5, <3>6 DEF Player
        <5>2. r = [q EXCEPT !.watch = Noted(m, @, q.command)]
          BY <3>5, <3>6
        <5> QED
          BY <2>2, <2>6, <3>4, <5>1, <5>2 DEF Watched
      \* The new watch, and what it has seen.
      <4>2. /\ u \in Watch /\ u.still <= m.still /\ u.prev = q.command
            /\ \/ q.command # q.watch.prev /\ u.still = 0
               \/ /\ q.command = q.watch.prev
                  /\ u.still = IF q.watch.still + 1 <= m.still THEN q.watch.still + 1
                               ELSE m.still
        <5>1. q.watch \in Watch /\ q.watch.still \in Nat /\ q.watch.active \in Nat
          BY <1>5 DEF Player, Watch
        <5>2. CASE q.command # q.watch.prev
          <6>1. Min({q.watch.active + 1, m.active}) \in Nat
            <7>1. PICK n \in Nat : n = q.watch.active + 1
              BY <5>1
            <7>2. Min({n, m.active}) = IF n <= m.active THEN n ELSE m.active
              BY <1>1, MinOfTwo
            <7> QED
              BY <1>1, <7>1, <7>2
          <6>3. (q.watch.seen \/ q.watch.active + 1 >= m.active) \in BOOLEAN
            OBVIOUS
          <6>2. u = [prev |-> q.command, still |-> 0,
                     active |-> Min({q.watch.active + 1, m.active}),
                     seen |-> q.watch.seen \/ q.watch.active + 1 >= m.active]
            BY <3>5, <5>2 DEF Noted
          <6> QED
            BY <1>1, <3>2, <5>2, <6>1, <6>2, <6>3 DEF Watch
        <5>3. CASE q.command = q.watch.prev
          <6>1. Min({q.watch.still + 1, m.still})
                  = IF q.watch.still + 1 <= m.still THEN q.watch.still + 1 ELSE m.still
            BY <1>1, <5>1, MinOfTwo
          <6>2. u = [q.watch EXCEPT !.still = Min({q.watch.still + 1, m.still})]
            BY <3>5, <5>3 DEF Noted
          <6> QED
            BY <1>1, <5>1, <5>3, <6>1, <6>2 DEF Watch
        <5> QED
          BY <5>2, <5>3
      <4>3. /\ r \in Player /\ r.clock = q.clock /\ r.speed = q.speed /\ r.done = q.done
            /\ r.max = q.max /\ r.watch = u
        BY <1>5, <3>6, <4>2 DEF Player
      <4>4. /\ Over(r) \in Player /\ Over(r).clock = q.clock /\ Over(r).speed = 0
            /\ Over(r).max = q.max /\ Over(r).watch = u /\ Over(r).done = TRUE
        BY <4>3 DEF Over, Player
      <4>5. /\ w \in Player /\ w.clock = q.clock /\ w.speed \in {0, m.speed}
            /\ w.max = q.max /\ w.watch = u
            /\ w.done => u.still >= m.still
        BY <1>5, <3>1, <4>1, <4>3, <4>4
      <4>6. Typed(m, w)
        BY <3>2, <4>2, <4>5 DEF Typed, NoPose
      <4>7. AtRest(m, q.clock) \/ \E c \in Nat : /\ q.clock = c + u.still * m.speed
                                                 /\ SeenFrom(m, c, u.still, u.prev)
        <5>1. SUFFICES ASSUME ~AtRest(m, q.clock)
                       PROVE  \E c \in Nat : /\ q.clock = c + u.still * m.speed
                                             /\ SeenFrom(m, c, u.still, u.prev)
          OBVIOUS
        <5>2. q.clock = p.clock + m.speed /\ q.clock \in Nat
          BY <1>1, <1>5, <2>4, <3>1, <5>1
        <5>3. CASE u.still = 0
          BY <1>1, <5>2, <5>3 DEF SeenFrom
        <5>4. CASE u.still # 0
          <6>1. /\ Pose(m, p.clock) = p.watch.prev /\ u.prev = p.watch.prev
                /\ u.still \in Nat
                /\ u.still = IF p.watch.still + 1 <= m.still THEN p.watch.still + 1
                             ELSE m.still
            BY <1>5, <3>2, <4>2, <5>4 DEF Watch
          <6>2. Steady(m, p)
            BY <2>1, <2>3, <3>1, <5>1 DEF BeyondMimicInv
          <6> QED
            BY <5>2, <6>1, <6>2, SeesTheSame
        <5> QED
          BY <5>3, <5>4
      <4>8. w.done => AtRest(m, q.clock)
        <5>1. SUFFICES ASSUME w.done, ~AtRest(m, q.clock) PROVE FALSE
          OBVIOUS
        <5>2. PICK c \in Nat : /\ q.clock = c + u.still * m.speed
                               /\ SeenFrom(m, c, u.still, u.prev)
          BY <4>7, <5>1
        <5>3. u.still = m.still /\ q.clock \in Nat
          BY <1>1, <1>5, <4>2, <4>5, <5>1 DEF Watch, Player
        <5> QED
          BY <1>5, <3>1, <5>1, <5>2, <5>3, EndIsSeen
      <4>9. AtRest(m, w.clock) \/ Steady(m, w)
        BY <4>5, <4>7 DEF Steady
      <4> QED
        BY <1>5, <2>1, <3>1, <4>5, <4>6, <4>8, <4>9 DEF BeyondMimicInv
    <3> QED
      BY <3>3, <3>4
  <2> QED
    BY <2>5, <2>6
<1> QED
  BY <1>7, <1>8

-----------------------------------------------------------------------------
(***************************************************************************)
(* The commands of a step, one after the other.                            *)
(***************************************************************************)
\* CtrlManager gives a step each of a motion's three commands at most once.
LEMMA CommandsAreFew ==
  ASSUME NEW cs \in CommandLists
  PROVE  /\ cs \in Seq(Orders)
         /\ Len(cs) = 0 \/ Len(cs) = 1 \/ Len(cs) = 2 \/ Len(cs) = 3
<1>1. PICK s \in SUBSET Orders : cs \in SetToSeqs(s)
  BY DEF CommandLists
<1>2. Cardinality(s) \in 0 .. 3
  <2>1. IsFiniteSet({"reset"}) /\ Cardinality({"reset"}) = 1
    BY FS_Singleton
  <2> DEFINE two == {"reset"} \cup {"fade_in"}
  <2>2. IsFiniteSet(two) /\ Cardinality(two) \in 1 .. 2
    <3>1. /\ IsFiniteSet(two)
          /\ Cardinality(two) = IF "fade_in" \in {"reset"} THEN Cardinality({"reset"})
                                ELSE Cardinality({"reset"}) + 1
      BY <2>1, FS_AddElement
    <3> HIDE DEF two
    <3> QED
      BY <2>1, <3>1
  <2>3. IsFiniteSet(Orders) /\ Cardinality(Orders) <= 3
    <3>1. Orders = two \cup {"fade_out"}
      BY DEF Orders
    <3> HIDE DEF two
    <3>2. /\ IsFiniteSet(Orders)
          /\ Cardinality(Orders) = IF "fade_out" \in two THEN Cardinality(two)
                                   ELSE Cardinality(two) + 1
      BY <2>2, <3>1, FS_AddElement
    <3> QED
      BY <2>2, <3>2
  <2>4. IsFiniteSet(s) /\ Cardinality(s) <= Cardinality(Orders)
    BY <1>1, <2>3, FS_Subset
  <2>5. Cardinality(s) \in Nat /\ Cardinality(Orders) \in Nat
    BY <2>3, <2>4, FS_CardinalityType
  <2> QED
    BY <2>3, <2>4, <2>5
<1>3. cs \in [1 .. Cardinality(s) -> s]
  BY <1>1 DEF SetToSeqs
<1>4. cs \in Seq(Orders) /\ Len(cs) = Cardinality(s)
  BY <1>1, <1>2, <1>3
<1> QED
  BY <1>2, <1>4

\* The recursion of Obeyed, written out.
LEMMA ObeysInTurn ==
  ASSUME NEW m, NEW p, NEW cs \in CommandLists
  PROVE  Obeyed(m, p, cs)
           = CASE Len(cs) = 0 -> p
               [] Len(cs) = 1 -> Obeys(m, p, cs[1])
               [] Len(cs) = 2 -> Obeys(m, Obeys(m, p, cs[1]), cs[2])
               [] Len(cs) = 3 -> Obeys(m, Obeys(m, Obeys(m, p, cs[1]), cs[2]), cs[3])
<1> DEFINE N == 0 .. Len(cs)
           IsAfter(f) == f = [n \in N |-> IF n = 0 THEN p ELSE Obeys(m, f[n - 1], cs[n])]
           after == CHOOSE f : IsAfter(f)
           g == [n \in N |-> IF n = 0 THEN p
                             ELSE IF n = 1 THEN Obeys(m, p, cs[1])
                             ELSE IF n = 2 THEN Obeys(m, Obeys(m, p, cs[1]), cs[2])
                             ELSE Obeys(m, Obeys(m, Obeys(m, p, cs[1]), cs[2]), cs[3])]
<1>1. Len(cs) \in Nat /\ (Len(cs) = 0 \/ Len(cs) = 1 \/ Len(cs) = 2 \/ Len(cs) = 3)
  BY CommandsAreFew
<1>2. IsAfter(g)
  <2>1. ASSUME NEW n \in N PROVE n = 0 \/ n = 1 \/ n = 2 \/ n = 3
    <3>1. PICK l : l = Len(cs)
      OBVIOUS
    <3>2. l \in Nat /\ (l = 0 \/ l = 1 \/ l = 2 \/ l = 3) /\ n \in 0 .. l
      BY <1>1, <3>1
    <3> HIDE DEF N
    <3> QED
      BY <3>2
  <2>2. \A n \in N : g[n] = IF n = 0 THEN p ELSE Obeys(m, g[n - 1], cs[n])
    <3> SUFFICES ASSUME NEW n \in N
                 PROVE  g[n] = IF n = 0 THEN p ELSE Obeys(m, g[n - 1], cs[n])
      OBVIOUS
    <3>1. CASE n = 0
      BY <3>1
    <3>2. CASE n = 1
      <4>1. g[1] = Obeys(m, p, cs[1]) /\ g[0] = p
        BY <1>1, <3>2
      <4> QED
        BY <3>2, <4>1
    <3>3. CASE n = 2
      <4>1. g[2] = Obeys(m, Obeys(m, p, cs[1]), cs[2])
            /\ g[1] = Obeys(m, p, cs[1])
        BY <1>1, <3>3
      <4> QED
        BY <3>3, <4>1
    <3>4. CASE n = 3
      <4>1. g[3] = Obeys(m, Obeys(m, Obeys(m, p, cs[1]), cs[2]), cs[3])
            /\ g[2] = Obeys(m, Obeys(m, p, cs[1]), cs[2])
        BY <1>1, <3>4
      <4> QED
        BY <3>4, <4>1
    <3> QED
      BY <2>1, <3>1, <3>2, <3>3, <3>4
  <2> QED
    BY <2>2
<1>3. IsAfter(after)
  BY <1>2
<1>4. Obeyed(m, p, cs) = after[Len(cs)]
  BY DEF Obeyed
<1> HIDE DEF after
<1>5. \A n \in N : after[n] = IF n = 0 THEN p ELSE Obeys(m, after[n - 1], cs[n])
  BY <1>3
<1>6. after[0] = p
  BY <1>1, <1>5
<1>7. CASE Len(cs) = 0
  BY <1>4, <1>6, <1>7
<1>8. CASE Len(cs) = 1
  <2>1. after[1] = Obeys(m, p, cs[1])
    BY <1>5, <1>6, <1>8
  <2> QED
    BY <1>4, <1>8, <2>1
<1>9. CASE Len(cs) = 2
  <2>1. after[1] = Obeys(m, p, cs[1])
    BY <1>5, <1>6, <1>9
  <2>2. after[2] = Obeys(m, after[1], cs[2])
    BY <1>5, <1>9
  <2> QED
    BY <1>4, <1>9, <2>1, <2>2
<1>10. CASE Len(cs) = 3
  <2>1. after[1] = Obeys(m, p, cs[1])
    BY <1>5, <1>6, <1>10
  <2>2. after[2] = Obeys(m, after[1], cs[2]) /\ after[3] = Obeys(m, after[2], cs[3])
    BY <1>5, <1>10
  <2> QED
    BY <1>4, <1>10, <2>1, <2>2
<1> QED
  BY <1>1, <1>7, <1>8, <1>9, <1>10

\* A command keeps what the player holds.
LEMMA CommandKeeps ==
  ASSUME NEW m \in Motions, m.kind \in {"beyondmimic", "asap"},
         NEW p, PlayerInv(m, p), NEW c \in Orders
  PROVE  PlayerInv(m, Obeys(m, p, c))
<1>1. /\ p \in Player /\ m.speed \in Nat \ {0} /\ Typed(m, p)
  BY MotionsAssumption DEF PlayerInv, Typed
<1>2. CASE c # "reset"
  <2> DEFINE q == Obeys(m, p, c)
  <2>1. PICK s \in {0, m.speed} : q = [p EXCEPT !.speed = s]
    BY <1>2 DEF Obeys, AsapObeys, BeyondMimicObeys, Orders
  <2> HIDE DEF q
  <2>2. /\ q \in Player /\ q.clock = p.clock /\ q.speed = s /\ q.done = p.done
        /\ q.max = p.max /\ q.watch = p.watch
    BY <1>1, <2>1 DEF Player
  <2>3. Typed(m, q)
    BY <1>1, <2>2 DEF Typed
  <2>4. CASE m.kind = "beyondmimic"
    <3>1. Steady(m, p) => Steady(m, q)
      BY <2>2 DEF Steady
    <3>2. BeyondMimicInv(m, p)
      BY <2>4 DEF PlayerInv
    <3>3. BeyondMimicInv(m, q)
      BY <2>2, <3>1, <3>2 DEF BeyondMimicInv
    <3> QED
      BY <2>3, <2>4, <3>3 DEF PlayerInv, q
  <2>5. CASE m.kind = "asap"
    <3>1. AsapInv(m, q)
      BY <2>2, <2>5 DEF PlayerInv, AsapInv
    <3> QED
      BY <2>3, <2>5, <3>1 DEF PlayerInv, q
  <2> QED
    BY <2>4, <2>5
<1>3. CASE c = "reset"
  <2>1. CASE m.kind = "beyondmimic"
    <3>1. Obeys(m, p, c) = BeyondMimicReset(m, p)
      BY <1>3, <2>1 DEF Obeys, BeyondMimicObeys
    <3> QED
      BY <1>1, <2>1, <3>1, ResetKeeps DEF PlayerInv
  <2>2. CASE m.kind = "asap"
    <3> DEFINE q == Obeys(m, p, c)
    <3>1. q = [p EXCEPT !.clock = 0, !.speed = m.speed, !.done = FALSE]
      BY <1>3, <2>2 DEF Obeys, AsapObeys, AsapReset
    <3> HIDE DEF q
    <3>2. /\ q \in Player /\ q.speed = m.speed /\ q.done = FALSE /\ q.watch = p.watch
      BY <1>1, <3>1 DEF Player
    <3>3. Typed(m, q)
      BY <1>1, <3>2 DEF Typed
    <3> QED
      BY <2>2, <3>2, <3>3 DEF PlayerInv, AsapInv, q
  <2> QED
    BY <2>1, <2>2
<1> QED
  BY <1>2, <1>3

\* And so do the commands of a step.
LEMMA CommandsKeep ==
  ASSUME NEW m \in Motions, m.kind \in {"beyondmimic", "asap"},
         NEW p, PlayerInv(m, p), NEW cs \in CommandLists
  PROVE  PlayerInv(m, Obeyed(m, p, cs))
<1>1. /\ cs \in Seq(Orders)
      /\ Len(cs) = 0 \/ Len(cs) = 1 \/ Len(cs) = 2 \/ Len(cs) = 3
  BY CommandsAreFew
<1>2. \A n \in 1 .. Len(cs) : cs[n] \in Orders
  BY <1>1
<1> DEFINE first == Obeys(m, p, cs[1])
           second == Obeys(m, first, cs[2])
           third == Obeys(m, second, cs[3])
<1>3. Len(cs) >= 1 => PlayerInv(m, first)
  BY <1>1, <1>2, CommandKeeps
<1>4. Len(cs) >= 2 => PlayerInv(m, second)
  <2> HIDE DEF first
  <2> QED
    BY <1>1, <1>2, <1>3, CommandKeeps
<1>5. Len(cs) = 3 => PlayerInv(m, third)
  <2> HIDE DEF second
  <2> QED
    BY <1>1, <1>2, <1>4, CommandKeeps
<1>6. Obeyed(m, p, cs) = CASE Len(cs) = 0 -> p
                           [] Len(cs) = 1 -> first
                           [] Len(cs) = 2 -> second
                           [] Len(cs) = 3 -> third
  BY ObeysInTurn
<1> HIDE DEF first, second, third
<1>7. CASE Len(cs) = 0
  BY <1>6, <1>7
<1>8. CASE Len(cs) = 1
  BY <1>3, <1>6, <1>8
<1>9. CASE Len(cs) = 2
  BY <1>4, <1>6, <1>9
<1>10. CASE Len(cs) = 3
  BY <1>5, <1>6, <1>10
<1> QED
  BY <1>1, <1>7, <1>8, <1>9, <1>10

\* A step of BeyondMimicPolicy.
LEMMA BeyondMimicStepKeeps ==
  ASSUME PausesAreShort, NEW m \in Motions, m.kind = "beyondmimic",
         NEW p, PlayerInv(m, p), NEW cs \in CommandLists
  PROVE  PlayerInv(m, BeyondMimicStep(m, Acted(m, p), cs))
<1> DEFINE w == Watched(m, Advanced(Acted(m, p)))
<1>1. Typed(m, w) /\ BeyondMimicInv(m, w)
  BY TimePasses DEF PlayerInv
<1>2. PlayerInv(m, w)
  BY <1>1 DEF PlayerInv
<1> HIDE DEF w
<1>3. PlayerInv(m, Obeyed(m, w, cs))
  BY <1>2, CommandsKeep
<1> QED
  BY <1>3 DEF BeyondMimicStep, w

\* A step of AsapPolicy.
LEMMA AsapStepKeeps ==
  ASSUME NEW m \in Motions, m.kind = "asap",
         NEW p, PlayerInv(m, p), NEW cs \in CommandLists
  PROVE  PlayerInv(m, AsapStep(m, p, cs))
<1> DEFINE q == AsapAdvanced(m, p)
<1>1. p \in Player /\ p.clock \in Nat /\ p.speed \in Nat /\ m.max \in Int /\ Typed(m, p)
  BY MotionsAssumption DEF PlayerInv, Typed, Player
<1>2. PlayerInv(m, q)
  <2>1. CASE p.clock >= m.max
    <3>1. q = [p EXCEPT !.done = TRUE]
      BY <2>1 DEF AsapAdvanced
    <3> HIDE DEF q
    <3>2. /\ q \in Player /\ q.clock = p.clock /\ q.speed = p.speed /\ q.watch = p.watch
      BY <1>1, <3>1 DEF Player
    <3>3. Typed(m, q) /\ AsapInv(m, q)
      BY <1>1, <2>1, <3>2 DEF Typed, AsapInv
    <3> QED
      BY <3>3 DEF PlayerInv, q
  <2>2. CASE ~(p.clock >= m.max)
    <3>1. q = [p EXCEPT !.clock = @ + p.speed]
      BY <2>2 DEF AsapAdvanced
    <3> HIDE DEF q
    <3>2. /\ q \in Player /\ q.done = p.done /\ q.speed = p.speed /\ q.watch = p.watch
      BY <1>1, <3>1 DEF Player
    <3>3. ~p.done
      BY <2>2 DEF PlayerInv, AsapInv
    <3>4. Typed(m, q) /\ AsapInv(m, q)
      BY <1>1, <3>2, <3>3 DEF Typed, AsapInv
    <3> QED
      BY <3>4 DEF PlayerInv, q
  <2> QED
    BY <2>1, <2>2
<1> HIDE DEF q
<1>3. PlayerInv(m, Obeyed(m, q, cs))
  BY <1>2, CommandsKeep
<1> QED
  BY <1>3 DEF AsapStep, q

\* A step of ProtoMotionsTrackerPolicy: its clock goes from frame to frame.
LEMMA TrackerStepKeeps ==
  ASSUME NEW m \in Motions, m.kind = "tracker",
         NEW p, PlayerInv(m, p), NEW cs \in CommandLists
  PROVE  PlayerInv(m, TrackerStep(m, p, cs))
<1>1. /\ p \in Player /\ Typed(m, p) /\ TicksPerFrame \in Nat \ {0}
      /\ LastFrame(m) \in Nat
  BY MotionsAssumption, EmptySeq DEF PlayerInv, Typed, LastFrame
<1>2. PICK k \in 0 .. LastFrame(m) : p.clock = k * TicksPerFrame /\ (p.done => k = LastFrame(m))
  BY DEF PlayerInv, TrackerInv
<1>3. Frame(p.clock) = k /\ k \in Nat
  BY <1>1, <1>2, FrameOfMultiple
<1>4. PlayerInv(m, TrackerReset(p))
  <2> DEFINE q == TrackerReset(p)
  <2>1. /\ q \in Player /\ q.clock = 0 /\ q.done = FALSE /\ q.speed = p.speed /\ q.watch = p.watch
    BY <1>1 DEF Player, TrackerReset
  <2> HIDE DEF q
  <2>2. 0 \in 0 .. LastFrame(m) /\ 0 = 0 * TicksPerFrame
    BY <1>1
  <2>3. TrackerInv(m, q)
    BY <2>1, <2>2 DEF TrackerInv
  <2>4. Typed(m, q)
    BY <1>1, <2>1 DEF Typed
  <2> QED
    BY <2>3, <2>4 DEF PlayerInv, q
<1>5. PlayerInv(m, TrackerAdvanced(m, p))
  <2> DEFINE q == TrackerAdvanced(m, p)
  <2>1. CASE k >= LastFrame(m)
    <3>1. q = [p EXCEPT !.done = TRUE]
      BY <1>3, <2>1 DEF TrackerAdvanced
    <3> HIDE DEF q
    <3>2. q \in Player /\ q.clock = p.clock /\ q.speed = p.speed /\ q.watch = p.watch
      BY <1>1, <3>1 DEF Player
    <3>3. k = LastFrame(m)
      BY <1>1, <1>2, <2>1
    <3>4. Typed(m, q) /\ TrackerInv(m, q)
      BY <1>1, <1>2, <3>2, <3>3 DEF Typed, TrackerInv
    <3> QED
      BY <3>4 DEF PlayerInv, q
  <2>2. CASE ~(k >= LastFrame(m))
    <3>1. q = [p EXCEPT !.clock = @ + TicksPerFrame]
      BY <1>3, <2>2 DEF TrackerAdvanced
    <3> HIDE DEF q
    <3>2. /\ q \in Player /\ q.clock = p.clock + TicksPerFrame /\ q.done = p.done
          /\ q.speed = p.speed /\ q.watch = p.watch
      BY <1>1, <3>1 DEF Player
    <3>3. k + 1 \in 0 .. LastFrame(m) /\ q.clock = (k + 1) * TicksPerFrame /\ ~q.done
      BY <1>1, <1>2, <1>3, <2>2, <3>2
    <3>4. Typed(m, q) /\ TrackerInv(m, q)
      BY <1>1, <3>2, <3>3 DEF Typed, TrackerInv
    <3> QED
      BY <3>4 DEF PlayerInv, q
  <2> QED
    BY <2>1, <2>2
<1> QED
  BY <1>4, <1>5 DEF TrackerStep

\* What the pipeline does to the clock of a BeyondMimic policy between two steps
\* keeps what the player holds: a SAFE window ...
LEMMA WindowKeeps ==
  ASSUME NEW m \in Motions, m.kind = "beyondmimic", NEW p, PlayerInv(m, p), NEW w \in Windows
  PROVE  PlayerInv(m, InWindow(m, p, w))
<1> DEFINE r == BeyondMimicReset(m, p)
           q == InWindow(m, p, w)
<1>1. p \in Player /\ w.from \in Nat /\ w.to \in Nat \ {0}
  BY MotionsAssumption DEF PlayerInv, Typed
<1>2. Typed(m, r) /\ ~r.done
  BY <1>1, ResetKeeps
<1>3. q = [r EXCEPT !.clock = w.from, !.max = w.to]
  BY DEF InWindow
<1> HIDE DEF r, q
<1>4. /\ q \in Player /\ q.max = w.to /\ q.done = r.done /\ q.speed = r.speed
      /\ q.watch = r.watch
  <2>1. r \in Player /\ w.to \in Int
    BY <1>1, <1>2 DEF Typed
  <2>2. q = [[r EXCEPT !.clock = w.from] EXCEPT !.max = w.to]
    BY <1>3
  <2> QED
    BY <1>1, <2>1, <2>2 DEF Player
<1>5. Typed(m, q)
  BY <1>2, <1>4 DEF Typed
<1>6. BeyondMimicInv(m, q)
  BY <1>1, <1>2, <1>4 DEF BeyondMimicInv
<1> QED
  BY <1>5, <1>6 DEF PlayerInv, q

\* ... a seek to the music's phase ...
LEMMA SeekKeeps ==
  ASSUME NEW m \in Motions, m.kind = "beyondmimic", NEW p, PlayerInv(m, p),
         NEW clock \in Nat
  PROVE  PlayerInv(m, Sought(m, p, clock))
<1>1. p \in Player /\ Typed(m, p) /\ m.still \in Nat
  BY MotionsAssumption DEF PlayerInv, Typed
<1>2. CASE p.done
  <2>1. Sought(m, p, clock) = BeyondMimicReset(m, p)
    BY <1>2 DEF Sought
  <2> QED
    BY <1>1, <2>1, ResetKeeps DEF PlayerInv
<1>3. CASE ~p.done
  <2> DEFINE q == Sought(m, p, clock)
  <2>1. q = [p EXCEPT !.clock = clock, !.watch.still = 0, !.watch.seen = TRUE]
    BY <1>3 DEF Sought
  <2> HIDE DEF q
  <2>2. /\ q \in Player /\ q.done = p.done /\ q.speed = p.speed /\ q.watch.still = 0
    BY <1>1, <2>1 DEF Player, Watch
  <2>3. Typed(m, q)
    BY <1>1, <2>2 DEF Typed
  <2>4. Steady(m, q)
    BY <2>2, <2>3, FreshIsSteady
  <2>5. BeyondMimicInv(m, q)
    BY <1>3, <2>2, <2>4 DEF BeyondMimicInv
  <2> QED
    BY <2>3, <2>5 DEF PlayerInv, q
<1> QED
  BY <1>2, <1>3

\* ... and a new entry.
LEMMA EntryKeeps ==
  ASSUME NEW m \in Motions, m.kind = "beyondmimic", NEW p, PlayerInv(m, p)
  PROVE  PlayerInv(m, Entered(m, p))
<1> DEFINE r == [p EXCEPT !.max = m.max]
<1>1. r \in Player
  BY MotionsAssumption DEF PlayerInv, Typed, Player
<1> HIDE DEF r
<1>2. Typed(m, BeyondMimicReset(m, r)) /\ BeyondMimicInv(m, BeyondMimicReset(m, r))
  BY <1>1, ResetKeeps
<1> QED
  BY <1>2 DEF PlayerInv, Entered, r

\* The invariant of the policies that play a motion.
PlayingInv == motion \in Motions /\ PlayerInv(motion, player)

\* It holds at the start.
LEMMA InitPlaying == PlayersInit => PlayingInv
<1> SUFFICES ASSUME PlayersInit PROVE PlayingInv
  OBVIOUS
<1> DEFINE pose == IF motion.own THEN Pose(motion, 0) ELSE NoPose
<1>1. motion \in Motions /\ pose \in Nat
  BY PoseType DEF PlayersInit, NoPose
<1>2. player = [clock |-> 0, speed |-> motion.speed, done |-> FALSE,
                max |-> motion.max, watch |-> Unwatched, command |-> pose]
  BY DEF PlayersInit
<1> HIDE DEF pose
<1>3. Unwatched \in Watch /\ Unwatched.still = 0
  BY DEF Unwatched, Watch, NoPose
<1>4. Typed(motion, player) /\ player.done = FALSE /\ player.clock = 0
  BY <1>1, <1>2, <1>3, MotionsAssumption DEF Typed, Player
<1>5. Steady(motion, player)
  BY <1>1, <1>2, <1>3, <1>4, FreshIsSteady
<1>6. TrackerInv(motion, player)
  <2>1. LastFrame(motion) \in Nat /\ 0 = 0 * TicksPerFrame
    BY <1>1, MotionsAssumption, EmptySeq DEF LastFrame
  <2> QED
    BY <1>4, <2>1 DEF TrackerInv
<1> QED
  BY <1>1, <1>4, <1>5, <1>6 DEF PlayingInv, PlayerInv, BeyondMimicInv, AsapInv

\* Every step of a policy and of the pipeline preserves it.
LEMMA PlayersKeep == ASSUME PausesAreShort, PlayingInv, PlayersNext PROVE PlayingInv'
<1>1. ASSUME NEW cs \in CommandLists, PolicyStep(cs) PROVE PlayingInv'
  <2>1. player' = After(cs) /\ motion' = motion
    BY <1>1 DEF PolicyStep
  <2>2. motion \in Motions /\ motion.kind \in Kinds
    BY MotionsAssumption DEF PlayingInv
  <2>3. PlayerInv(motion, After(cs))
    <3>1. CASE motion.kind = "beyondmimic"
      BY <2>2, <3>1, BeyondMimicStepKeeps DEF After, PlayingInv
    <3>2. CASE motion.kind = "asap"
      BY <2>2, <3>2, AsapStepKeeps DEF After, PlayingInv
    <3>3. CASE motion.kind = "tracker"
      BY <2>2, <3>3, TrackerStepKeeps DEF After, PlayingInv
    <3> QED
      BY <2>2, <3>1, <3>2, <3>3 DEF Kinds
  <2> QED
    BY <2>1, <2>2, <2>3 DEF PlayingInv
<1>2. CASE SafeWindow
  <2>1. PICK w \in Windows : Ordered(InWindow(motion, player, w))
    BY <1>2 DEF SafeWindow
  <2>2. motion' = motion /\ player' = InWindow(motion, player, w) /\ motion.kind = "beyondmimic"
    BY <2>1 DEF Ordered
  <2> QED
    BY <2>2, WindowKeeps DEF PlayingInv
<1>3. CASE PhaseSeek
  <2>1. PICK f \in 0 .. LastFrame(motion) : Ordered(Sought(motion, player, f * TicksPerFrame))
    BY <1>3 DEF PhaseSeek
  <2>2. /\ motion' = motion /\ player' = Sought(motion, player, f * TicksPerFrame)
        /\ motion.kind = "beyondmimic"
    BY <2>1 DEF Ordered
  <2>3. f * TicksPerFrame \in Nat
    BY FrameOfMultiple
  <2> QED
    BY <2>2, <2>3, SeekKeeps DEF PlayingInv
<1>4. CASE EnterAgain
  <2>1. motion' = motion /\ player' = Entered(motion, player) /\ motion.kind = "beyondmimic"
    BY <1>4 DEF EnterAgain, Ordered
  <2> QED
    BY <2>1, EntryKeeps DEF PlayingInv
<1> QED
  BY <1>1, <1>2, <1>3, <1>4 DEF PlayersNext

\* What it says of a motion that is called done.
LEMMA PlayingEnds == PlayingInv => DoneOnlyAtTheEnd
<1> SUFFICES ASSUME PlayingInv, player.done PROVE DoneOnlyAtTheEnd
  BY DEF DoneOnlyAtTheEnd
<1>1. motion \in Motions /\ PlayerInv(motion, player)
  BY DEF PlayingInv
<1>2. motion.kind = "tracker" => Frame(player.clock) = LastFrame(motion)
  <2> SUFFICES ASSUME motion.kind = "tracker" PROVE Frame(player.clock) = LastFrame(motion)
    OBVIOUS
  <2>1. player.clock = LastFrame(motion) * TicksPerFrame
    BY <1>1 DEF PlayerInv, TrackerInv
  <2>2. LastFrame(motion) \in Nat
    BY <1>1, MotionsAssumption, EmptySeq DEF LastFrame
  <2> QED
    BY <2>1, <2>2, FrameOfMultiple
<1>3. motion.kind = "asap" => player.clock >= motion.max
  BY <1>1 DEF PlayerInv, AsapInv
<1>4. motion.kind = "beyondmimic" =>
        IF player.max > 0 THEN player.clock >= player.max ELSE AtRest(motion, player.clock)
  <2>1. player.max \in Int
    BY <1>1 DEF PlayerInv, Typed, Player
  <2> QED
    BY <1>1, <2>1 DEF PlayerInv, BeyondMimicInv
<1> QED
  BY <1>2, <1>3, <1>4 DEF DoneOnlyAtTheEnd

\* A motion is called done at its end: for every motion and speed, every SAFE
\* window and whatever order of fades, resets, seeks and entries, if, where the
\* end is found by watching the reference, no pause of the reference is as long
\* as the watch waits for (the length motion_length_stable_steps is chosen by).
THEOREM MotionsEndAtTheirEnd ==
  ASSUME PausesAreShort PROVE Spec => []DoneOnlyAtTheEnd
<1>1. Init => PlayingInv
  BY InitPlaying DEF Init
<1>2. PlayingInv /\ [Next]_vars => PlayingInv'
  <2> SUFFICES ASSUME PlayingInv, [Next]_vars PROVE PlayingInv'
    OBVIOUS
  <2>1. CASE UNCHANGED playerVars
    BY <2>1 DEF playerVars, PlayingInv
  <2>2. CASE PlayersNext
    BY <2>2, PlayersKeep
  <2> QED
    BY <2>1, <2>2 DEF Next, vars
<1>3. PlayingInv => DoneOnlyAtTheEnd
  BY PlayingEnds
<1> QED
  BY <1>1, <1>2, <1>3, PTL DEF Spec

-----------------------------------------------------------------------------
(***************************************************************************)
(* The motion library.                                                     *)
(***************************************************************************)
\* Where a loader holds lock_motion_load.
Inside == {"load", "name", "rewind", "offset"}
PipelinePlaces ==
  {"data", "read_give", "give", "targets", "read_advance", "advance", "write",
   "offset", "commands", "fading"}

\* The library holds what the loader inside was given for the id it is about to
\* name, and outside the lock, unless a load left it torn, for the named one.
LoaderInv ==
  /\ motionId \in Ids /\ content \in Library \cup {Torn}
  /\ lock \in Loads \cup {Free}
  /\ loader \in [Loads -> [at : {"none", "start", "ended"} \cup Inside, id : Ids]]
  /\ \A l \in Loads : loader[l].at \in Inside <=> lock = l
  /\ \A l \in Loads : loader[l].at = "load" => content = Torn
  /\ \A l \in Loads : loader[l].at = "name" => content \in MayLoad(loader[l].id)
  /\ \A l \in Loads :
       loader[l].at \in {"rewind", "offset"} =>
         content \in MayLoad(loader[l].id) /\ motionId = loader[l].id
  /\ lock = Free /\ content # Torn => content \in MayLoad(motionId)

\* Speeds are numbers and the one that is played is not negative.
SpeedInv ==
  /\ ratio \in Nat
  /\ fade \in Seq(Int)
  /\ chain \in [Fades -> [at : {"none", "first", "write", "timer", "fired", "ended"}, speed : Int]]

\* The times that are compared: held is one while the pipeline adds to the time.
TimeInv ==
  /\ motionTime \in 0..MaxTime
  /\ cache = [of |-> cache.of, time |-> cache.time, offset |-> cache.offset]
  /\ cache.time \in 0..MaxTime
  /\ pc = "write" => held \in 0..MaxTime
  /\ pc \in PipelinePlaces

LibraryInv ==
  /\ LoaderInv /\ SpeedInv /\ TimeInv
  /\ source # "library" => ratio = 0
  /\ lookAhead \in BOOLEAN

\* They hold at the start.
LEMMA InitLibrary == ASSUME Init PROVE LibraryInv
BY LibraryAssumption DEF Init, CtrlInit, LibraryInv, LoaderInv, SpeedInv, TimeInv, Inside,
   MayLoad, PipelinePlaces, Loads, Free, NoLoad, NoChain, Torn

\* Asking for a load changes nothing but the thread it starts.
LEMMA LoadKeeps ==
  ASSUME LoaderInv, NEW id \in Ids, LoadMotion(id), UNCHANGED <<motionId, content, lock>>
  PROVE  LoaderInv'
<1>1. CASE UNCHANGED loader
  BY <1>1 DEF LoaderInv
<1>2. CASE \E l \in Loads : loader[l].at = "none" /\ Started(l, id)
  BY <1>2 DEF LoaderInv, Started, Inside
<1> QED
  BY <1>1, <1>2 DEF LoadMotion

\* A loader goes through the lock alone, and leaves the library named or torn.
LEMMA LoaderKeeps ==
  ASSUME LoaderInv, NEW l \in Loads, LoaderTurn(l) PROVE LoaderInv'
<1> USE DEF LoaderInv, Inside, At, Ends, Loads, Free
<1>0. 0 \in Ids /\ \A id \in Ids : MayLoad(id) \subseteq Library
  BY LibraryAssumption DEF MayLoad
<1>1. CASE TakeLock(l)
  BY <1>1 DEF TakeLock
<1>2. CASE Loaded(l)
  BY <1>0, <1>2 DEF Loaded
<1>6. CASE LoadFails(l)
  <2>1. content = Torn
    BY <1>6 DEF LoadFails
  <2> QED
    BY <1>0, <1>6, <2>1 DEF LoadFails
<1>3. CASE Named(l)
  BY <1>3 DEF Named
<1>4. CASE Rewound(l)
  BY <1>4 DEF Rewound
<1>5. CASE Placed(l)
  BY <1>0, <1>5 DEF Placed
<1> QED
  BY <1>1, <1>2, <1>3, <1>4, <1>5, <1>6 DEF LoaderTurn

\* A fade starts along a list of speeds ...
LEMMA AlongKeeps ==
  ASSUME SpeedInv, NEW steps \in Seq(Int), FadeAlong(steps), UNCHANGED ratio
  PROVE  SpeedInv'
BY DEF SpeedInv, FadeAlong

\* ... and the lists of the fades are that.
LEMMA StepsAreSpeeds ==
  ASSUME SpeedInv, NEW steps \in Rising \cup Falling PROVE steps \in Seq(Int)
<1>1. ratio \in Int /\ FullSpeed \in Int
  BY LibraryAssumption DEF SpeedInv
<1>2. ASSUME NEW a \in Int, NEW b \in Int
      PROVE  UpFrom(a, b) \in Seq(Int) /\ DownFrom(a, b) \in Seq(Int)
  BY DEF UpFrom, DownFrom
<1>3. /\ FullSpeed + 0 \in Int /\ FullSpeed + 1 \in Int
      /\ 0 - 0 \in Int /\ 0 - 1 \in Int
  BY <1>1
<1>4. CASE steps \in Rising
  BY <1>1, <1>2, <1>3, <1>4, Zenon DEF Rising
<1>5. CASE steps \in Falling
  BY <1>1, <1>2, <1>3, <1>5, Zenon DEF Falling
<1> QED
  BY <1>4, <1>5

\* A link of a chain takes a speed of the list, or writes the one it took.
LEMMA FadeKeeps ==
  ASSUME SpeedInv, NEW c \in Fades, FadeTurn(c) PROVE SpeedInv'
<1>1. ASSUME NEW here, NEW there \in {"write", "fired"}, NextSpeed(c, here, there)
      PROVE  SpeedInv'
  <2>1. CASE fade = <<>>
    BY <1>1, <2>1 DEF NextSpeed, SpeedInv
  <2>2. CASE fade # <<>>
    <3>1. Head(fade) \in Int /\ Tail(fade) \in Seq(Int)
      BY <2>2 DEF SpeedInv
    <3>2. /\ chain' = [chain EXCEPT ![c] = [at |-> there, speed |-> Head(fade)]]
          /\ fade' = Tail(fade) /\ ratio' = ratio
      BY <1>1, <2>2 DEF NextSpeed
    <3> QED
      BY <3>1, <3>2 DEF SpeedInv
  <2> QED
    BY <2>1, <2>2
<1>2. ASSUME NEW here, ApplySpeed(c, here) PROVE SpeedInv'
  BY <1>2 DEF ApplySpeed, SpeedInv, AtLeastZero
<1> QED
  BY <1>1, <1>2 DEF FadeTurn, FirstLink, TimerFires

\* What the pipeline's own steps, its commands apart, do to the times.
LEMMA PipelineKeepsTime ==
  ASSUME LibraryInv, PipelineStep
  PROVE  TimeInv' /\ UNCHANGED <<motionId, ratio, content, lock, loader, fade, chain>>
<1>1. UNCHANGED <<motionId, ratio, content, lock, loader, fade, chain>>
  BY DEF PipelineStep, GetData, GiveFrame, FutureTargets, GetMotion, ReadLibrary, ReadTime,
     WriteTime, EndReset, Faded, StepOver
<1> USE DEF LibraryInv, TimeInv, PipelinePlaces, Goto, Reading
<1>2. ratio \in Nat /\ MaxTime \in Nat
  BY LibraryAssumption DEF SpeedInv
<1>3. ASSUME NEW there \in {"give", "advance"}, GetMotion(there) PROVE TimeInv'
  BY <1>3 DEF GetMotion
<1>4. ASSUME NEW there \in {"give", "advance"}, ReadLibrary(there) PROVE TimeInv'
  BY <1>4 DEF ReadLibrary
<1>5. TimeInv'
  <2>1. CASE GetData /\ lookAhead
    BY <2>1 DEF GetData
  <2>2. CASE GetData /\ ~lookAhead
    BY <1>3, <2>2 DEF GetData
  <2>3. CASE ReadTime
    BY <1>2, <2>3 DEF ReadTime
  <2>4. CASE GiveFrame \/ WriteTime \/ EndReset \/ Faded \/ StepOver
    BY <2>4 DEF GiveFrame, WriteTime, EndReset, Faded, StepOver
  <2> QED
    BY <1>3, <1>4, <2>1, <2>2, <2>3, <2>4 DEF PipelineStep, FutureTargets
<1> QED
  BY <1>1, <1>5

\* Every step keeps all of it.
LEMMA NextLibrary ==
  ASSUME LibraryInv, [Next]_vars PROVE LibraryInv'
<1> USE DEF LibraryInv
<1>1. CASE UNCHANGED <<source, ctrlVars>>
  BY <1>1 DEF LoaderInv, SpeedInv, TimeInv, ctrlVars, fieldVars
<1>2. CASE source = "library" /\ CtrlNext /\ UNCHANGED <<source, lookAhead>>
  <2>1. CASE SwitchMotion
    <3>1. PICK id \in Ids : LoadMotion(id)
      BY <2>1 DEF SwitchMotion
    <3> QED
      BY <1>2, <2>1, <3>1, LoadKeeps DEF SwitchMotion, SpeedInv, TimeInv
  <2>2. CASE \E l \in Loads : LoaderTurn(l)
    <3>1. PICK l \in Loads : LoaderTurn(l)
      BY <2>2
    <3>2. motionTime' \in {0, motionTime}
      BY <3>1 DEF LoaderTurn, TakeLock, Loaded, LoadFails, Named, Rewound, Placed
    <3>3. LoaderInv'
      BY <3>1, LoaderKeeps
    <3>4. UNCHANGED <<ratio, cache, fade, chain, pc, held>>
      BY <3>1 DEF LoaderTurn
    <3>5. SpeedInv' /\ TimeInv'
      BY <3>2, <3>4, LibraryAssumption DEF SpeedInv, TimeInv
    <3> QED
      BY <1>2, <3>3, <3>4, <3>5
  <2>3. CASE \E c \in Fades : FadeTurn(c)
    BY <1>2, <2>3, FadeKeeps DEF FadeTurn, LoaderInv, TimeInv
  <2>4. CASE Obey
    <3>0. pc = "commands" /\ UNCHANGED <<motionId, ratio, content, lock, cache>>
      BY <2>4 DEF Obey
    <3>1. CASE /\ FadeIn \/ FadeOut
               /\ pc' = "fading" /\ UNCHANGED <<loader, motionTime, motionOffset, held>>
      <4>1. PICK steps \in Rising \cup Falling : FadeAlong(steps)
        BY <3>1 DEF FadeIn, FadeOut
      <4>2. steps \in Seq(Int)
        BY StepsAreSpeeds
      <4> QED
        BY <1>2, <3>0, <3>1, <4>1, <4>2, AlongKeeps DEF LoaderInv, TimeInv, PipelinePlaces
    <3>2. CASE BeginReset /\ UNCHANGED <<loader, fade, chain, motionOffset>>
      BY <1>2, <3>0, <3>2, LibraryAssumption
      DEF BeginReset, LoaderInv, SpeedInv, TimeInv, PipelinePlaces
    <3>3. CASE /\ \E id \in Ids : LoadMotion(id)
               /\ UNCHANGED <<fade, chain, pc, motionTime, motionOffset, held>>
      BY <1>2, <3>0, <3>3, LoadKeeps DEF SpeedInv, TimeInv
    <3> QED
      BY <2>4, <3>1, <3>2, <3>3 DEF Obey
  <2>5. CASE PipelineStep
    BY <1>2, <2>5, PipelineKeepsTime DEF LoaderInv, SpeedInv
  <2> QED
    BY <1>2, <2>1, <2>2, <2>3, <2>4, <2>5 DEF CtrlNext
<1> QED
  BY <1>1, <1>2 DEF Next, vars, CtrlNext

-----------------------------------------------------------------------------
\* What ServesTheLoadedMotion waits for: nothing loads, the library is whole, the
\* motion plays, and the pipeline is not in the middle of a reset; and what may
\* happen in this calm to what the pipeline reads.
Calm == Loading = {} /\ content # Torn /\ ratio > 0 /\ pc # "offset"
CalmTurn ==
  \/ UNCHANGED <<pc, cache, frame, motionTime, held>>
  \/ pc = "commands" /\ pc' = "fading" /\ UNCHANGED <<cache, frame, motionTime, held>>
  \/ PipelineStep

\* In it the library holds the named motion and the lock is free, so that only the
\* pipeline moves what it reads.
LEMMA CalmSteps ==
  ASSUME LibraryInv, [Next]_vars, Calm, Calm'
  PROVE  /\ content \in MayLoad(motionId) /\ lock = Free
         /\ UNCHANGED <<motionId, content, lookAhead, source>> /\ CalmTurn
<1> USE DEF LibraryInv
<1>0. source = "library" /\ ratio \in Nat
  BY DEF Calm, SpeedInv
<1>1. \A l \in Loads : loader[l].at \in {"none", "ended"} /\ loader'[l].at \in {"none", "ended"}
  BY DEF Calm, Loading
<1>2. content \in MayLoad(motionId) /\ lock = Free
  BY <1>1 DEF LoaderInv, Inside, Calm
<1>3. CASE UNCHANGED vars
  BY <1>2, <1>3 DEF vars, ctrlVars, fieldVars, CalmTurn
<1>4. CASE CtrlNext /\ UNCHANGED <<source, lookAhead>>
  <2>1. CASE SwitchMotion
    BY <1>2, <1>4, <2>1 DEF SwitchMotion, CalmTurn
  <2>2. ASSUME NEW l \in Loads, LoaderTurn(l) PROVE FALSE
    BY <1>1, <2>2 DEF LoaderTurn, TakeLock, Loaded, LoadFails, Named, Rewound, Placed, At, Ends, LoaderInv
  <2>3. CASE \E c \in Fades : FadeTurn(c)
    BY <1>2, <1>4, <2>3 DEF FadeTurn, CalmTurn
  <2>4. CASE Obey
    <3>1. pc' # "offset"
      BY DEF Calm
    <3> QED
      BY <1>2, <1>4, <2>4, <3>1 DEF Obey, BeginReset, CalmTurn
  <2>5. CASE PipelineStep
    BY <1>2, <1>4, <2>5, PipelineKeepsTime DEF CalmTurn
  <2> QED
    BY <1>4, <2>1, <2>2, <2>3, <2>4, <2>5 DEF CtrlNext
<1> QED
  BY <1>0, <1>3, <1>4 DEF Next, CtrlNext

\* The cache holds a frame of the motion.
Current == cache.of = content
\* Or the pipeline is on its way: it looks at the cache in this step, or found it
\* valid and moves the time on from the cache's.
Later ==
  \/ Current
  \/ pc \in {"data", "targets", "read_give", "read_advance"}
  \/ pc \in {"give", "advance"} /\ cache.time = motionTime /\ motionTime < MaxTime
  \/ pc = "write" /\ held > cache.time
  \/ pc \in {"commands", "fading"} /\ motionTime > cache.time
\* The next look at the cache finds another time, and the library is read.
Due ==
  \/ Current
  \/ pc \in {"data", "targets"} /\ motionTime > cache.time
  \/ pc \in {"read_give", "read_advance"}
\* The policy has a frame of the motion, or gets one in this step.
Given ==
  /\ Current
  /\ \/ frame = content
     \/ pc = "data"
     \/ pc \in {"read_give", "give"} /\ ~lookAhead
Served == Current /\ frame = content

\* Each of them lasts, and the end of a step leads to the next: a step that moves
\* the time makes the look at the cache miss, the miss reads the library, and the
\* policy is given what was read.
LEMMA CalmGoes ==
  ASSUME LibraryInv, [Next]_vars, Calm, Calm'
  PROVE  /\ Later => (Later \/ Due)'
         /\ StepOver => Later'
         /\ Later /\ StepOver => Due'
         /\ Due => Due'
         /\ Due /\ StepOver => Current'
         /\ Current => Current'
         /\ Current /\ StepOver => Given'
         /\ Given => Given'
         /\ Given /\ StepOver => Served'
         /\ Served => Served'
<1> USE DEF Later, Due, Current, Given, Served
<1>0. /\ lock = Free
      /\ UNCHANGED <<content, lookAhead>> /\ CalmTurn
  BY CalmSteps
<1>1. /\ ratio \in Nat /\ ratio > 0 /\ MaxTime \in Nat
      /\ motionTime \in 0..MaxTime /\ cache.time \in 0..MaxTime
      /\ cache = [of |-> cache.of, time |-> cache.time, offset |-> cache.offset]
      /\ pc = "write" => held \in 0..MaxTime
  BY LibraryAssumption DEF LibraryInv, SpeedInv, TimeInv, Calm
<1>2. lookAhead \in BOOLEAN /\ lookAhead' = lookAhead
  BY <1>0 DEF LibraryInv
<1>3. CASE UNCHANGED <<pc, cache, frame, motionTime, held>>
  BY <1>0, <1>2, <1>3 DEF StepOver, Goto
<1>4. CASE pc = "commands" /\ pc' = "fading" /\ UNCHANGED <<cache, frame, motionTime, held>>
  BY <1>0, <1>4 DEF StepOver, Goto
<1>5. ASSUME NEW there \in {"give", "advance"}, GetMotion(there),
             pc = IF there = "give" THEN "data" ELSE "targets",
             there = "give" => ~lookAhead
      PROVE  /\ Later' /\ (Due => Due') /\ (Current => Current')
             /\ (Given => Given') /\ (Served => Served') /\ ~StepOver
  <2>0. UNCHANGED <<motionTime, held, frame>> /\ cache'.of = cache.of /\ ~StepOver
    BY <1>1, <1>5 DEF GetMotion, StepOver, Goto
  <2>1. CASE pc' = there /\ cache' = cache /\ CacheHit
    BY <1>0, <1>1, <1>2, <1>5, <2>0, <2>1 DEF CacheHit, SameTime
  <2>2. CASE pc' = Reading(there)
    BY <1>0, <1>1, <1>2, <1>5, <2>0, <2>2 DEF Reading
  <2> QED
    BY <1>0, <1>5, <2>1, <2>2 DEF GetMotion
<1>6. ASSUME NEW there \in {"give", "advance"}, ReadLibrary(there)
      PROVE  /\ Later' /\ (Due => Due') /\ (Current => Current')
             /\ (Given => Given') /\ (Served => Served') /\ ~StepOver
  BY <1>0, <1>1, <1>6 DEF ReadLibrary, Reading, Goto, StepOver
<1>7. CASE GetData /\ lookAhead
  <2>1. /\ pc = "data" /\ pc' = "targets" /\ frame' = cache.of
        /\ UNCHANGED <<cache, motionTime, held>> /\ ~StepOver
    BY <1>7 DEF GetData, Goto, StepOver
  <2>2. Later' /\ (Due => Due') /\ (Current => Current')
    BY <1>0, <1>1, <2>1
  <2>3. (Given => Given') /\ (Served => Served')
    BY <1>0, <2>1
  <2> QED
    BY <2>1, <2>2, <2>3
<1>8. CASE GetData /\ ~lookAhead
  BY <1>5, <1>8 DEF GetData
<1>9. CASE FutureTargets
  BY <1>5, <1>9 DEF FutureTargets
<1>10. CASE GiveFrame
  BY <1>0, <1>1, <1>10 DEF GiveFrame, Goto, StepOver
<1>11. CASE ReadTime
  BY <1>0, <1>1, <1>11 DEF ReadTime, Goto, StepOver
<1>12. CASE WriteTime
  BY <1>0, <1>1, <1>12 DEF WriteTime, Goto, StepOver
<1>13. CASE EndReset
  BY <1>13 DEF EndReset, Goto, Calm
<1>14. CASE Faded
  BY <1>0, <1>1, <1>14 DEF Faded, Goto, StepOver
<1>15. CASE StepOver
  BY <1>0, <1>1, <1>15 DEF StepOver, Goto
<1> QED
  BY <1>0, <1>3, <1>4, <1>6, <1>7, <1>8, <1>9, <1>10, <1>11, <1>12, <1>13, <1>14, <1>15
  DEF CalmTurn, PipelineStep

-----------------------------------------------------------------------------
\* ENABLED of the pipeline's fair steps, where its thread stands at them.
StepsAreTaken ==
  /\ source = "library" /\ pc \notin {"commands", "fading"} => ENABLED <<LibraryStep>>_vars
  /\ source = "library" /\ pc = "commands" => ENABLED <<LibraryStepOver>>_vars
\* A call of _fade_step_apply comes back.
FadesReturn == []<>(pc # "fading")

\* How far the pipeline is from the commands of its step.
Togo ==
  CASE pc = "data" -> 5
    [] pc \in {"read_give", "targets"} -> 4
    [] pc \in {"give", "read_advance"} -> 3
    [] pc = "advance" -> 2
    [] pc \in {"write", "offset"} -> 1
    [] pc = "commands" -> 0
    [] OTHER -> 6
TogoIs(n) == source = "library" /\ Togo = n

\* Only the pipeline changes that, and never to more before it is 0.
LEMMA PipelineGoes ==
  ASSUME LibraryInv, [Next]_vars, NEW n \in 1..6, TogoIs(n)
  PROVE  /\ (\E k \in 0..n : TogoIs(k))'
         /\ n < 6 /\ LibraryStep => (\E k \in 0..(n - 1) : TogoIs(k))'
         /\ n = 6 => (TogoIs(6) \/ TogoIs(0))'
<1> USE DEF TogoIs, Togo
<1>0. source = "library" /\ source' = "library" /\ pc \in PipelinePlaces
  BY DEF Next, vars, LibraryInv, TimeInv
<1>1. CASE PipelineStep
  <2>1. (\E k \in 0..(n - 1) : TogoIs(k))' /\ (n = 6 => pc' = "commands")
    BY <1>0, <1>1 DEF PipelineStep, GetData, GiveFrame, FutureTargets, GetMotion, ReadLibrary,
       Reading, Goto, ReadTime, WriteTime, EndReset, Faded, StepOver, PipelinePlaces
  <2> QED
    BY <1>0, <2>1
<1>2. CASE ~PipelineStep
  <2>1. pc # "commands" => pc' = pc
    BY <1>2 DEF Next, vars, ctrlVars, fieldVars, CtrlNext, SwitchMotion, LoaderTurn, FadeTurn, Obey
  <2> QED
    BY <1>0, <1>2, <2>1 DEF LibraryStep, PipelinePlaces
<1> QED
  BY <1>1, <1>2

\* The loop goes on: the pipeline gets to the commands of its step, and out of them
\* by the fairness of the step's end.
LEMMA LoopGoesOn ==
  Spec /\ []LibraryInv /\ []StepsAreTaken /\ FadesReturn =>
    [](source = "library" => []<><<LibraryStepOver>>_vars)
<1> DEFINE T(n) == TogoIs(n)
           Loops == source = "library"
           Out == pc # "fading"
<1>1. ASSUME LibraryInv, [Next]_vars
      PROVE  /\ T(1) => (T(1) \/ T(0))'
             /\ T(2) => (T(2) \/ T(1) \/ T(0))'
             /\ T(3) => (T(3) \/ T(2) \/ T(1) \/ T(0))'
             /\ T(4) => (T(4) \/ T(3) \/ T(2) \/ T(1) \/ T(0))'
             /\ T(5) => (T(5) \/ T(4) \/ T(3) \/ T(2) \/ T(1) \/ T(0))'
             /\ T(6) => (T(6) \/ T(0))'
  <2>1. ASSUME NEW n \in 1..6, T(n)
        PROVE  (\E k \in 0..n : T(k))' /\ (n = 6 => (T(6) \/ T(0))')
    BY <1>1, <2>1, PipelineGoes
  <2> HIDE DEF T
  <2> QED
    BY <2>1
<1>2. ASSUME LibraryInv, [Next]_vars, <<LibraryStep>>_vars
      PROVE  /\ T(1) => T(0)'
             /\ T(2) => (T(1) \/ T(0))'
             /\ T(3) => (T(2) \/ T(1) \/ T(0))'
             /\ T(4) => (T(3) \/ T(2) \/ T(1) \/ T(0))'
             /\ T(5) => (T(4) \/ T(3) \/ T(2) \/ T(1) \/ T(0))'
  <2>1. ASSUME NEW n \in 1..5, T(n)
        PROVE  (\E k \in 0..(n - 1) : T(k))'
    BY <1>2, <2>1, PipelineGoes
  <2> HIDE DEF T
  <2> QED
    BY <2>1
<1>3. LibraryInv /\ Loops => T(0) \/ T(1) \/ T(2) \/ T(3) \/ T(4) \/ T(5) \/ T(6)
  BY DEF TogoIs, Togo
<1>4. ASSUME StepsAreTaken
      PROVE  /\ T(1) \/ T(2) \/ T(3) \/ T(4) \/ T(5) => ENABLED <<LibraryStep>>_vars
             /\ T(0) => ENABLED <<LibraryStepOver>>_vars
  BY <1>4 DEF StepsAreTaken, TogoIs, Togo
<1>5. LibraryInv /\ T(6) => ~Out
  BY DEF TogoIs, Togo, LibraryInv, TimeInv, PipelinePlaces
<1>6. [Next]_vars /\ Loops => Loops'
  BY DEF Next, vars
<1> HIDE DEF T, Loops, Out
<1>7. Spec /\ []LibraryInv /\ []StepsAreTaken /\ []<>Out => [](Loops => <>T(0))
  BY <1>1, <1>2, <1>3, <1>4, <1>5, PTL DEF Spec, Fairness
<1>8. Spec /\ []LibraryInv /\ []StepsAreTaken /\ []<>Out =>
        [](Loops => []<><<LibraryStepOver>>_vars)
  BY <1>4, <1>6, <1>7, PTL DEF Spec, Fairness
<1> QED
  BY <1>8 DEF Loops, Out, FadesReturn

\* Once nothing loads any more and the motion plays, the policy is given frames of
\* the motion the library holds, the one that motion_id names if there is one of
\* that number: for every library, speed and number of loads and fades, whatever
\* ids are asked for, with and without look-ahead.  The cache is keyed by time and place,
\* not by the motion; what saves it is that the time moves on.  That the fair
\* steps can be taken and that fades return is assumed here.
THEOREM LoadedMotionIsServed ==
  Spec /\ []StepsAreTaken /\ FadesReturn => ServesTheLoadedMotion
<1>1. Spec => []LibraryInv
  BY InitLibrary, NextLibrary, PTL DEF Spec
<1>2. LibraryInv /\ Calm => source = "library"
  BY DEF LibraryInv, Calm
<1>3. LibraryInv /\ [Next]_vars /\ Calm /\ Calm' /\ <<LibraryStepOver>>_vars =>
        /\ Later' /\ (Later => Due') /\ (Due => Current')
        /\ (Current => Given') /\ (Given => Served')
  BY CalmGoes DEF LibraryStepOver
<1>4. LibraryInv /\ [Next]_vars /\ Calm /\ Calm' =>
        /\ Later => (Later \/ Due)'
        /\ Due => Due'
        /\ Current => Current'
        /\ Given => Given'
        /\ Served => Served'
  BY CalmGoes
<1> DEFINE Good == frame = content /\ (motionId \in Library => frame = motionId)
<1>5. LibraryInv /\ Calm /\ Served => Good
  <2>1. LibraryInv /\ Calm => content \in MayLoad(motionId)
    BY DEF LibraryInv, LoaderInv, Calm, Loading, Inside
  <2> QED
    BY <2>1 DEF Served, MayLoad
<1>6. Spec /\ []StepsAreTaken /\ FadesReturn =>
        [](source = "library" => []<><<LibraryStepOver>>_vars)
  BY <1>1, LoopGoesOn, PTL
<1> HIDE DEF Good
<1>7. Spec /\ []LibraryInv /\ [](source = "library" => []<><<LibraryStepOver>>_vars) =>
        (<>[]Calm => <>[]Good)
  BY <1>2, <1>3, <1>4, <1>5, PTL DEF Spec
<1> QED
  BY <1>1, <1>6, <1>7, PTL DEF ServesTheLoadedMotion, Calm, Good
=============================================================================
