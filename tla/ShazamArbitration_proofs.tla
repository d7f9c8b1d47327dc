---------------------- MODULE ShazamArbitration_proofs ----------------------
(***************************************************************************)
(* TLAPS proofs about ShazamArbitration, for every instance its            *)
(* assumptions allow: the automatic sources never ask for two switches in  *)
(* one step, the detailed arbitration implements MultiPolicyPipeline step  *)
(* by step, whatever the watcher thread does between two accesses of the   *)
(* queue, and the hits are applied in the order of their chunks.           *)
(***************************************************************************)
EXTENDS ShazamArbitration, MultiPolicyPipeline_proofs

-----------------------------------------------------------------------------
(***************************************************************************)
(* The invariant                                                           *)
(***************************************************************************)

\* Where the arbitration is before any source has spoken, and inside the
\* segment time-box.
Early ==
  \/ apc \in {"idle", "drain", "drainPop", "shazam", "popSame", "popOther"}
  \/ apc \in {"drop", "dropPop"} /\ after # "segmentPeek"

InBox ==
  \/ apc \in {"segmentPeek", "segmentPop"}
  \/ apc \in {"drop", "dropPop"} /\ after = "segmentPeek"

Serving ==
  \/ apc \in {"shazam", "popSame", "popOther"}
  \/ apc \in {"drop", "dropPop"} /\ after = "shazam"

Unclaimed == ~applied /\ ~consumed /\ ~looped /\ ~fellBack /\ asks = <<>>

\* What a source may ask for, as MultiPolicyPipeline's Arbitrate states it.
MayAsk(p) ==
  IF fellBack THEN p = Fallback /\ MotionDoneAsks
  ELSE p \in SongPolicies /\ p # current /\ pending = NoPolicy

\* A switch asked for claims the step, and it is the only one; a motion is looped
\* only while no switch claims the step.
ClaimInv ==
  /\ consumed => ~looped /\ \E p \in Policy : asks = <<p>> /\ MayAsk(p)
  /\ ~consumed => asks = <<>> /\ ~fellBack
  /\ looped => /\ current \in Mimic
               /\ SongPolicies # {}
               /\ applied \/ ~segDue
  /\ applied /\ ~looped /\ ~consumed => current \notin done /\ SongPolicies # {}

\* What each stage of the arbitration may assume.
StageInv ==
  /\ apc = "idle" <=> pc # "arbitrate"
  /\ after \in {"shazam", "drain", "segmentPeek"}
  /\ Early \/ InBox => Unclaimed
  /\ Serving \/ InBox => pending = NoPolicy
  /\ apc = "motion" /\ looped => applied
  /\ apc \in {"segment", "end"} \/ InBox =>
       (MotionDoneAsks /\ ~consumed /\ ~looped => applied)
  /\ apc = "popSame" => current \in Mimic
  /\ apc = "popOther" => head.pid \in SongPolicies /\ head.pid # current

\* Hits of an existing policy are of one the music may ask for.
OfSong(q) == \A i \in 1 .. Len(q) : q[i].pid \in Policy => q[i].pid \in SongPolicies

HitsInv ==
  /\ queue \in Seq(Hit)
  /\ last \in Hit \cup {NoHit}
  /\ OfSong(queue)
  /\ last # NoHit => last.pid \in SongPolicies

ArbInv == ClaimInv /\ StageInv /\ HitsInv

-----------------------------------------------------------------------------
(***************************************************************************)
(* The queue                                                               *)
(***************************************************************************)

\* r is what is left of q when some of its first hits are gone, ages apart.
Suffix(r, q) ==
  \E k \in 0 .. Len(q) :
    /\ Len(r) = Len(q) - k
    /\ \A i \in 1 .. Len(r) : r[i].pid = q[i + k].pid /\ r[i].idx = q[i + k].idx

\* NoHit is no hit: its index is no chunk's.
LEMMA NoHitFacts == NoHit \notin Hit /\ NoHit.age = "old"
BY ShazamAssumption DEF ShazamAssumption, NoHit, Hit

\* Dropping the head leaves a suffix.
LEMMA TailSuffix ==
  ASSUME NEW q \in Seq(Hit), q # <<>>
  PROVE  Suffix(Tail(q), q) /\ Tail(q) \in Seq(Hit)
<1>1. /\ Len(Tail(q)) = Len(q) - 1 /\ 1 \in 0 .. Len(q) /\ Tail(q) \in Seq(Hit)
      /\ \A i \in 1 .. Len(Tail(q)) : Tail(q)[i] = q[i + 1]
  OBVIOUS
<1> QED
  BY <1>1 DEF Suffix

\* Taking the head, whatever was looked at before, leaves a suffix; what is taken
\* is the head.
LEMMA PopFacts ==
  ASSUME NEW q \in Seq(Hit)
  PROVE  /\ AfterPop(q) \in Seq(Hit)
         /\ Suffix(AfterPop(q), q)
         /\ Peek(q) # NoHit =>
              /\ Len(q) > 0 /\ Peek(q) = q[1] /\ Peek(q) \in Hit
              /\ AfterPop(q) = Tail(q)
<1>1. Suffix(q, q)
  BY DEF Suffix
<1>2. q # <<>> => Suffix(Tail(q), q) /\ Tail(q) \in Seq(Hit)
  BY TailSuffix
<1>3. Peek(q) # NoHit => q # <<>> /\ Peek(q) = q[1]
  BY DEF Peek
<1>4. Peek(q) # NoHit => Len(q) > 0 /\ q[1] \in Hit
  BY <1>3
<1> QED
  BY <1>1, <1>2, <1>3, <1>4 DEF AfterPop

\* A hit that grows older stays where it is.
LEMMA GrowFacts ==
  ASSUME queue \in Seq(Hit), NEW from, NEW to \in Age, Grow(from, to)
  PROVE  queue' \in Seq(Hit) /\ Suffix(queue', queue)
<1>1. PICK i \in 1 .. Len(queue) : queue' = [queue EXCEPT ![i].age = to]
  BY DEF Grow
<1>2. queue[i] \in Hit
  BY <1>1
<1>3. /\ [queue[i] EXCEPT !.age = to] \in Hit
      /\ [queue[i] EXCEPT !.age = to].pid = queue[i].pid
      /\ [queue[i] EXCEPT !.age = to].idx = queue[i].idx
  BY <1>2 DEF Hit
<1>4. queue' \in Seq(Hit) /\ Len(queue') = Len(queue)
  BY <1>1, <1>3
<1>5. \A j \in 1 .. Len(queue') : queue'[j].pid = queue[j].pid /\ queue'[j].idx = queue[j].idx
  BY <1>1, <1>3, <1>4
<1>6. \A j \in 1 .. Len(queue') : queue'[j].pid = queue[j + 0].pid /\ queue'[j].idx = queue[j + 0].idx
  BY <1>5
<1> QED
  BY <1>4, <1>6 DEF Suffix

\* A suffix of song hits is of song hits.
LEMMA SuffixOfSong ==
  ASSUME NEW q \in Seq(Hit), NEW r \in Seq(Hit), Suffix(r, q), OfSong(q)
  PROVE  OfSong(r)
BY DEF Suffix, OfSong

\* What the arbitration does to the queue: nothing, or one taking; the hit it
\* applies is one it takes.
LEMMA ArbitrationQueue ==
  ASSUME ArbitrationStep
  PROVE  /\ seen' = seen
         /\ \/ UNCHANGED <<queue, last>>
            \/ queue' = AfterPop(queue) /\ (last' = last \/ (Popped /\ last' = Peek(queue)))
<1> USE DEF At, songVars
<1>1. CASE DropPeek \/ DropPop \/ DrainPeek \/ DrainPop \/ ShazamPeek
  BY <1>1 DEF DropPeek, DropPop, DrainPeek, DrainPop, ShazamPeek
<1>2. CASE PopSame
  BY <1>2 DEF PopSame, Apply
<1>3. CASE PopOther
  BY <1>3 DEF PopOther, Apply
<1>4. CASE MotionNotDone \/ MotionLoops \/ MotionFallsBack
  BY <1>4 DEF MotionNotDone, MotionLoops, MotionFallsBack, MotionStep
<1>5. CASE SegmentCheck \/ SegmentPeek
  BY <1>5 DEF SegmentCheck, SegmentPeek
<1>6. CASE SegmentPop
  BY <1>6 DEF SegmentPop, Apply
<1>7. CASE ArbitrationEnds
  BY <1>7 DEF ArbitrationEnds, watchVars
<1> QED
  BY <1>1, <1>2, <1>3, <1>4, <1>5, <1>6, <1>7 DEF ArbitrationStep

\* The hits are hits, and of policies the music may ask for.
LEMMA NextHits == HitsInv /\ [ShazamNext]_allVars => HitsInv'
<1> SUFFICES ASSUME HitsInv, [ShazamNext]_allVars PROVE HitsInv'
  OBVIOUS
<1> USE DEF HitsInv
<1>s. ASSUME queue' \in Seq(Hit), Suffix(queue', queue) PROVE OfSong(queue')
  BY <1>s, SuffixOfSong
<1>o. OfSong(queue)' <=> OfSong(queue')
  BY DEF OfSong, Policy
<1>e. OfSong(<<>>) /\ <<>> \in Seq(Hit)
  BY DEF OfSong
<1>1. CASE ArbitrationStep
  <2>1. CASE UNCHANGED <<queue, last>>
    BY <2>1, <1>o DEF NoHit, Hit
  <2>2. CASE queue' = AfterPop(queue)
    <3>1. queue' \in Seq(Hit) /\ OfSong(queue')
      BY <1>s, <2>2, PopFacts
    <3>2. CASE last' = last
      BY <1>o, <3>1, <3>2
    <3>3. CASE Popped /\ last' = Peek(queue)
      <4>1. last' \in Hit /\ last' = queue[1] /\ Len(queue) > 0 /\ last'.pid \in Policy
        BY <3>3, PopFacts DEF Popped
      <4>2. last'.pid \in SongPolicies
        BY <4>1 DEF OfSong
      <4> QED
        BY <1>o, <3>1, <4>1, <4>2
    <3> QED
      BY <1>1, <2>2, <3>2, <3>3, ArbitrationQueue
  <2> QED
    BY <1>1, <2>1, <2>2, ArbitrationQueue
<1>2. CASE Watcher
  <2>1. last' = last
    BY <1>2 DEF Watcher, arbVars, songVars
  <2>2. PICK i \in Chunks : \/ \E s \in Songs : \E pid \in RuleFor[s] : HandleChunk(i, s, pid)
                            \/ IgnoreChunk(i)
    BY <1>2 DEF Watcher
  <2>3. CASE IgnoreChunk(i)
    BY <1>o, <2>1, <2>3 DEF IgnoreChunk
  <2>4. ASSUME NEW s \in Songs, NEW pid \in RuleFor[s], HandleChunk(i, s, pid) PROVE HitsInv'
    <3> DEFINE hit  == [pid |-> pid, song |-> s, idx |-> i, age |-> "held"]
               rest == IF Len(queue) = QueueMaxlen THEN Tail(queue) ELSE queue
    <3>1. hit \in Hit /\ (hit.pid \in Policy => hit.pid \in SongPolicies)
      <4>1. pid \in Int
        BY <2>4, ShazamAssumption DEF ShazamAssumption
      <4>2. pid \in Policy => pid \in SongPolicies
        BY <2>4, ArbitrationAssumption DEF ArbitrationAssumption
      <4> QED
        BY <2>2, <4>1, <4>2 DEF Hit, Age
    <3>2. rest \in Seq(Hit) /\ OfSong(rest)
      <4>1. QueueMaxlen > 0
        BY ShazamAssumption DEF ShazamAssumption
      <4>2. Len(queue) = QueueMaxlen =>
              /\ Tail(queue) \in Seq(Hit) /\ Len(Tail(queue)) = Len(queue) - 1
              /\ \A j \in 1 .. Len(Tail(queue)) : Tail(queue)[j] = queue[j + 1]
        BY <4>1
      <4> QED
        BY <4>2 DEF OfSong
    <3>3. queue' = Append(rest, hit)
      BY <2>4 DEF HandleChunk, Appended
    <3> HIDE DEF hit, rest
    <3>4. queue' \in Seq(Hit) /\ OfSong(queue')
      BY <3>1, <3>2, <3>3 DEF OfSong
    <3> QED
      BY <1>o, <2>1, <3>4
  <2> QED
    BY <2>2, <2>3, <2>4
<1>3. CASE QueueClock
  <2>1. last' = last
    BY <1>3 DEF QueueClock, arbVars, songVars
  <2>2. queue' \in Seq(Hit) /\ Suffix(queue', queue)
    BY <1>3, GrowFacts DEF QueueClock, HitReleased, HitGrowsOld, Age
  <2> QED
    BY <1>o, <1>s, <2>1, <2>2
<1>4. CASE LastGrowsOld
  <2>1. last \in Hit /\ queue' = queue /\ last' = [last EXCEPT !.age = "old"]
    BY <1>4, NoHitFacts DEF LastGrowsOld, watchVars
  <2>2. last' \in Hit /\ last'.pid = last.pid
    BY <2>1 DEF Hit, Age
  <2> QED
    BY <1>o, <2>1, <2>2, NoHitFacts
<1>5. ASSUME NEW cs \in CommandLists, ShazamRead(cs) \/ ShazamReborn(cs) PROVE HitsInv'
  BY <1>5, <1>e, <1>o DEF ShazamRead, ShazamReborn, ResetQueue, watchVars, songVars
<1>6. CASE ShazamReset
  BY <1>6, <1>e, <1>o DEF ShazamReset, ResetQueue
<1>7. CASE ShazamStartPostStep \/ ShazamRestOfStep \/ SegmentElapses \/ UNCHANGED allVars
  BY <1>7, <1>o DEF ShazamStartPostStep, ShazamRestOfStep, SegmentElapses, allVars,
     watchVars, arbVars, songVars
<1> QED
  BY <1>1, <1>2, <1>3, <1>4, <1>5, <1>6, <1>7 DEF ShazamNext

-----------------------------------------------------------------------------
(***************************************************************************)
(* The claims and the stages                                               *)
(***************************************************************************)

\* An arbitration step before the last leaves the pipeline alone.
LEMMA AtFacts ==
  ASSUME NEW where, At(where)
  PROVE  /\ pc = "arbitrate" /\ apc = where
         /\ UNCHANGED <<pc, current, done, pending, autoQueued, callback>>
         /\ UNCHANGED vars
BY DEF At, vars, managerVars, stepVars, primeVars

\* Outside the arbitration nothing is claimed, and nothing has to be shown but
\* that this stays so.
LEMMA IdleKept ==
  ASSUME ArbInv, pc # "arbitrate", pc' # "arbitrate", UNCHANGED <<apc, after, stepLocals>>
  PROVE  (ClaimInv /\ StageInv)'
<1>1. apc = "idle" /\ Unclaimed
  BY DEF ArbInv, StageInv, Early
<1>2. apc' = "idle" /\ Unclaimed' /\ after' = after
  BY <1>1 DEF Unclaimed, stepLocals
<1> QED
  BY <1>2 DEF ArbInv, StageInv, ClaimInv, Unclaimed, Early, InBox, Serving

\* A step of the queue, the clock or the segment's clock.
LEMMA PipelineAndLocalsKept ==
  ASSUME ArbInv, UNCHANGED <<pc, current, done, pending, autoQueued, callback>>,
         UNCHANGED <<apc, after, stepLocals>>, segDue' = segDue \/ pc # "arbitrate"
  PROVE  (ClaimInv /\ StageInv)'
<1>1. CASE pc # "arbitrate"
  BY <1>1, IdleKept
<1>2. CASE segDue' = segDue
  BY <1>2 DEF ArbInv, StageInv, ClaimInv, Unclaimed, Early, InBox, Serving, stepLocals,
     MayAsk, MotionDoneAsks, Fallback, Normalised, Policy
<1> QED
  BY <1>1, <1>2

\* The looks and takings that serve no hit.
LEMMA DropKept ==
  ASSUME ArbInv, DropPeek \/ DropPop \/ DrainPeek \/ DrainPop
  PROVE  (ClaimInv /\ StageInv)'
<1> USE DEF GoTo
<1>0. /\ pc = "arbitrate" /\ UNCHANGED <<pc, current, done, pending, autoQueued, callback>>
      /\ UNCHANGED <<segmentVars, after, stepLocals>>
  BY AtFacts DEF DropPeek, DropPop, DrainPeek, DrainPop
<1>1. Unclaimed
  BY DEF ArbInv, StageInv, Early, InBox, DropPeek, DropPop, DrainPeek, DrainPop, At
<1>2. Unclaimed'
  BY <1>0, <1>1 DEF Unclaimed, stepLocals
<1>3. ClaimInv'
  BY <1>2 DEF ClaimInv, Unclaimed
<1>4. \/ apc' \in {"drain", "drainPop"}
      \/ apc' = "motion"
      \/ apc' \in {"drop", "dropPop"} /\ apc \in {"drop", "dropPop"}
      \/ apc' = after /\ apc \in {"drop", "dropPop"}
  BY DEF DropPeek, DropPop, DrainPeek, DrainPop, At
<1>5. /\ after \in {"shazam", "drain", "segmentPeek"}
      /\ Serving \/ InBox => pending = NoPolicy
      /\ InBox => ~MotionDoneAsks
  BY <1>1 DEF ArbInv, StageInv, Unclaimed
<1>6. (MotionDoneAsks)' <=> MotionDoneAsks
  BY <1>0 DEF MotionDoneAsks, Fallback, Normalised, Policy
<1>7. apc' \notin {"idle", "popSame", "popOther", "segment", "end"}
  BY <1>4, <1>5
<1>8. InBox' => InBox
  BY <1>0, <1>4, <1>5 DEF InBox
<1>9. Serving' => Serving
  BY <1>0, <1>4, <1>5 DEF Serving
<1> QED
  BY <1>0, <1>2, <1>3, <1>5, <1>6, <1>7, <1>8, <1>9 DEF StageInv, Unclaimed

\* Step 1, the Shazam queue.
LEMMA ServeKept ==
  ASSUME ArbInv, ShazamPeek \/ PopSame \/ PopOther
  PROVE  (ClaimInv /\ StageInv)'
<1> USE DEF GoTo
<1>0. /\ pc = "arbitrate" /\ UNCHANGED <<pc, current, done, pending, autoQueued, callback>>
      /\ after' = after /\ Unclaimed /\ pending = NoPolicy
      /\ after \in {"shazam", "drain", "segmentPeek"}
  BY AtFacts DEF ArbInv, StageInv, Early, Serving, ShazamPeek, PopSame, PopOther, At
<1>1. CASE ShazamPeek
  <2>1. Unclaimed'
    BY <1>0, <1>1 DEF Unclaimed, ShazamPeek
  <2>2. ClaimInv'
    BY <2>1 DEF ClaimInv, Unclaimed
  <2>3. apc' \in {"motion", "popSame", "popOther"}
    BY <1>1 DEF ShazamPeek
  <2>4. apc' = "popSame" => current \in Mimic
    BY <1>1 DEF ShazamPeek, SameSong
  <2>5. apc' = "popOther" => head'.pid \in SongPolicies /\ head'.pid # current
    <3>1. ASSUME apc' = "popOther"
          PROVE  head' = Peek(queue) /\ head' # NoHit /\ head'.pid \in Policy /\ head'.pid # current
      BY <1>1, <3>1 DEF ShazamPeek
    <3> QED
      BY <3>1, PopFacts DEF ArbInv, HitsInv, OfSong
  <2> QED
    BY <1>0, <2>1, <2>2, <2>3, <2>4, <2>5 DEF StageInv, Unclaimed, Early, InBox, Serving
<1>2. ASSUME Popped PROVE Peek(queue).pid \in SongPolicies
  BY <1>2, PopFacts DEF Popped, ArbInv, HitsInv, OfSong
<1>3. ASSUME apc' = "motion", looped' => applied' PROVE StageInv'
  BY <1>0, <1>3 DEF StageInv, Early, InBox, Serving
<1>4. CASE PopSame
  <2>1. current \in Mimic
    BY <1>4 DEF PopSame, At, ArbInv, StageInv
  <2>2. apc' = "motion" /\ consumed' = consumed /\ asks' = asks /\ fellBack' = fellBack
    BY <1>4 DEF PopSame
  <2>3. CASE Popped
    <3>1. applied' /\ (looped' <=> current \in done) /\ SongPolicies # {}
      BY <1>2, <1>4, <2>3 DEF PopSame
    <3>2. ClaimInv'
      BY <1>0, <2>1, <2>2, <3>1 DEF ClaimInv, Unclaimed
    <3>3. StageInv'
      BY <1>3, <2>2, <3>1
    <3> QED
      BY <3>2, <3>3
  <2>4. CASE ~Popped
    BY <1>0, <1>3, <1>4, <2>2, <2>4 DEF PopSame, ClaimInv, Unclaimed
  <2> QED
    BY <2>3, <2>4
<1>5. CASE PopOther
  <2>1. /\ head.pid \in SongPolicies /\ head.pid # current /\ head.pid \in Policy
    BY <1>5, PipelineAssumption DEF PipelineAssumption, PopOther, At, ArbInv, StageInv
  <2>2. apc' = "motion" /\ looped' = looped /\ fellBack' = fellBack
    BY <1>5 DEF PopOther
  <2>3. CASE Popped
    <3>1. asks' = <<head.pid>> /\ consumed'
      BY <1>0, <1>5, <2>3 DEF PopOther, Unclaimed
    <3> QED
      BY <1>0, <1>3, <2>1, <2>2, <3>1 DEF ClaimInv, Unclaimed, MayAsk
  <2>4. CASE ~Popped
    BY <1>0, <1>3, <1>5, <2>2, <2>4 DEF PopOther, ClaimInv, Unclaimed
  <2> QED
    BY <2>3, <2>4
<1> QED
  BY <1>1, <1>4, <1>5

\* Step 2, the end of the motion.
LEMMA MotionKept ==
  ASSUME ArbInv, MotionNotDone \/ MotionLoops \/ MotionFallsBack
  PROVE  (ClaimInv /\ StageInv)'
<1> USE DEF GoTo
<1>0. /\ pc = "arbitrate" /\ UNCHANGED <<pc, current, done, pending, autoQueued, callback>>
      /\ UNCHANGED <<after, applied>> /\ apc' = "segment"
      /\ ClaimInv /\ after \in {"shazam", "drain", "segmentPeek"}
      /\ looped => applied
  BY AtFacts DEF ArbInv, StageInv, MotionNotDone, MotionLoops, MotionFallsBack, MotionStep, At
<1>1. (MotionDoneAsks' <=> MotionDoneAsks) /\ Fallback' = Fallback
  BY <1>0 DEF MotionDoneAsks, Fallback, Normalised, Policy
<1>s. ASSUME (MotionDoneAsks /\ ~consumed' /\ ~looped') => applied PROVE StageInv'
  BY <1>0, <1>1, <1>s DEF StageInv, Early, InBox, Serving
<1>2. CASE MotionNotDone
  <2>1. /\ UNCHANGED <<consumed, asks, fellBack, looped, segDue>>
        /\ callback => applied \/ consumed
    BY <1>2 DEF MotionNotDone, segmentVars
  <2>2. ClaimInv'
    BY <1>0, <1>1, <2>1 DEF ClaimInv, MayAsk
  <2>3. StageInv'
    BY <1>s, <2>1 DEF MotionDoneAsks
  <2> QED
    BY <2>2, <2>3
<1>3. CASE MotionLoops
  <2>1. /\ UNCHANGED <<consumed, asks, fellBack>> /\ ~consumed /\ ~applied
        /\ looped' /\ ~segDue' /\ current \in Mimic /\ last # NoHit
    BY <1>3 DEF MotionLoops, RestartSegment, SongPlays
  <2>2. SongPolicies # {}
    BY <2>1 DEF ArbInv, HitsInv
  <2>3. ClaimInv'
    BY <1>0, <2>1, <2>2 DEF ClaimInv
  <2>4. StageInv'
    BY <1>s, <2>1
  <2> QED
    BY <2>3, <2>4
<1>4. CASE MotionFallsBack
  <2>1. ~consumed /\ ~applied /\ ~looped /\ callback /\ asks = <<>> /\ ~fellBack
        /\ UNCHANGED <<looped, segDue>>
    BY <1>0, <1>4 DEF MotionFallsBack, ClaimInv, segmentVars
  <2>2. CASE current # Fallback /\ ~autoQueued
    <3>1. fellBack' /\ consumed' /\ asks' = <<Fallback>> /\ MotionDoneAsks
      BY <1>4, <2>1, <2>2 DEF MotionFallsBack, MotionDoneAsks
    <3>2. MayAsk(Fallback)'
      BY <1>1, <3>1 DEF MayAsk
    <3>3. ClaimInv'
      BY <1>0, <2>1, <3>1, <3>2, NormalisedType DEF ClaimInv, MayAsk
    <3>4. StageInv'
      BY <1>s, <3>1
    <3> QED
      BY <3>3, <3>4
  <2>3. CASE ~(current # Fallback /\ ~autoQueued)
    <3>1. UNCHANGED <<fellBack, consumed, asks>> /\ ~MotionDoneAsks
      BY <1>4, <2>3 DEF MotionFallsBack, MotionDoneAsks
    <3>2. ClaimInv'
      BY <1>0, <2>1, <3>1 DEF ClaimInv
    <3>3. StageInv'
      BY <1>s, <3>1
    <3> QED
      BY <3>2, <3>3
  <2> QED
    BY <2>2, <2>3
<1> QED
  BY <1>2, <1>3, <1>4

\* Step 3, the segment time-box.
LEMMA SegmentKept ==
  ASSUME ArbInv, SegmentCheck \/ SegmentPeek \/ SegmentPop
  PROVE  (ClaimInv /\ StageInv)'
<1> USE DEF GoTo
<1>0. /\ pc = "arbitrate" /\ UNCHANGED <<pc, current, done, pending, autoQueued, callback>>
      /\ ClaimInv /\ after \in {"shazam", "drain", "segmentPeek"}
      /\ MotionDoneAsks /\ ~consumed /\ ~looped => applied
  BY AtFacts DEF ArbInv, StageInv, InBox, SegmentCheck, SegmentPeek, SegmentPop, At
<1>1. (MotionDoneAsks' <=> MotionDoneAsks) /\ Fallback' = Fallback
  BY <1>0 DEF MotionDoneAsks, Fallback, Normalised, Policy
<1>e. ASSUME apc' = "end", after' \in {"shazam", "drain", "segmentPeek"},
             MotionDoneAsks /\ ~consumed' /\ ~looped' => applied'
      PROVE  StageInv'
  BY <1>0, <1>1, <1>e DEF StageInv, Early, InBox, Serving
<1>2. CASE SegmentCheck
  <2>1. UNCHANGED <<consumed, asks, fellBack, looped, applied, segDue>> /\ after' = "segmentPeek"
    BY <1>2 DEF SegmentCheck, stepLocals, segmentVars
  <2>2. ClaimInv'
    BY <1>0, <1>1, <2>1 DEF ClaimInv, MayAsk
  <2>3. CASE SegmentOver
    <3>1. apc' = "drop" /\ ~applied /\ ~consumed /\ segDue /\ pending = NoPolicy
      BY <1>2, <2>3 DEF SegmentCheck, SegmentOver
    <3>2. Unclaimed'
      BY <1>0, <2>1, <3>1 DEF ClaimInv, Unclaimed
    <3>3. StageInv'
      BY <1>0, <1>1, <2>1, <3>1, <3>2 DEF StageInv, Early, InBox, Serving, Unclaimed
    <3> QED
      BY <2>2, <3>3
  <2>4. CASE ~SegmentOver
    <3>1. apc' = "end"
      BY <1>2, <2>4 DEF SegmentCheck
    <3> QED
      BY <1>0, <1>e, <2>1, <2>2, <3>1
  <2> QED
    BY <2>3, <2>4
<1>b. ASSUME SegmentPeek \/ SegmentPop PROVE Unclaimed /\ pending = NoPolicy
  BY <1>b DEF SegmentPeek, SegmentPop, At, ArbInv, StageInv, InBox
<1>3. CASE SegmentPeek
  <2>1. UNCHANGED <<consumed, asks, fellBack, looped, applied, segDue, after>>
        /\ apc' \in {"segmentPop", "end"}
    BY <1>3 DEF SegmentPeek, stepLocals, segmentVars
  <2>2. Unclaimed'
    BY <1>3, <1>b, <2>1 DEF Unclaimed
  <2>3. ClaimInv'
    BY <2>2 DEF ClaimInv, Unclaimed
  <2>4. StageInv'
    BY <1>0, <1>1, <1>3, <1>b, <2>1, <2>2 DEF StageInv, Early, InBox, Serving, Unclaimed
  <2> QED
    BY <2>3, <2>4
<1>4. CASE SegmentPop
  <2>1. /\ UNCHANGED <<after, applied, fellBack, looped, segDue>> /\ apc' = "end"
        /\ Unclaimed /\ pending = NoPolicy
    BY <1>4, <1>b DEF SegmentPop
  <2>2. CASE Popped /\ Peek(queue).pid # current
    <3> DEFINE p == Peek(queue).pid
    <3>1. p \in SongPolicies /\ p \in Policy /\ p # current
      BY <2>2, PopFacts DEF Popped, ArbInv, HitsInv, OfSong
    <3>2. asks' = <<p>> /\ consumed'
      BY <1>4, <2>1, <2>2 DEF SegmentPop, Unclaimed
    <3> HIDE DEF p
    <3>3. ClaimInv'
      BY <1>0, <2>1, <3>1, <3>2 DEF ClaimInv, Unclaimed, MayAsk
    <3>4. StageInv'
      BY <1>0, <1>e, <2>1, <3>2
    <3> QED
      BY <3>3, <3>4
  <2>3. CASE ~(Popped /\ Peek(queue).pid # current)
    <3>1. UNCHANGED <<asks, consumed>>
      BY <1>4, <2>3 DEF SegmentPop
    <3>2. ClaimInv'
      BY <2>1, <3>1 DEF ClaimInv, Unclaimed
    <3>3. StageInv'
      BY <1>0, <1>e, <2>1, <3>1
    <3> QED
      BY <3>2, <3>3
  <2> QED
    BY <2>2, <2>3
<1> QED
  BY <1>2, <1>3, <1>4

\* The pipeline's steps outside the arbitration.
LEMMA OutsideKept ==
  ASSUME ArbInv,
         \/ \E cs \in CommandLists : ShazamRead(cs) \/ ShazamReborn(cs)
         \/ ShazamRestOfStep
         \/ ShazamReset
  PROVE  (ClaimInv /\ StageInv)'
<1>1. CASE \E cs \in CommandLists : ShazamRead(cs) \/ ShazamReborn(cs)
  <2>1. pc # "arbitrate" /\ pc' # "arbitrate" /\ UNCHANGED <<apc, after, stepLocals>>
    BY <1>1 DEF ShazamRead, ReadControls, ShazamReborn, SimReborn
  <2> QED
    BY <2>1, IdleKept
<1>2. CASE ShazamReset
  <2>1. pc # "arbitrate" /\ pc' # "arbitrate" /\ UNCHANGED <<apc, after, stepLocals>>
    BY <1>2 DEF ShazamReset, SelfChecked, PrepareReset, Reset, stepVars
  <2> QED
    BY <2>1, IdleKept
<1>3. CASE ShazamRestOfStep
  <2>1. UNCHANGED <<apc, after, stepLocals, segDue>>
    BY <1>3 DEF ShazamRestOfStep, arbVars, segmentVars
  <2>2. CASE DeadlinePasses
    <3>1. UNCHANGED <<pc, current, done, pending, autoQueued, callback>>
      BY <2>2 DEF DeadlinePasses, managerVars, stepVars, primeVars
    <3> QED
      BY <2>1, <3>1, PipelineAndLocalsKept
  <2>3. CASE Dispatch \/ FinishStepActions
    <3>1. pc # "arbitrate" /\ pc' # "arbitrate"
      BY <2>3 DEF Dispatch, DispatchSwitch, DispatchDirect, DispatchToggle, DispatchSafeHere,
         DispatchSafeElsewhere, DispatchOther, Dispatching, FinishStepActions, FinishStep,
         FinishStepHolding, FinishStepLaunching, EndStep
    <3> QED
      BY <2>1, <3>1, IdleKept
  <2> QED
    BY <1>3, <2>2, <2>3 DEF ShazamRestOfStep
<1> QED
  BY <1>1, <1>2, <1>3

\* At the start the arbitration is idle and the queue empty.
LEMMA InitArb == ShazamInit => ArbInv
<1> SUFFICES ASSUME ShazamInit PROVE ArbInv
  OBVIOUS
<1>1. HitsInv
  BY DEF ShazamInit, WatchInit, HitsInv, OfSong
<1>2. apc = "idle" /\ Unclaimed /\ after = "shazam" /\ pc = "begin"
  BY DEF ShazamInit, Init, Unclaimed
<1> QED
  BY <1>1, <1>2 DEF ArbInv, ClaimInv, StageInv, Unclaimed, Early, InBox, Serving

\* Every step keeps the invariant: the watcher and the clocks at any point.
LEMMA NextArb == ArbInv /\ [ShazamNext]_allVars => ArbInv'
<1> SUFFICES ASSUME ArbInv, [ShazamNext]_allVars PROVE (ClaimInv /\ StageInv)'
  BY NextHits DEF ArbInv
<1>1. CASE ArbitrationStep
  <2>1. CASE ArbitrationEnds
    <3>1. Unclaimed' /\ apc' = "idle" /\ pc' = "dispatch" /\ after' = after
      BY <2>1 DEF ArbitrationEnds, StartDispatch, Unclaimed
    <3> QED
      BY <3>1 DEF ArbInv, StageInv, ClaimInv, Unclaimed, Early, InBox, Serving
  <2> QED
    BY <1>1, <2>1, DropKept, ServeKept, MotionKept, SegmentKept DEF ArbitrationStep
<1>2. CASE ShazamStartPostStep
  <2>1. apc = "idle" /\ Unclaimed /\ pc' = "arbitrate" /\ apc' = "drop"
    BY <1>2 DEF ShazamStartPostStep, StartPostStep, ArbInv, StageInv, Early
  <2>2. Unclaimed'
    BY <1>2, <2>1 DEF ShazamStartPostStep, Unclaimed, stepLocals
  <2>3. after' \in {"shazam", "drain"} /\ (after' = "shazam" => pending' = NoPolicy)
    BY <1>2 DEF ShazamStartPostStep
  <2>4. NoPolicy' = NoPolicy
    BY DEF NoPolicy
  <2> QED
    BY <2>1, <2>2, <2>3, <2>4 DEF StageInv, ClaimInv, Unclaimed, Early, InBox, Serving
<1>3. CASE \/ \E cs \in CommandLists : ShazamRead(cs) \/ ShazamReborn(cs)
           \/ ShazamRestOfStep
           \/ ShazamReset
  BY <1>3, OutsideKept
<1>4. CASE Watcher \/ QueueClock \/ LastGrowsOld \/ SegmentElapses \/ UNCHANGED allVars
  <2>1. /\ UNCHANGED <<pc, current, done, pending, autoQueued, callback>>
        /\ UNCHANGED <<apc, after, stepLocals>>
    BY <1>4 DEF Watcher, QueueClock, LastGrowsOld, SegmentElapses, allVars, arbVars, vars,
       managerVars, stepVars, primeVars
  <2>2. segDue' = segDue \/ pc # "arbitrate"
    BY <1>4 DEF Watcher, QueueClock, LastGrowsOld, SegmentElapses, allVars, arbVars, segmentVars
  <2> QED
    BY <2>1, <2>2, PipelineAndLocalsKept
<1> QED
  BY <1>1, <1>2, <1>3, <1>4 DEF ShazamNext

\* Shazam, MOTION_DONE and the time-box ask for one switch at most in a step, for
\* every queue, rule and segment, with the watcher between any two accesses.
THEOREM OneAutoSwitchAtMost == ShazamSpec => []AtMostOneAutoSwitch
<1>1. ArbInv => AtMostOneAutoSwitch
  BY DEF ArbInv, ClaimInv, AtMostOneAutoSwitch
<1> QED
  BY <1>1, InitArb, NextArb, PTL DEF ShazamSpec

-----------------------------------------------------------------------------
(***************************************************************************)
(* The refinement                                                          *)
(***************************************************************************)

\* The commands the arbitration adds: none, or the one switch it asked for.
LEMMA AskedFacts ==
  ASSUME NEW cs \in Seq(CommandSet)
  PROVE  /\ asks = <<>> => cs \o Asked = cs
         /\ \A p \in Policy : asks = <<p>> => cs \o Asked = Append(cs, Switch(p))
<1>1. ASSUME asks = <<>> PROVE cs \o Asked = cs
  <2>1. Asked = <<>>
    BY <1>1 DEF Asked
  <2> QED
    BY <2>1
<1>2. ASSUME NEW p \in Policy, asks = <<p>> PROVE cs \o Asked = Append(cs, Switch(p))
  <2>1. Asked = <<Switch(p)>>
    BY <1>2 DEF Asked
  <2>2. Switch(p) \in CommandSet
    BY SwitchIsCommand, ConstantFacts
  <2> QED
    BY <2>1, <2>2
<1> QED
  BY <1>1, <1>2

\* What the sources have collected is one of the four things Arbitrate allows.
LEMMA EndsArbitrates ==
  ASSUME TypeOK, ArbInv, ArbitrationEnds
  PROVE  Arbitrate
<1>1. /\ StartDispatch /\ apc = "end" /\ commands' = commands \o Asked
      /\ (autoQueued' <=> autoQueued \/ fellBack) /\ autoQueued' \in BOOLEAN
      /\ done' = IF looped THEN done \ {current} ELSE done
  BY DEF ArbitrationEnds
<1>2. commands \in Seq(CommandSet) /\ autoQueued \in BOOLEAN
  BY DEF TypeOK
<1>3. /\ ClaimInv /\ (last # NoHit => last.pid \in SongPolicies)
      /\ MotionDoneAsks /\ ~consumed /\ ~looped => applied
  BY <1>1 DEF ArbInv, StageInv, HitsInv
<1>4. CASE consumed
  <2>1. PICK p \in Policy : asks = <<p>> /\ MayAsk(p)
    BY <1>3, <1>4 DEF ClaimInv
  <2>2. commands' = Append(commands, Switch(p)) /\ done' = done
    BY <1>1, <1>2, <1>3, <1>4, <2>1, AskedFacts DEF ClaimInv
  <2>3. CASE fellBack
    <3>1. p = Fallback /\ MotionDoneAsks /\ autoQueued' = TRUE
      BY <1>1, <2>1, <2>3 DEF MayAsk
    <3> QED
      BY <1>1, <2>2, <3>1 DEF Arbitrate, ArbitrateMotionDone
  <2>4. CASE ~fellBack
    <3>1. p \in SongPolicies /\ p # current /\ pending = NoPolicy /\ autoQueued' = autoQueued
      BY <1>1, <1>2, <2>1, <2>4 DEF MayAsk
    <3> QED
      BY <1>1, <2>2, <3>1 DEF Arbitrate, ArbitrateMusicSwitch
  <2> QED
    BY <2>3, <2>4
<1>5. CASE ~consumed
  <2>1. asks = <<>> /\ ~fellBack
    BY <1>3, <1>5 DEF ClaimInv
  <2>2. commands' = commands /\ autoQueued' = autoQueued
    BY <1>1, <1>2, <2>1, AskedFacts
  <2>3. CASE looped
    BY <1>1, <1>3, <2>2, <2>3 DEF ClaimInv, Arbitrate, ArbitrateMusicLoop
  <2>4. CASE ~looped
    <3>1. MotionDoneAsks => SongPolicies # {} /\ current \notin done
      BY <1>3, <1>5, <2>4 DEF ClaimInv
    <3> QED
      BY <1>1, <2>2, <2>4, <3>1 DEF Arbitrate, ArbitrateNothing
  <2> QED
    BY <2>3, <2>4
<1> QED
  BY <1>4, <1>5

\* Every step of the detailed specification is a step of the pipeline or leaves
\* it alone.
LEMMA StepRefines == TypeOK /\ ArbInv /\ [ShazamNext]_allVars => [Next]_vars
<1> SUFFICES ASSUME TypeOK, ArbInv, [ShazamNext]_allVars PROVE [Next]_vars
  OBVIOUS
<1>1. CASE ArbitrationStep
  <2>1. CASE ArbitrationEnds
    BY <2>1, EndsArbitrates DEF Next, RestOfStep
  <2>2. CASE ~ArbitrationEnds
    BY <1>1, <2>2, AtFacts DEF ArbitrationStep, DropPeek, DropPop, DrainPeek, DrainPop, ShazamPeek,
       PopSame, PopOther, MotionNotDone, MotionLoops, MotionFallsBack, MotionStep, SegmentCheck,
       SegmentPeek, SegmentPop
  <2> QED
    BY <2>1, <2>2
<1>2. CASE \E cs \in CommandLists : ShazamRead(cs) \/ ShazamReborn(cs)
  BY <1>2 DEF ShazamRead, ShazamReborn, Next, BeginStep
<1>3. CASE ShazamStartPostStep
  BY <1>3 DEF ShazamStartPostStep, Next, RestOfStep
<1>4. CASE ShazamRestOfStep
  BY <1>4 DEF ShazamRestOfStep, Next, RestOfStep
<1>5. CASE ShazamReset
  BY <1>5 DEF ShazamReset, Next
<1>6. CASE Watcher \/ QueueClock \/ LastGrowsOld \/ SegmentElapses \/ UNCHANGED allVars
  BY <1>6 DEF Watcher, QueueClock, LastGrowsOld, SegmentElapses, allVars
<1> QED
  BY <1>1, <1>2, <1>3, <1>4, <1>5, <1>6 DEF ShazamNext

\* As every step is the pipeline's or leaves it alone, the pipeline's types hold.
LEMMA ShazamTypes == ShazamSpec => [](TypeOK /\ ArbInv)
<1>1. ShazamInit => TypeOK
  BY InitTypeOK DEF ShazamInit
<1> QED
  BY <1>1, InitArb, NextArb, StepRefines, NextTypeOK, PTL DEF ShazamSpec

\* The detailed arbitration implements the pipeline: whatever the watcher thread
\* does between two looks at the queue, what a step asks for is what Arbitrate
\* allows, so that what holds of every pipeline holds of the ones with Shazam.
THEOREM ShazamImplementsPipeline == ShazamSpec => ImplementsPipeline
<1>1. ShazamInit => Init
  BY DEF ShazamInit
<1> QED
  BY <1>1, ShazamTypes, StepRefines, PTL DEF ShazamSpec, ImplementsPipeline, Spec

\* In particular, with Shazam too, a dance is entered from a held Stand only, a
\* Stand prime is over in time (while it is armed the queue is not served), and the
\* MOTION_DONE latch has its switch.
THEOREM ShazamKeepsPromises ==
  /\ PrimingConfig => (ShazamSpec => DanceOnlyFromHeldStand)
  /\ LatchConfig => (ShazamSpec => []LatchHasSwitch)
  /\ NoPrepare => (ShazamSpec => []WarmupIsScheduled)
  /\ OnlyStandWaits => (ShazamSpec => []PrimeIsTimed /\ PrimeCountsDown)
<1>1. ShazamSpec => Spec
  BY ShazamImplementsPipeline DEF ImplementsPipeline
<1> QED
  BY <1>1, DanceEnteredFromHeldStand, LatchAlwaysHasSwitch, WarmupOnlyWhileScheduled,
     PrimeHasItsEnd, PrimeRunsDown

-----------------------------------------------------------------------------
(***************************************************************************)
(* The order of the hits                                                   *)
(***************************************************************************)

Rising(q) == \A i, j \in 1 .. Len(q) : i < j => q[i].idx < q[j].idx

\* The queue rises, is of chunks already handled, and lies ahead of the last hit
\* that was applied.
OrderInv ==
  /\ seen \subseteq Chunks
  /\ Rising(queue)
  /\ \A i \in 1 .. Len(queue) : queue[i].idx \in seen
  /\ last # NoHit => /\ last.idx \in seen
                     /\ \A i \in 1 .. Len(queue) : last.idx < queue[i].idx

\* A suffix rises, and stays ahead of what was ahead of it; a hit that was taken
\* is behind what it leaves.
LEMMA SuffixRises ==
  ASSUME HitsInv, OrderInv, NEW r \in Seq(Hit), Suffix(r, queue)
  PROVE  /\ Rising(r)
         /\ \A i \in 1 .. Len(r) : r[i].idx \in seen
         /\ last # NoHit => \A i \in 1 .. Len(r) : last.idx < r[i].idx
<1>1. PICK k \in 0 .. Len(queue) :
        /\ Len(r) = Len(queue) - k
        /\ \A i \in 1 .. Len(r) : r[i].idx = queue[i + k].idx
  BY DEF Suffix
<1>2. \A i \in 1 .. Len(r) : i + k \in 1 .. Len(queue)
  BY <1>1 DEF HitsInv
<1>3. Rising(r)
  <2> SUFFICES ASSUME NEW i \in 1 .. Len(r), NEW j \in 1 .. Len(r), i < j
               PROVE  r[i].idx < r[j].idx
    BY DEF Rising
  <2>1. i + k < j + k /\ i + k \in 1 .. Len(queue) /\ j + k \in 1 .. Len(queue)
    BY <1>2
  <2>2. queue[i + k].idx < queue[j + k].idx
    BY <2>1 DEF OrderInv, Rising
  <2> QED
    BY <1>1, <2>2
<1> QED
  BY <1>1, <1>2, <1>3 DEF OrderInv

\* The watcher appends behind everything it has handled; whatever else happens to
\* the queue leaves a suffix of it.
LEMMA NextOrder ==
  ASSUME InOrder
  PROVE  HitsInv /\ OrderInv /\ [ShazamNext]_allVars => OrderInv'
<1> SUFFICES ASSUME HitsInv, OrderInv, [ShazamNext]_allVars PROVE OrderInv'
  OBVIOUS
<1>0. queue \in Seq(Hit) /\ last \in Hit \cup {NoHit} /\ Chunks \subseteq Nat
  BY ShazamAssumption DEF HitsInv, ShazamAssumption
<1>s. ASSUME queue' \in Seq(Hit), Suffix(queue', queue), seen' = seen, last' = last PROVE OrderInv'
  BY <1>s, SuffixRises DEF OrderInv, Rising
<1>u. ASSUME UNCHANGED <<queue, seen>>, last' = last \/ last' = NoHit PROVE OrderInv'
  BY <1>u DEF OrderInv, Rising
<1>e. ASSUME queue' = <<>>, seen' = seen, last' = last \/ last' = NoHit PROVE OrderInv'
  BY <1>e DEF OrderInv, Rising
<1>1. CASE ArbitrationStep
  <2>1. seen' = seen
    BY <1>1, ArbitrationQueue
  <2>2. CASE UNCHANGED <<queue, last>>
    BY <1>u, <2>1, <2>2
  <2>3. CASE queue' = AfterPop(queue) /\ last' = last
    BY <1>0, <1>s, <2>1, <2>3, PopFacts
  <2>4. CASE queue' = AfterPop(queue) /\ Popped /\ last' = Peek(queue)
    <3>1. /\ Len(queue) > 0 /\ last' = queue[1] /\ queue' = Tail(queue)
          /\ queue' \in Seq(Hit) /\ Suffix(queue', queue)
      BY <1>0, <2>4, PopFacts DEF Popped
    <3>2. Rising(queue') /\ \A i \in 1 .. Len(queue') : queue'[i].idx \in seen
      BY <3>1, SuffixRises
    <3>3. queue[1].idx \in seen
      BY <1>0, <3>1 DEF OrderInv
    <3>4. ASSUME NEW i \in 1 .. Len(queue') PROVE queue[1].idx < queue'[i].idx
      <4>1. queue'[i] = queue[i + 1] /\ i + 1 \in 1 .. Len(queue) /\ 1 \in 1 .. Len(queue) /\ 1 < i + 1
        BY <1>0, <3>1
      <4> QED
        BY <4>1 DEF OrderInv, Rising
    <3> QED
      BY <2>1, <3>1, <3>2, <3>3, <3>4 DEF OrderInv, Rising
  <2> QED
    BY <1>1, <2>2, <2>3, <2>4, ArbitrationQueue
<1>2. CASE Watcher
  <2>1. last' = last
    BY <1>2 DEF Watcher, arbVars, songVars
  <2>2. PICK i \in Chunks : \/ \E s \in Songs : \E pid \in RuleFor[s] : HandleChunk(i, s, pid)
                            \/ IgnoreChunk(i)
    BY <1>2 DEF Watcher
  <2>3. i \in Chunks /\ seen' = seen \cup {i} /\ \A j \in seen : j < i
    BY <2>2 DEF HandleChunk, IgnoreChunk, Next_Chunk
  <2>4. CASE IgnoreChunk(i)
    BY <2>1, <2>3, <2>4 DEF IgnoreChunk, OrderInv, Rising
  <2>5. ASSUME NEW s \in Songs, NEW pid \in RuleFor[s], HandleChunk(i, s, pid) PROVE OrderInv'
    <3> DEFINE hit  == [pid |-> pid, song |-> s, idx |-> i, age |-> "held"]
               rest == IF Len(queue) = QueueMaxlen THEN Tail(queue) ELSE queue
    <3>1. hit.idx = i
      OBVIOUS
    <3>2. rest \in Seq(Hit) /\ Suffix(rest, queue)
      <4>1. QueueMaxlen > 0
        BY ShazamAssumption DEF ShazamAssumption
      <4>2. Suffix(queue, queue)
        BY <1>0 DEF Suffix
      <4>3. ASSUME Len(queue) = QueueMaxlen PROVE Suffix(Tail(queue), queue) /\ Tail(queue) \in Seq(Hit)
        BY <1>0, <4>1, <4>3, TailSuffix
      <4> QED
        BY <1>0, <4>2, <4>3
    <3>3. queue' = Append(rest, hit)
      BY <2>5 DEF HandleChunk, Appended
    <3> HIDE DEF hit, rest
    <3>4. /\ Len(queue') = Len(rest) + 1 /\ Len(rest) \in Nat /\ queue'[Len(rest) + 1].idx = i
          /\ \A j \in 1 .. Len(rest) : queue'[j] = rest[j]
      BY <3>1, <3>2, <3>3
    <3>5. /\ Rising(rest)
          /\ \A j \in 1 .. Len(rest) : rest[j].idx \in seen
          /\ last # NoHit => \A j \in 1 .. Len(rest) : last.idx < rest[j].idx
      BY <3>2, SuffixRises
    <3>6. Rising(queue')
      <4> SUFFICES ASSUME NEW j \in 1 .. Len(queue'), NEW k \in 1 .. Len(queue'), j < k
                   PROVE  queue'[j].idx < queue'[k].idx
        BY DEF Rising
      <4>1. j \in 1 .. Len(rest) /\ queue'[j].idx = rest[j].idx
        BY <3>4
      <4>2. CASE k = Len(rest) + 1
        BY <2>3, <3>4, <3>5, <4>1, <4>2
      <4>3. CASE k \in 1 .. Len(rest)
        BY <3>4, <3>5, <4>1, <4>3 DEF Rising
      <4> QED
        BY <3>4, <4>2, <4>3
    <3>7. \A j \in 1 .. Len(queue') : queue'[j].idx \in seen'
      BY <2>3, <3>4, <3>5
    <3>8. last' # NoHit => /\ last'.idx \in seen'
                           /\ \A j \in 1 .. Len(queue') : last'.idx < queue'[j].idx
      BY <2>1, <2>3, <3>4, <3>5 DEF OrderInv
    <3>9. seen' \subseteq Chunks
      BY <2>3 DEF OrderInv
    <3> QED
      BY <3>6, <3>7, <3>8, <3>9 DEF OrderInv, Rising
  <2> QED
    BY <2>2, <2>4, <2>5
<1>3. CASE QueueClock
  <2>1. last' = last /\ seen' = seen
    BY <1>3 DEF QueueClock, arbVars, songVars, HitReleased, HitGrowsOld
  <2>2. queue' \in Seq(Hit) /\ Suffix(queue', queue)
    BY <1>0, <1>3, GrowFacts DEF QueueClock, HitReleased, HitGrowsOld, Age
  <2> QED
    BY <1>s, <2>1, <2>2
<1>4. CASE LastGrowsOld
  <2>1. last \in Hit /\ UNCHANGED <<queue, seen>> /\ last' = [last EXCEPT !.age = "old"]
    BY <1>0, <1>4, NoHitFacts DEF LastGrowsOld, watchVars
  <2>2. last'.idx = last.idx /\ last # NoHit
    BY <2>1, NoHitFacts DEF Hit
  <2> QED
    BY <2>1, <2>2 DEF OrderInv, Rising
<1>5. ASSUME NEW cs \in CommandLists, ShazamRead(cs) \/ ShazamReborn(cs) PROVE OrderInv'
  BY <1>5, <1>u, <1>e DEF ShazamRead, ShazamReborn, ResetQueue, watchVars, songVars
<1>6. CASE ShazamReset
  BY <1>6, <1>e DEF ShazamReset, ResetQueue
<1>7. CASE ShazamStartPostStep \/ ShazamRestOfStep \/ SegmentElapses \/ UNCHANGED allVars
  BY <1>7, <1>u DEF ShazamStartPostStep, ShazamRestOfStep, SegmentElapses, allVars,
     watchVars, arbVars, songVars
<1> QED
  BY <1>1, <1>2, <1>3, <1>4, <1>5, <1>6, <1>7 DEF ShazamNext

\* The step that applies a hit applies one of a later chunk.
LEMMA OrderStep ==
  HitsInv /\ OrderInv /\ [ShazamNext]_allVars
    => [last' # last /\ last # NoHit /\ last' # NoHit /\ last'.idx # last.idx
          => last'.idx > last.idx]_allVars
<1> SUFFICES ASSUME HitsInv, OrderInv, ShazamNext, last' # last, last # NoHit, last' # NoHit,
                    last'.idx # last.idx
             PROVE  last'.idx > last.idx
  OBVIOUS
<1>0. queue \in Seq(Hit) /\ last \in Hit /\ Chunks \subseteq Nat
  BY ShazamAssumption DEF HitsInv, ShazamAssumption
<1>1. CASE ArbitrationStep
  <2>1. Popped /\ last' = Peek(queue)
    BY <1>1, ArbitrationQueue
  <2>2. Len(queue) > 0 /\ last' = queue[1] /\ last' \in Hit
    BY <1>0, <2>1, PopFacts DEF Popped
  <2>3. last.idx < queue[1].idx
    BY <1>0, <2>2 DEF OrderInv
  <2>4. last.idx \in Nat /\ queue[1].idx \in Nat
    BY <1>0, <2>2 DEF Hit
  <2> QED
    BY <2>2, <2>3, <2>4
<1>2. ~LastGrowsOld
  <2>1. [last EXCEPT !.age = "old"].idx = last.idx
    BY <1>0 DEF Hit
  <2> QED
    BY <2>1 DEF LastGrowsOld
<1>3. ~(Watcher \/ QueueClock \/ SegmentElapses)
  BY DEF Watcher, QueueClock, SegmentElapses, arbVars, songVars
<1>4. \A cs \in CommandLists : ~(ShazamRead(cs) \/ ShazamReborn(cs))
  BY DEF ShazamRead, ShazamReborn, songVars
<1>5. ~(ShazamStartPostStep \/ ShazamRestOfStep \/ ShazamReset)
  BY DEF ShazamStartPostStep, ShazamRestOfStep, ShazamReset, arbVars, songVars
<1> QED
  BY <1>1, <1>2, <1>3, <1>4, <1>5 DEF ShazamNext

\* When the files are finished in order, hits are applied in order: the race
\* between a look and the taking may change which hit is taken, never backwards.
THEOREM HitsAppliedInOrder ==
  ASSUME InOrder
  PROVE  ShazamSpec => ChunksInOrder
<1>1. ShazamInit => OrderInv
  BY DEF ShazamInit, WatchInit, OrderInv, Rising
<1>2. HitsInv /\ OrderInv /\ [ShazamNext]_allVars => OrderInv'
  BY NextOrder
<1>3. ArbInv => HitsInv
  BY DEF ArbInv
<1> QED
  BY <1>1, <1>2, <1>3, ShazamTypes, OrderStep, PTL DEF ShazamSpec, ChunksInOrder
=============================================================================
