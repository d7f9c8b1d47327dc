-------------------------- MODULE ShazamArbitration --------------------------
(***************************************************************************)
(* The automatic sources of the multi-policy pipeline in detail: the       *)
(* Shazam queue, the end of a motion and the segment time-box, as          *)
(* post_step_callback arbitrates them, with the watcher thread between any *)
(* two accesses of the queue.  It implements MultiPolicyPipeline, where    *)
(* the whole arbitration is the one action Arbitrate.                      *)
(*                                                                         *)
(* What the arbitration does to the pipeline's own state is collected in   *)
(* its local variables and takes effect in ArbitrationEnds, as no other    *)
(* thread reads that state.                                                *)
(***************************************************************************)
EXTENDS MultiPolicyPipeline, ShazamFileWatch

CONSTANTS
  Segmented,  \* policies outside policy_inference_timing_skip_policy_ids
  DropStale   \* drop_stale_chunks

ASSUME ArbitrationAssumption ==
  /\ Segmented \in SUBSET Policy
  /\ DropStale \in BOOLEAN
  /\ \A s \in Songs : RuleFor[s] \cap Policy \subseteq SongPolicies

VARIABLES
  song,     \* _current_song_id
  last,     \* _last_applied_hit
  segPid,   \* _segment_pid
  segDue,   \* the segment has lasted its duration
  fired,    \* _segment_switch_fired
  apc,      \* where the arbitration is
  after,    \* where _drop_stale_hits returns to
  head,     \* the hit the last look returned
  applied,  \* shazam_applied_this_step
  consumed, \* _boundary_consumed_this_step
  asks,     \* policies the arbitration has asked for in this step
  fellBack, \* MOTION_DONE asked for the fallback
  looped    \* the motion was reset in place

songVars    == <<song, last>>
segmentVars == <<segPid, segDue, fired>>
stepLocals  == <<head, applied, consumed, asks, fellBack, looped>>
arbVars     == <<songVars, segmentVars, apc, after, stepLocals>>
allVars     == <<vars, watchVars, arbVars>>

NoSong == "none"

-----------------------------------------------------------------------------
(***************************************************************************)
(* The pipeline's other actions, with what they do to this state           *)
(***************************************************************************)

\* _log_policy_segment_wallclock: a segment starts with its policy.
TrackSegment(pid) ==
  IF pid \notin Segmented THEN segPid' = NoPolicy /\ UNCHANGED <<segDue, fired>>
  ELSE IF segPid # pid THEN segPid' = pid /\ segDue' = FALSE /\ fired' = FALSE
  ELSE UNCHANGED segmentVars

ShazamRead(cs) ==
  /\ ReadControls(cs)
  /\ TrackSegment(current)
  /\ UNCHANGED <<watchVars, songVars, apc, after, stepLocals>>

ShazamReborn(cs) ==
  /\ SimReborn(cs)
  /\ TrackSegment(Walk)
  /\ ResetQueue
  /\ UNCHANGED <<songVars, apc, after, stepLocals>>

\* The song is forgotten when no dance runs; then the priming steps drain the
\* queue and the others serve it, after dropping what is stale.
ShazamStartPostStep ==
  /\ StartPostStep
  /\ song' = IF current \in Mimic THEN song ELSE NoSong
  /\ apc' = "drop"
  /\ after' = IF pending' # NoPolicy THEN "drain" ELSE "shazam"
  /\ UNCHANGED <<watchVars, last, segmentVars, stepLocals>>

ShazamRestOfStep ==
  /\ Dispatch \/ FinishStepActions \/ DeadlinePasses
  /\ UNCHANGED <<watchVars, arbVars>>

ShazamReset ==
  /\ SelfChecked \/ PrepareReset
  /\ song' = NoSong
  /\ last' = NoHit
  /\ segPid' = NoPolicy
  /\ fired' = FALSE
  /\ ResetQueue
  /\ UNCHANGED <<segDue, apc, after, stepLocals>>

-----------------------------------------------------------------------------
(***************************************************************************)
(* The arbitration                                                         *)
(***************************************************************************)
At(where) ==
  /\ pc = "arbitrate"
  /\ apc = where
  /\ UNCHANGED <<vars, seen>>

GoTo(where) == apc' = where

\* Mutant: hits do not grow old.
TooOldNever(hit) == hit # hit

TooOld(hit)     == hit.age = "old"
OutOfOrder(hit) == DropStale /\ last # NoHit /\ hit.idx <= last.idx
Stale(hit)      == hit # NoHit /\ (TooOld(hit) \/ OutOfOrder(hit))

\* _drop_stale_hits
DropPeek ==
  /\ At("drop")
  /\ IF Stale(Peek(queue)) THEN GoTo("dropPop") ELSE GoTo(after)
  /\ UNCHANGED <<queue, songVars, segmentVars, after, stepLocals>>

DropPop ==
  /\ At("dropPop")
  /\ IF Peek(queue) = NoHit THEN GoTo(after) ELSE GoTo("drop")
  /\ queue' = AfterPop(queue)
  /\ UNCHANGED <<songVars, segmentVars, after, stepLocals>>

\* Step 0: while priming, hits for the policy being primed are dropped.
DrainPeek ==
  /\ At("drain")
  /\ IF Peek(queue) # NoHit /\ Peek(queue).pid = pending
     THEN GoTo("drainPop") ELSE GoTo("motion")
  /\ UNCHANGED <<queue, songVars, segmentVars, after, stepLocals>>

DrainPop ==
  /\ At("drainPop")
  /\ GoTo("drain")
  /\ queue' = AfterPop(queue)
  /\ UNCHANGED <<songVars, segmentVars, after, stepLocals>>

\* Step 1: a hit of the running song seeks the motion, one of another policy
\* switches to it.
SameSong(hit) == song # NoSong /\ hit.song = song /\ current \in Mimic

ShazamPeek ==
  /\ At("shazam")
  /\ head' = Peek(queue)
  /\ IF head' = NoHit THEN GoTo("motion")
     ELSE IF SameSong(head') THEN GoTo("popSame")
     ELSE IF head'.pid \in Policy /\ head'.pid # current THEN GoTo("popOther")
     ELSE GoTo("motion")
  /\ UNCHANGED <<queue, songVars, segmentVars, after, applied, consumed, asks, fellBack, looped>>

\* _pop_shazam_hit gives the pipeline no hit whose policy does not exist.
Popped == Peek(queue) # NoHit /\ Peek(queue).pid \in Policy

Apply(hit) == last' = hit /\ song' = hit.song

RestartSegment == segDue' = FALSE /\ fired' = FALSE /\ UNCHANGED segPid

PopSame ==
  /\ At("popSame")
  /\ GoTo("motion")
  /\ queue' = AfterPop(queue)
  /\ IF Popped
     THEN /\ Apply(Peek(queue))
          /\ applied' = TRUE
          /\ looped' = (current \in done)
          /\ RestartSegment
     ELSE UNCHANGED <<songVars, applied, looped, segmentVars>>
  /\ UNCHANGED <<after, head, consumed, asks, fellBack>>

\* The switch is to the policy of the hit that was looked at.
PopOther ==
  /\ At("popOther")
  /\ GoTo("motion")
  /\ queue' = AfterPop(queue)
  /\ IF Popped
     THEN /\ Apply(Peek(queue))
          /\ applied' = TRUE
          /\ consumed' = TRUE
          /\ asks' = Append(asks, head.pid)
     ELSE UNCHANGED <<songVars, applied, consumed, asks>>
  /\ UNCHANGED <<segmentVars, after, head, fellBack, looped>>

\* Step 2: a motion that ends while its song plays is looped, else left.
SongPlays == current \in Mimic /\ song # NoSong /\ last # NoHit /\ ~TooOld(last)

MotionStep ==
  /\ At("motion")
  /\ GoTo("segment")
  /\ UNCHANGED <<queue, songVars, after, head, applied>>

MotionNotDone ==
  /\ MotionStep
  /\ callback => applied \/ consumed
  /\ UNCHANGED <<segmentVars, consumed, asks, fellBack, looped>>

MotionLoops ==
  /\ MotionStep
  /\ callback /\ ~applied /\ ~consumed
  /\ SongPlays
  /\ looped' = TRUE
  /\ RestartSegment
  /\ UNCHANGED <<consumed, asks, fellBack>>

\* Mutant: the fallback does not claim the step.
MotionFallsBackUnclaimed ==
  /\ MotionStep
  /\ callback /\ ~applied /\ ~consumed
  /\ ~SongPlays
  /\ IF current # Fallback /\ ~autoQueued
     THEN fellBack' = TRUE /\ asks' = Append(asks, Fallback)
     ELSE UNCHANGED <<fellBack, asks>>
  /\ UNCHANGED <<segmentVars, looped, consumed>>

\* Mutant: the fallback is asked for while it is on its way.
MotionFallsBackAgain ==
  /\ MotionStep
  /\ callback /\ ~applied /\ ~consumed
  /\ ~SongPlays
  /\ IF current # Fallback
     THEN fellBack' = TRUE /\ consumed' = TRUE /\ asks' = Append(asks, Fallback)
     ELSE UNCHANGED <<fellBack, consumed, asks>>
  /\ UNCHANGED <<segmentVars, looped>>

MotionFallsBack ==
  /\ MotionStep
  /\ callback /\ ~applied /\ ~consumed
  /\ ~SongPlays
  /\ IF current # Fallback /\ ~autoQueued
     THEN fellBack' = TRUE /\ consumed' = TRUE /\ asks' = Append(asks, Fallback)
     ELSE UNCHANGED <<fellBack, consumed, asks>>
  /\ UNCHANGED <<segmentVars, looped>>

\* Step 3: the segment time-box.
SegmentOver ==
  /\ ~applied /\ ~consumed /\ ~fired
  /\ segPid = current
  /\ segDue
  /\ pending = NoPolicy

SegmentCheck ==
  /\ At("segment")
  /\ IF SegmentOver THEN GoTo("drop") ELSE GoTo("end")
  /\ after' = "segmentPeek"
  /\ UNCHANGED <<queue, songVars, segmentVars, stepLocals>>

SegmentPeek ==
  /\ At("segmentPeek")
  /\ IF Peek(queue) # NoHit /\ Peek(queue).pid # current
     THEN GoTo("segmentPop") ELSE GoTo("end")
  /\ UNCHANGED <<queue, songVars, segmentVars, after, stepLocals>>

SegmentPop ==
  /\ At("segmentPop")
  /\ GoTo("end")
  /\ queue' = AfterPop(queue)
  /\ IF Popped THEN Apply(Peek(queue)) ELSE UNCHANGED songVars
  /\ IF Popped /\ Peek(queue).pid # current
     THEN /\ asks' = Append(asks, Peek(queue).pid)
          /\ fired' = TRUE
          /\ consumed' = TRUE
     ELSE UNCHANGED <<asks, fired, consumed>>
  /\ UNCHANGED <<segPid, segDue, after, head, applied, fellBack, looped>>

Asked == [i \in 1 .. Len(asks) |-> Switch(asks[i])]

\* The effects on the pipeline; the flags are cleared for the next step.
ArbitrationEnds ==
  /\ apc = "end"
  /\ StartDispatch
  /\ commands' = commands \o Asked
  /\ autoQueued' = (autoQueued \/ fellBack)
  /\ done' = IF looped THEN done \ {current} ELSE done
  /\ apc' = "idle"
  /\ head' = NoHit
  /\ applied' = FALSE
  /\ consumed' = FALSE
  /\ asks' = <<>>
  /\ fellBack' = FALSE
  /\ looped' = FALSE
  /\ UNCHANGED <<watchVars, songVars, segmentVars, after>>

ArbitrationStep ==
  \/ DropPeek \/ DropPop \/ DrainPeek \/ DrainPop
  \/ ShazamPeek \/ PopSame \/ PopOther
  \/ MotionNotDone \/ MotionLoops \/ MotionFallsBack
  \/ SegmentCheck \/ SegmentPeek \/ SegmentPop
  \/ ArbitrationEnds

-----------------------------------------------------------------------------
(***************************************************************************)
(* The watcher thread and the clock                                        *)
(***************************************************************************)
Watcher ==
  /\ \E i \in Chunks :
       \/ \E s \in Songs : \E pid \in RuleFor[s] : HandleChunk(i, s, pid)
       \/ IgnoreChunk(i)
  /\ UNCHANGED <<vars, arbVars>>

\* What was taken off the queue grows old before what is still on it.
QueueClock ==
  /\ HitReleased \/ (last.age = "old" /\ HitGrowsOld)
  /\ UNCHANGED <<vars, arbVars>>

LastGrowsOld ==
  /\ last.age = "ready"
  /\ last' = [last EXCEPT !.age = "old"]
  /\ UNCHANGED <<vars, watchVars, song, segmentVars, apc, after, stepLocals>>

\* A segment lasts many steps: none starts and elapses within one step.
SegmentElapses ==
  /\ pc = "begin"
  /\ segPid # NoPolicy
  /\ ~segDue
  /\ segDue' = TRUE
  /\ UNCHANGED <<vars, watchVars, songVars, segPid, fired, apc, after, stepLocals>>

-----------------------------------------------------------------------------
ShazamInit ==
  /\ Init
  /\ WatchInit
  /\ song = NoSong
  /\ last = NoHit
  /\ segPid = NoPolicy
  /\ segDue = FALSE
  /\ fired = FALSE
  /\ apc = "idle"
  /\ after = "shazam"
  /\ head = NoHit
  /\ applied = FALSE
  /\ consumed = FALSE
  /\ asks = <<>>
  /\ fellBack = FALSE
  /\ looped = FALSE

ShazamNext ==
  \/ \E cs \in CommandLists : ShazamRead(cs) \/ ShazamReborn(cs)
  \/ ShazamStartPostStep
  \/ ArbitrationStep
  \/ ShazamRestOfStep
  \/ ShazamReset
  \/ Watcher
  \/ QueueClock
  \/ LastGrowsOld
  \/ SegmentElapses

ShazamSpec == ShazamInit /\ [][ShazamNext]_allVars

-----------------------------------------------------------------------------
\* The detailed arbitration does to the pipeline what Arbitrate allows: with the
\* watcher at work between its steps, the pipeline still behaves as specified.
\* (The two specifications share their variables: the mapping is the identity.)
ImplementsPipeline == Spec

\* Shazam, MOTION_DONE and the time-box never ask for two switches in one step
\* (the comment on _boundary_consumed_this_step).
AtMostOneAutoSwitch == Len(asks) <= 1

\* The hits applied to the robot have rising chunk indices: a hit older than the
\* last applied one is never applied (drop_stale_chunks).
ChunksInOrder ==
  [][last' # last /\ last # NoHit /\ last' # NoHit /\ last'.idx # last.idx
       => last'.idx > last.idx]_allVars

\* No hit stays in the queue for good, whatever its policy and whatever the
\* robot does: what is not served grows old and is dropped (_drop_stale_hits).
QueueDrains == queue # <<>> ~> queue = <<>>
=============================================================================
