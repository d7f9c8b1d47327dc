----------------------------- MODULE MotionCtrl -----------------------------
(***************************************************************************)
(* MotionCtrl: the controller that plays motions of a library (PHC) for    *)
(* the H2H, KungfuBot and TWIST policies.  Three kinds of threads share    *)
(* its fields: the pipeline, which reads a frame and moves the time once a *)
(* step; the loaders that LOAD_NEXT, LOAD_PREV and the window start; and   *)
(* the chains of timers a fade starts, one link after the other.           *)
(*                                                                         *)
(* The speed is counted in fade steps, the time in what the slowest step   *)
(* adds to it.                                                             *)
(***************************************************************************)
EXTENDS Integers, Sequences, FiniteSets

CONSTANTS
  Library,    \* the motions, 0 to the last
  Offset,     \* [Library -> where a motion starts], motion_offset
  Ids,        \* bound: the motion ids asked for, past the library's too
  FullSpeed,  \* speed_target, in fade steps
  MaxTime,    \* bound: times told apart
  MaxLoads,   \* bound: loads asked for
  MaxFades,   \* bound: fades asked for
  MaxBusy     \* bound: loads and fades together

VARIABLES
  lookAhead, \* KungfuBot and TWIST: the frame is read in post_step_callback
  motionId, motionTime, motionOffset, ratio,
  content,   \* what the library holds: a motion, or Torn: nobody knows
  lock,      \* lock_motion_load: the loader inside, or Free
  loader,    \* per load: where its thread is, and the motion it loads
  cache,     \* ref_motion_cache: its key and its frame
  frame,     \* the frame the policy was given last
  fade,      \* speed_steps, the iterator the chains share
  chain,     \* per fade: where its timer thread is, and the speed it holds
  pc,        \* where the pipeline is in its step
  held       \* what the pipeline read and has not written back yet

fieldVars == <<motionId, motionTime, motionOffset, ratio, content, lock, loader,
               cache, frame, fade, chain, pc, held>>
ctrlVars == <<lookAhead, fieldVars>>

Free == 0
Torn == -1
Loads == 1..MaxLoads
Fades == 1..MaxFades
NoLoad == [at |-> "none", id |-> 0]
NoChain == [at |-> "none", speed |-> 0]

ASSUME LibraryAssumption ==
  /\ Library = 0..(Cardinality(Library) - 1) /\ 0 \in Library
  /\ Ids \subseteq Int /\ Library \subseteq Ids
  /\ FullSpeed \in Nat \ {0} /\ MaxTime \in Nat

Loading == {l \in Loads : loader[l].at \notin {"none", "ended"}}
Busy ==
  Cardinality({l \in Loads : loader[l].at # "none"})
  + Cardinality({c \in Fades : chain[c].at # "none"})
Chained == {c \in Fades : chain[c].at \notin {"none", "ended"}}

-----------------------------------------------------------------------------
(***************************************************************************)
(* load_motion: the lock is looked at here and taken by the thread later.  *)
(* Nothing compares the id with the library.                               *)
(***************************************************************************)
Started(l, id) == loader' = [loader EXCEPT ![l] = [at |-> "start", id |-> id]]
LoadMotion(id) ==
  IF (motionId >= 0 /\ id = motionId) \/ lock # Free
  THEN UNCHANGED loader
  ELSE \E l \in Loads :
         /\ Busy < MaxBusy
         /\ loader[l].at = "none"
         /\ \A k \in Loads : k < l => loader[k].at # "none"
         /\ Started(l, id)

\* Confirm in the window, on the window's own thread: whatever number is typed.
SwitchMotion ==
  /\ \E id \in Ids : LoadMotion(id)
  /\ UNCHANGED <<motionId, motionTime, motionOffset, ratio, content, lock, cache,
                 frame, fade, chain, pc, held>>

At(l, here, there) == loader[l].at = here /\ loader' = [loader EXCEPT ![l].at = there]
Ends(l, here) ==
  /\ loader[l].at = here
  /\ loader' = [loader EXCEPT ![l] = [at |-> "ended", id |-> 0]]
  /\ lock' = Free

TakeLock(l) ==
  /\ At(l, "start", "load")
  /\ lock = Free
  /\ lock' = l
  /\ content' = Torn
  /\ UNCHANGED <<motionId, motionTime, motionOffset>>
\* load_motions of PHC, which is not in src/: for an id the library does not
\* have it loads a motion of its own choice, or it raises.
MayLoad(id) == IF id \in Library THEN {id} ELSE Library
Loaded(l) ==
  /\ At(l, "load", "name")
  /\ content' \in MayLoad(loader[l].id)
  /\ UNCHANGED <<motionId, motionTime, motionOffset, lock>>
\* The exception ends the thread and gives the lock back; what is loaded of the
\* motion stays as it is.
LoadFails(l) ==
  /\ Ends(l, "load")
  /\ loader[l].id \notin Library
  /\ UNCHANGED <<motionId, motionTime, motionOffset, content>>
Named(l) ==
  /\ At(l, "name", "rewind")
  /\ motionId' = loader[l].id
  /\ UNCHANGED <<motionTime, motionOffset, content, lock>>
\* reset() in the loader: the time first, then the offset of the new motion.
Rewound(l) ==
  /\ At(l, "rewind", "offset")
  /\ motionTime' = 0
  /\ UNCHANGED <<motionId, motionOffset, content, lock>>
Placed(l) ==
  /\ Ends(l, "offset")
  /\ motionOffset' = Offset[content]
  /\ UNCHANGED <<motionId, motionTime, content>>

LoaderTurn(l) ==
  /\ TakeLock(l) \/ Loaded(l) \/ LoadFails(l) \/ Named(l) \/ Rewound(l) \/ Placed(l)
  /\ UNCHANGED <<ratio, cache, frame, fade, chain, pc, held>>

-----------------------------------------------------------------------------
(***************************************************************************)
(* The fades                                                               *)
(***************************************************************************)
UpFrom(a, b) == [i \in 1..(IF a <= b THEN b - a + 1 ELSE 0) |-> a + i - 1]
DownFrom(a, b) == [i \in 1..(IF b <= a THEN a - b + 1 ELSE 0) |-> a - i + 1]
\* np.arange(a, b + step, step): rounding may add one more step.
Rising == {UpFrom(ratio, FullSpeed + extra) : extra \in {0, 1}}
Falling == {DownFrom(ratio, 0 - extra) : extra \in {0, 1}}

\* A new iterator, and the first step of it on the pipeline's own thread.
FadeAlong(steps) ==
  \E c \in Fades :
    /\ Busy < MaxBusy
    /\ chain[c].at = "none"
    /\ \A k \in Fades : k < c => chain[k].at # "none"
    /\ fade' = steps
    /\ chain' = [chain EXCEPT ![c] = [at |-> "first", speed |-> 0]]
FadeIn == \E steps \in Rising : FadeAlong(steps)
FadeOut == \E steps \in Falling : FadeAlong(steps)

\* _fade_step_apply: the next speed; when there is none, the chain ends here.
NextSpeed(c, here, there) ==
  /\ chain[c].at = here
  /\ IF fade = <<>>
     THEN chain' = [chain EXCEPT ![c] = [at |-> "ended", speed |-> 0]] /\ UNCHANGED fade
     ELSE /\ chain' = [chain EXCEPT ![c] = [at |-> there, speed |-> Head(fade)]]
          /\ fade' = Tail(fade)
  /\ UNCHANGED ratio
AtLeastZero(s) == IF s < 0 THEN 0 ELSE s
\* ... and the write of it, and the timer of the next link.
ApplySpeedUnchained(c, here) ==
  /\ chain[c].at = here
  /\ ratio' = AtLeastZero(chain[c].speed)
  /\ chain' = [chain EXCEPT ![c] = [at |-> "ended", speed |-> 0]]
  /\ UNCHANGED fade
ApplySpeed(c, here) ==
  /\ chain[c].at = here
  /\ ratio' = AtLeastZero(chain[c].speed)
  /\ chain' = [chain EXCEPT ![c] = [at |-> "timer", speed |-> 0]]
  /\ UNCHANGED fade

FirstLink(c) == NextSpeed(c, "first", "write") \/ ApplySpeed(c, "write")
TimerFires(c) == NextSpeed(c, "timer", "fired") \/ ApplySpeed(c, "fired")
FadeTurn(c) ==
  /\ FirstLink(c) \/ TimerFires(c)
  /\ UNCHANGED <<motionId, motionTime, motionOffset, content, lock, loader, cache,
                 frame, pc, held>>

-----------------------------------------------------------------------------
(***************************************************************************)
(* The pipeline's step: get_data, post_step_callback                       *)
(***************************************************************************)
Goto(here, there) == pc = here /\ pc' = there

\* Past the last time that is told apart every step has a time of its own.
SameTime(a, b) == a = b /\ (a < MaxTime \/ ratio = 0)
SamePlace == cache.offset = motionOffset
CacheHit == SameTime(cache.time, motionTime) /\ SamePlace
\* Between the look at the lock and the cache, and the read of the library.
Reading(there) == IF there = "give" THEN "read_give" ELSE "read_advance"
\* get_motion: while a motion loads, or at the same time and place, the cache.
GetMotion(there) ==
  /\ IF lock # Free \/ CacheHit
     THEN pc' = there /\ UNCHANGED cache
     ELSE /\ pc' = Reading(there)
          /\ cache' = [cache EXCEPT !.time = motionTime, !.offset = motionOffset]
  /\ UNCHANGED <<motionId, motionTime, motionOffset, ratio, content, lock, loader,
                 frame, fade, chain, held>>
\* get_motion_state: the library as it is now, the lock was looked at before.
ReadLibrary(there) ==
  /\ Goto(Reading(there), there)
  /\ cache' = [cache EXCEPT !.of = content]
  /\ UNCHANGED <<motionId, motionTime, motionOffset, ratio, content, lock, loader,
                 frame, fade, chain, held>>

\* get_data of MotionCtrl and MotionH2HCtrl; the two others give what
\* _get_future_motion_targets read at the end of the step before.
GetData ==
  IF lookAhead
  THEN /\ Goto("data", "targets")
       /\ frame' = cache.of
       /\ UNCHANGED <<motionId, motionTime, motionOffset, ratio, content, lock,
                      loader, cache, fade, chain, held>>
  ELSE pc = "data" /\ GetMotion("give")
GiveFrame ==
  /\ Goto("give", "advance")
  /\ frame' = cache.of
  /\ UNCHANGED <<motionId, motionTime, motionOffset, ratio, content, lock, loader,
                 cache, fade, chain, held>>
FutureTargets == pc = "targets" /\ GetMotion("advance")

\* motion_time += step * ratio, read and written apart: a loader may rewind between.
ReadTime ==
  /\ Goto("advance", "write")
  /\ held' = IF motionTime + ratio > MaxTime THEN MaxTime ELSE motionTime + ratio
  /\ UNCHANGED <<motionId, motionTime, motionOffset, ratio, content, lock, loader,
                 cache, frame, fade, chain>>
WriteTime ==
  /\ Goto("write", "commands")
  /\ motionTime' = held
  /\ held' = 0
  /\ UNCHANGED <<motionId, motionOffset, ratio, content, lock, loader, cache, frame,
                 fade, chain>>

\* reset() on the pipeline's thread takes no lock: where the motion starts is
\* read from a library that may be loading, and written later.
BeginReset ==
  /\ motionTime' = 0
  /\ held' \in IF content = Torn THEN {Offset[m] : m \in Library} ELSE {Offset[content]}
  /\ pc' = "offset"
EndReset ==
  /\ Goto("offset", "commands")
  /\ motionOffset' = held
  /\ held' = 0
  /\ UNCHANGED <<motionId, motionTime, ratio, content, lock, loader, cache, frame,
                 fade, chain>>

\* A command of the window or of another controller.
Obey ==
  /\ pc = "commands"
  /\ UNCHANGED <<motionId, ratio, content, lock, cache, frame>>
  /\ \/ (FadeIn \/ FadeOut) /\ pc' = "fading"
        /\ UNCHANGED <<loader, motionTime, motionOffset, held>>
     \/ BeginReset /\ UNCHANGED <<loader, fade, chain, motionOffset>>
     \/ /\ \/ motionId + 1 \in Ids /\ LoadMotion(motionId + 1)
           \/ motionId > 0 /\ motionId - 1 \in Ids /\ LoadMotion(motionId - 1)
        /\ UNCHANGED <<fade, chain, pc, motionTime, motionOffset, held>>
\* The call of _fade_step_apply returns when its timer is started.
Faded ==
  /\ Goto("fading", "commands")
  /\ \A c \in Fades : chain[c].at \notin {"first", "write"}
  /\ UNCHANGED <<motionId, motionTime, motionOffset, ratio, content, lock, loader,
                 cache, frame, fade, chain, held>>
StepOver ==
  /\ Goto("commands", "data")
  /\ UNCHANGED <<motionId, motionTime, motionOffset, ratio, content, lock, loader,
                 cache, frame, fade, chain, held>>

PipelineStep ==
  \/ GetData \/ GiveFrame \/ FutureTargets
  \/ ReadLibrary("give") \/ ReadLibrary("advance")
  \/ ReadTime \/ WriteTime \/ EndReset \/ Faded \/ StepOver

-----------------------------------------------------------------------------
\* After the pipeline's self check: the constructor has loaded motion 0 and the
\* dry steps have read it.  With a window it starts at rest, else it plays.
CtrlInit ==
  /\ lookAhead \in BOOLEAN
  /\ motionId = 0 /\ motionTime = 0 /\ motionOffset = Offset[0] /\ content = 0
  /\ ratio \in {0, FullSpeed}
  /\ lock = Free
  /\ loader = [l \in Loads |-> NoLoad]
  /\ cache = [of |-> 0, time |-> 0, offset |-> Offset[0]]
  /\ frame = 0
  /\ fade = <<>>
  /\ chain = [c \in Fades |-> NoChain]
  /\ pc = "data" /\ held = 0

CtrlNext ==
  /\ UNCHANGED lookAhead
  /\ \/ PipelineStep \/ Obey \/ SwitchMotion
     \/ \E l \in Loads : LoaderTurn(l)
     \/ \E c \in Fades : FadeTurn(c)

-----------------------------------------------------------------------------
\* Once nothing loads any more and the motion plays (a reset in every step would
\* hold it at its first frame), the policy is given frames of the motion the
\* library holds, whatever the cache held: frames read while a load tore the
\* library, or frames of the motion before.  It is the motion that motion_id
\* names, if the library has one of that number.  A load that raised leaves
\* nothing to be promised until the next one.
ServesTheLoadedMotion ==
  <>[](Loading = {} /\ content # Torn /\ ratio > 0 /\ pc # "offset")
    => <>[](frame = content /\ (motionId \in Library => frame = motionId))

\* A fade-out that no other fade overlaps brings the motion to rest: its chain
\* of timers hands out every step and writes the last one.
FadingOut == fade # <<>> /\ fade[Len(fade)] <= 0
FadeOutStops ==
  (FadingOut /\ Cardinality(Chained) = 1) ~> (ratio = 0 \/ Cardinality(Chained) > 1)
=============================================================================
