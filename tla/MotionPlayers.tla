---------------------------- MODULE MotionPlayers ----------------------------
(***************************************************************************)
(* The policies that play a motion and say when it is over: BeyondMimic,   *)
(* ASAP and the ProtoMotions tracker, with the BeyondMimicCtrl a policy    *)
(* without a motion of its own takes it from.  A pipeline step observes,   *)
(* acts and calls the callbacks with the commands of the step; between     *)
(* steps the multi-policy pipeline moves the clock of a BeyondMimic        *)
(* policy: a SAFE window, a seek to the music's phase, a new entry.        *)
(*                                                                         *)
(* A motion is a record:                                                   *)
(*   kind    "beyondmimic", "asap" or "tracker"                            *)
(*   poses   the reference, frame by frame; the last one is held           *)
(*   max     max_timestep, the length of the motion, or 0                  *)
(*   speed   what a step adds to the clock, TicksPerFrame at native speed  *)
(*   auto    auto_motion_length, with motion_length_stable_steps (still)   *)
(*           and motion_length_min_active_steps (active)                   *)
(*   own     use_motion_from_model; else BeyondMimicCtrl has the motion    *)
(***************************************************************************)
EXTENDS Integers, Sequences, SequencesExt, FiniteSetsExt

CONSTANTS
  Motions,       \* the motions that are played
  Windows,       \* the SAFE windows, as [from, to]
  TicksPerFrame, \* how finely the clock is told, for speeds other than native
  MaxOrders,     \* bound: steps with commands, seeks and entries
  MaxClock       \* bound: clock of a motion that plays on after its end

VARIABLES
  motion,   \* the policy's configuration
  player,   \* the policy
  dancer,   \* BeyondMimicCtrl: its clock and whether it plays
  reported, \* the last observation said [MOTION_DONE]
  stopped,  \* history: of all that starts or stops the motion, a fade-out was last
  orders    \* orders given so far

playerVars == <<motion, player, dancer, reported, stopped, orders>>

Kinds == {"beyondmimic", "asap", "tracker"}
ASSUME MotionsAssumption ==
  /\ \A m \in Motions :
       /\ m.kind \in Kinds
       /\ m.poses \in Seq(Nat \ {0}) /\ m.poses # <<>>
       /\ m.speed \in Nat \ {0} /\ m.max \in Int
       /\ m.still \in Nat /\ m.active \in Nat
       /\ m.auto \in BOOLEAN /\ m.own \in BOOLEAN
  \* check_modelmeta of BeyondMimicPolicyCfg
  /\ \A m \in Motions : m.auto => m.own /\ m.max <= 0
  /\ \A w \in Windows : w.from \in Nat /\ w.to \in Nat /\ w.from < w.to
  /\ TicksPerFrame \in Nat \ {0}
  /\ MaxClock \in Nat

Frame(clock) == clock \div TicksPerFrame
LastFrame(m) == Len(m.poses) - 1
Pose(m, clock) == m.poses[Min({Frame(clock), LastFrame(m)}) + 1]
NoPose == 0

Orders == {"reset", "fade_in", "fade_out"}
\* COMMANDS is a set made a list: any order.
CommandLists == UNION {SetToSeqs(s) : s \in SUBSET Orders}

-----------------------------------------------------------------------------
(***************************************************************************)
(* BeyondMimicPolicy                                                       *)
(***************************************************************************)

\* The detector of the end of a motion without a length.
Unwatched == [prev |-> NoPose, still |-> 0, active |-> 0, seen |-> FALSE]

\* reset(), with the network run once for the reference's first frame.
BeyondMimicReset(m, p) ==
  [p EXCEPT !.clock = 0, !.speed = m.speed, !.done = FALSE, !.watch = Unwatched,
            !.command = IF m.own THEN Pose(m, 0) ELSE NoPose]

\* get_action: the network gives the action and the reference of int(timestep).
Acted(m, p) == IF m.own THEN [p EXCEPT !.command = Pose(m, p.clock)] ELSE p

OverUnsaid(p) == [p EXCEPT !.speed = 0]
Over(p) == [p EXCEPT !.speed = 0, !.done = TRUE]
Advanced(p) ==
  LET q == [p EXCEPT !.clock = Min({@ + p.speed, MaxClock})]
  IN IF 0 < p.max /\ p.max <= q.clock THEN Over(q) ELSE q

Watching(m, p) == m.auto /\ m.own /\ p.max <= 0 /\ ~p.done /\ p.speed > 0
Noted(m, w, pose) ==
  IF pose # w.prev
  THEN [prev |-> pose, still |-> 0, active |-> Min({w.active + 1, m.active}),
        seen |-> w.seen \/ w.active + 1 >= m.active]
  ELSE [w EXCEPT !.still = Min({@ + 1, m.still})]
Watched(m, p) ==
  IF ~Watching(m, p) THEN p
  ELSE IF p.watch.prev = NoPose THEN [p EXCEPT !.watch.prev = p.command]
  ELSE LET q == [p EXCEPT !.watch = Noted(m, @, p.command)]
       IN IF q.watch.seen /\ q.watch.still >= m.still THEN Over(q) ELSE q

BeyondMimicObeys(m, p, c) ==
  CASE c = "reset" -> BeyondMimicReset(m, p)
    [] c = "fade_in" -> [p EXCEPT !.speed = m.speed]
    [] c = "fade_out" -> [p EXCEPT !.speed = 0]

\* _apply_safe_window: reset(), then the window.
InWindow(m, p, w) ==
  [BeyondMimicReset(m, p) EXCEPT !.clock = w.from, !.max = w.to]

\* _reset_policy_runtime_overrides and the reset of switch_policy.
Entered(m, p) == BeyondMimicReset(m, [p EXCEPT !.max = m.max])

\* _apply_phase_seek, and the loop of a motion that had finished.
SoughtStill(m, p, clock) ==
  IF p.done THEN BeyondMimicReset(m, p)
  ELSE [p EXCEPT !.clock = clock, !.watch.seen = TRUE]
Sought(m, p, clock) ==
  IF p.done THEN BeyondMimicReset(m, p)
  ELSE [p EXCEPT !.clock = clock, !.watch.still = 0, !.watch.seen = TRUE]

-----------------------------------------------------------------------------
(***************************************************************************)
(* BeyondMimicCtrl: stands at the last frame, and starts paused            *)
(***************************************************************************)
DancerObeys(d, c) ==
  CASE c = "reset" -> [d EXCEPT !.frame = 0]
    [] c = "fade_in" -> [d EXCEPT !.playing = TRUE]
    [] c = "fade_out" -> [d EXCEPT !.playing = FALSE]
DancerStep(m, d, cs) ==
  FoldLeft(DancerObeys,
           IF d.playing /\ d.frame < LastFrame(m) THEN [d EXCEPT !.frame = @ + 1] ELSE d,
           cs)

-----------------------------------------------------------------------------
(***************************************************************************)
(* AsapPolicy: the phase decides before the clock moves                    *)
(***************************************************************************)
AsapReset(m, p) == [p EXCEPT !.clock = 0, !.speed = m.speed, !.done = FALSE]
AsapObeys(m, p, c) ==
  CASE c = "reset" -> AsapReset(m, p)
    [] c = "fade_in" -> [p EXCEPT !.speed = m.speed]
    [] c = "fade_out" -> [p EXCEPT !.speed = 0]
AsapAdvanced(m, p) ==
  IF p.clock >= m.max THEN [p EXCEPT !.done = TRUE]
                      ELSE [p EXCEPT !.clock = @ + p.speed]

\* The commands of a step, one after the other, after its time has passed.
Obeys(m, p, c) == IF m.kind = "asap" THEN AsapObeys(m, p, c) ELSE BeyondMimicObeys(m, p, c)
Obeyed(m, p, cs) ==
  LET after[n \in 0..Len(cs)] == IF n = 0 THEN p ELSE Obeys(m, after[n - 1], cs[n])
  IN  after[Len(cs)]

BeyondMimicStep(m, p, cs) == Obeyed(m, Watched(m, Advanced(p)), cs)
AsapStep(m, p, cs) == Obeyed(m, AsapAdvanced(m, p), cs)

(***************************************************************************)
(* ProtoMotionsTrackerPolicy: never paused, and a fade-in starts over      *)
(***************************************************************************)
TrackerReset(p) == [p EXCEPT !.clock = 0, !.done = FALSE]
TrackerAdvanced(m, p) ==
  IF Frame(p.clock) >= LastFrame(m) THEN [p EXCEPT !.done = TRUE]
                                    ELSE [p EXCEPT !.clock = @ + TicksPerFrame]
TrackerStep(m, p, cs) ==
  IF \E c \in ToSet(cs) : c \in {"reset", "fade_in"}
  THEN TrackerReset(p)
  ELSE TrackerAdvanced(m, p)

-----------------------------------------------------------------------------
PlayersInit ==
  /\ motion \in Motions
  /\ player = [clock |-> 0, speed |-> motion.speed, done |-> FALSE,
               max |-> motion.max, watch |-> Unwatched,
               command |-> IF motion.own THEN Pose(motion, 0) ELSE NoPose]
  /\ dancer = [frame |-> 0, playing |-> FALSE]
  /\ reported = FALSE
  /\ stopped = FALSE
  /\ orders = 0

After(cs) ==
  CASE motion.kind = "beyondmimic" -> BeyondMimicStep(motion, Acted(motion, player), cs)
    [] motion.kind = "asap" -> AsapStep(motion, player, cs)
    [] motion.kind = "tracker" -> TrackerStep(motion, player, cs)

\* A step of the pipeline: observe, act, the controllers' callbacks, the policy's.
PolicyStep(cs) ==
  /\ cs # <<>> => orders < MaxOrders
  /\ orders' = orders + (IF cs = <<>> THEN 0 ELSE 1)
  /\ reported' = player.done
  /\ dancer' = IF motion.own THEN dancer ELSE DancerStep(motion, dancer, cs)
  /\ player' = After(cs)
  /\ stopped' = IF cs = <<>> THEN stopped ELSE Last(cs) = "fade_out"
  /\ UNCHANGED motion

Ordered(p) ==
  /\ motion.kind = "beyondmimic" /\ motion.own
  /\ orders < MaxOrders
  /\ orders' = orders + 1
  /\ player' = p
  /\ UNCHANGED <<motion, dancer, reported>>

SafeWindow ==
  /\ \E w \in Windows : Ordered(InWindow(motion, player, w))
  /\ stopped' = FALSE
\* The music's offset, folded into the nominal length of the motion.
PhaseSeek ==
  /\ \E f \in 0..LastFrame(motion) : Ordered(Sought(motion, player, f * TicksPerFrame))
  /\ stopped' = (stopped /\ ~player.done)
EnterAgain ==
  /\ Ordered(Entered(motion, player))
  /\ stopped' = FALSE

PlayersNext ==
  \/ \E cs \in CommandLists : PolicyStep(cs)
  \/ SafeWindow
  \/ PhaseSeek
  \/ EnterAgain

-----------------------------------------------------------------------------
\* The reference stands still from this frame on.
AtRest(m, clock) == \A f \in 0..LastFrame(m) : f >= Frame(clock) => m.poses[f + 1] = Last(m.poses)

\* The references whose end can be found by watching them: in none of them do
\* motion_length_stable_steps steps in a row see the same pose before its end.
PausesAreShort ==
  \A m \in Motions :
    m.auto =>
      /\ \A c \in 0..MaxClock :
           (\A j \in 0..m.still - 1 : Pose(m, c + j * m.speed) = Pose(m, c))
             => AtRest(m, c + m.still * m.speed)
      \* the bound on the clock lies behind the end
      /\ AtRest(m, MaxClock)

\* A motion is called done at its end and not in a pause of it, whatever was
\* skipped, repeated or paused before: a length that is configured or set by
\* a SAFE window has passed, the last frame is reached, or, for the length
\* found by watching the reference (motion_length_stable_steps), nothing
\* moves from here on.
DoneOnlyAtTheEnd ==
  player.done =>
    /\ motion.kind = "tracker" => Frame(player.clock) = LastFrame(motion)
    /\ motion.kind = "asap" => player.clock >= motion.max
    /\ motion.kind = "beyondmimic" =>
         IF player.max > 0 THEN player.clock >= player.max ELSE AtRest(motion, player.clock)

\* A motion with an end that is not faded out for good is reported as done,
\* again and again (the pipeline waits for [MOTION_DONE] to leave it), whatever
\* order of resets, fades, windows and seeks came before.  That it stands still
\* at its end is no excuse: only a fade-out that was ordered is one, and to the
\* tracker, which ignores it, not even that.
PlaysToItsEnd ==
  (motion.kind = "beyondmimic" => motion.auto \/ motion.max > 0)
    => []<>(reported \/ (stopped /\ motion.kind # "tracker"))
=============================================================================
