# Verification of semantic-WBC

TLA+ models, TLC runs and TLAPS proofs for the multi-policy whole-body
controller of the Unitree G1 kept in this repository. Paths below are relative
to the repository's root; `P` stands for
`robojudo/pipeline/rl_multi_policy_pipeline.py`.

1. [The system](#1-the-system)
2. [What is hard about it](#2-what-is-hard-about-it)
3. [The modules](#3-the-modules)
4. [The runs](#4-the-runs)
5. [The proofs](#5-the-proofs)
6. [Where the code and its words part](#6-where-the-code-and-its-words-part)
7. [Abstractions, and what is not modelled](#7-abstractions-and-what-is-not-modelled)
8. [Plan](#8-plan)
9. [Running it](#9-running-it)

## 1. The system

A robot process (`scripts/run_pipeline.py`) runs a *pipeline*: an endless loop
that reads the controllers, evaluates the current policy, sends the policy's
target to the environment (a simulator or the robot) and reacts to the commands
of that step. Policies are neural networks: Walk, Stand, gestures, and dances
(BeyondMimic motions). A PC hears music or speech and sends the robot lines such
as `[POLICY_SWITCH],3` or `[GESTI,2.5]`. There are no tests in the repository.

```
 listeners (PC)            controllers (robot)            pipeline              environment
 listen_smart_mic ──TCP──> MusicCommandSocketCtrl ─┐
 gesture sender   ──TCP──> MusicCommandSocketClient┤
                           keyboard, joystick, GUI ┼─ CtrlManager ─> RlMultiPolicyPipeline
 chunk files ────────────> ShazamFileWatchCtrl ────┘   (COMMANDS)     └─ PolicyManager ─ StepTimer
                             (watcher thread, queue) <── peek/pop ──┘        │ targets, gains
                                                                             v
                                                     UnitreeCppEnv ─> C++ controller + writer thread
                                                     UnitreeEnv ────> low_cmd + control thread
```

| component | state it keeps | operations | what makes it correct |
|---|---|---|---|
| `PolicyManager` (P:22-112), `StepTimer` | current policy, warmup set, tasks by delay | schedule a switch, tick, land | several switches in one tick land in order; a warmed-up policy is one on its way |
| `RlMultiPolicyPipeline` (P:114-1095) | prime (pending dance, hold), MOTION_DONE latch, gesture timer, SAFE windows | requests by command, callback, timer; step; reset | dances start from a held Stand; no prime, latch or finished motion is left standing |
| its automatic sources (P:441-992) | song, last hit, segment | arbitration of Shazam, MOTION_DONE, time-box | one automatic switch a step; chunks applied in order; the queue drains |
| `ShazamFileWatchCtrl` | chunk cursor, bounded queue of hits | scan, handle, peek, pop, reset | order; newest hits survive a full queue |
| `RlLocoMimicPipeline` | interpolation, override of the upper body, its tasks | requests, toggle, interpolate | a mimic starts from its own pose; walking goes on with walking arms |
| C++ controller (`packages/unitree_cpp`), `UnitreeCppEnv` | gains, command buffer, writer thread | step, set gains, shutdown | targets with their own gains; a stop sticks |
| `UnitreeEnv` (Python) | one shared `low_cmd`, control thread | fill, checksum, write, damping | torn commands are bounded; a stop sticks |
| joystick, keyboard | event queue, modifiers on hold | get events, process triggers, reset | every event counts, modifiers are what is held |
| `CtrlManager` | — | merge the commands of a step through a set | no command twice; order open |
| TCP controllers, either end of the link serving | connection, time-out, bounded deque | accept, receive, drop a silent peer, connect again, drain, reset | order kept, nothing twice, nothing invented, a line lost only to a connection the robot has left, one line to each |
| listeners, gesture sender | clips, last line sent and its age, outgoing line, own speech | hear, resolve, throttle, send, retry, finish | a song that plays is danced to; a quiet room moves nothing |
| `BeyondMimicPolicy` and the other motion policies | clock, done flag, length watch, speed | step, reset, fades, windows, phase seek, entry | a motion ends, at its end, and says so |
| `MotionCtrl` and its kin | motion, time, offset, cache, loader threads, fade timers | load, reset, fade, read a frame | the frames are of the motion the library holds |
| `TwistRedisCtrl` | worker, small buffer, last value | poll, reconnect, take the oldest | never back, at last the last value |
| configuration (`config/`, `tools/dof.py`, the `*_cfgs.py`) | — | look up, inherit, merge joint tables, map motors | a joint gets its own values; a key starts the policy it names |
| other policies, GUIs, simulators, audio and song identification | numeric or I/O | — | — |

`PROJECT.json` lists every component with its sources and whether it is
modelled, and every hazard at its line.

**Interactions.** Controllers reach the pipeline in two ways: through the list
`COMMANDS` of a step, merged by `CtrlManager.get_ctrl_data` from *sets* (so
without repetition, in an order nobody chose), and, for the Shazam watcher only,
through `peek_pending`/`pop_pending` called from `post_step_callback` while the
watcher's own thread appends. Policies reach the pipeline through
`extras["CALLBACK"]` (`[MOTION_DONE]`). The pipeline reaches the environment
through `step`, `set_gains` and `shutdown`, behind which a thread of the
environment goes on publishing.

## 2. What is hard about it

* *Delayed switches.* A request is scheduled `DELAY_STEPS_SWITCH` (10) or one step
  ahead and is never cancelled by a later one. Requests, primes, toggles, gestures,
  finished motions and music overtake each other; what is pending is checked
  against a `current` that may have changed by the time it lands.
* *Latches.* The Stand prime, the MOTION_DONE latch, the gesture timer and the
  window of a SAFE switch are set in one step and cleared several steps later by
  a condition that another switch may prevent.
* *Several automatic sources in one step*, kept apart by local flags
  (`shazam_applied_this_step`, `_boundary_consumed_this_step`).
* *Threads.* The Shazam watcher and the pipeline on one deque, between a look and
  the taking; the C++ writer and the pipeline on one buffer and one stop; the
  Python control thread and the pipeline on one message object.
* *Tasks that outlive their reason.* The loco-mimic interpolation's start and end
  are timer tasks that a newer interpolation does not cancel.
* *Loops that change what they iterate over* (the button controllers).
* *Connections* that a server drops after two seconds of silence while the sender
  keeps its end open; a subscriber that reconnects with an empty buffer; a sender
  that repeats only what it has not sent lately.
* *Timelines* with several hands on them: seeks, windows, resets, fades and pauses,
  and an end that is recognised by nothing moving.
* *Threads of a motion library*: loaders behind a lock that is only looked at, fade
  timers that start one another, a cache whose key lacks the motion.
* *Numbers repeated by hand*: policy numbers are positions in concatenated lists;
  joints are counted in one order by a policy, in another by the environment, in a
  third by the motors.

## 3. The modules

| module | models | composes |
|---|---|---|
| `PolicyManager` | `PolicyManager`, `StepTimer` | — |
| `MultiPolicyPipeline` | `RlMultiPolicyPipeline`, with the arbitration as one action | extends `PolicyManager` |
| `NewestRequest` | no code: the pipeline with a history, the policy asked for last | extends `MultiPolicyPipeline` |
| `ShazamFileWatch` | the watcher's queue | — |
| `ShazamArbitration` | the arbitration step by step, the watcher between its steps | extends `MultiPolicyPipeline` and `ShazamFileWatch`; implements `MultiPolicyPipeline` |
| `LocoMimicPipeline` | `RlLocoMimicPipeline`, `PolicyInterpManager` | — |
| `MotorLink` | abstract: what an environment promises of its motor commands | — |
| `UnitreeController` | `UnitreeCppEnv` and the C++ `UnitreeController` | implements `MotorLink` |
| `UnitreeEnv` | the Python environment's message object | — |
| `ControllerInput` | `JoystickCtrl`, `KeyboardCtrl` and their device threads | — |
| `DofAdapter` | `DoFAdapter`, `DoFConfig`'s subsets, `merge_dof_cfgs` | — |
| `JointTables`, `Configurations` | the joint tables and every registered configuration | extend `DofAdapter` |
| `Commissioning` | a pipeline from its constructor through `prepare()` to the motors: current policy, merged joint table, pose, what each motor was sent | extends `DofAdapter` |
| `Cockpit` | a robot under its keys and buttons | extends `ControllerInput` and `Commissioning` |
| `CommandChannel` | abstract: what a link between PC and robot promises | extends `CommandInbox` |
| `CommandInbox` | the deque behind both TCP controllers | — |
| `CommandServerLink`, `CommandClientLink` | the robot serves and the PC connects; the PC serves and the robot subscribes | extend `CommandInbox` |
| `SongRules` | from what was heard to a policy: rules, timed rules, fall-backs | — |
| `MusicListener` | the three listeners and the gesture sender at one robot | extends `SongRules` and both links; implements `CommandChannel` |
| `MotionPlayers` | BeyondMimic, ASAP, tracker motions, `BeyondMimicCtrl` | — |
| `MotionCtrl` | the motion library's controller and its threads | — |
| `TwistRedisCtrl` | the Redis worker and its reader | — |
| `MotionPlayback` | a pipeline with one of these three sources | extends all three |
| `MC*` | instances: command sets, bounds | — |
| `*_proofs` | theorems | — |

### PolicyManager and MultiPolicyPipeline

The step timer is `timer`, a function from the remaining delay to the sequence of
policies that land when it is over. `SwitchPolicy` schedules and warms up;
`Landed` is what one tick leaves: every due switch lands in turn, so the last one
decides. The policy is reset when the switch is requested, not when it lands: that
takes a finished motion off `done`, also when the request is to the policy that runs.

A step of the code (`step`, P:1065, with `post_step_callback`, P:804) is five
actions in the code's order, distinguished by `pc`:

| action | code |
|---|---|
| `ReadControls` / `SimReborn` | commands are read, the policy is evaluated and its `[MOTION_DONE]` collected; a reborn switches to Walk, clears timer, prime and warmup, and the step goes on with the other commands |
| `StartPostStep` | gesture lines are expanded and the gesture timer's switch is appended; the window a SAFE switch waits for is cleared |
| `Arbitrate` | Shazam, MOTION_DONE and the time-box, at most one of which asks for a policy |
| `Dispatch` | one command: switch, direct, safe, toggle, token and the others |
| `FinishStep`, `…Holding`, `…Launching` | the policy's callback, the latch, the prime's hold, the timer's tick |

These are steps of one thread, so splitting them adds no interleaving; it lets
each be read beside its lines. `_request_policy_switch` is `RequestPolicySwitch`,
the disjunction of a direct switch (P:362), a prime (P:384) and an ordinary switch
(P:376-402). `DeadlinePasses` is the clock of the gesture timer. `Reset`,
`SelfChecked` and `PrepareReset` are the resets of the constructor and of
`prepare()`; as in the code they clear the timer and keep the warmup set.
`standRun` is a history variable: how long Stand has run.

### ShazamFileWatch and ShazamArbitration

`ShazamFileWatch` has the chunk cursor and the queue: a chunk is handled in index
order (or not: `InOrder`), identified or ignored, delayed by `controller_delay`
("held" until released), and grows old at `max_chunk_age`. `AfterPop` and `Peek`
are what the pipeline calls. `ShazamArbitration` replaces the action `Arbitrate`
by the code's steps 0 to 3: dropping stale hits and draining while a prime is armed
(look, then take), the look that decides between "same song" and "another",
`PopSame`/`PopOther`, MOTION_DONE with its loop in place or its fallback, the
segment's time-box, and `ArbitrationEnds`. Every look and every taking of the queue
is an action of its own, and the watcher may act in between. The wishes of the
arbitration are collected in its local variables, exactly as no other thread can
see them, and handed over in `ArbitrationEnds`, which is the step that maps to
`Arbitrate`; all others stutter. `ImplementsPipeline` is that claim: the two modules
share the pipeline's variables, so the mapping is the identity and the claim is
`MultiPolicyPipeline`'s `Spec` itself.

### LocoMimicPipeline

Two modes: walking with an overridden upper body, and a mimic. `Interpolate` is
`_interpolate_init`: it sets the goal and puts two tasks on the timer. `Starts` and
`Ends` are the checks the tasks make of the *state they find*, which is all that
protects the running interpolation from tasks of overtaken ones. The order of the
two switches is the code's: back to walking the policy changes at the start of the
interpolation, to a mimic at its end. Since a task only looks at the state, those
due in one tick commute, and the timer holds sets. Poses are named by the policy
they belong to, `Between` being any other. `interrupted` is a history variable:
`prepare()`'s reset dropped the timer of a pipeline that was not at rest.

### UnitreeController, MotorLink, UnitreeEnv

`UnitreeController` has two threads. The pipeline's `Issue` fills the command
buffer with a target and the gains in force, takes it and writes it; the writer
thread takes the buffer and writes it every `control_dt`. Taking and writing are
separate: in between the other thread may publish something newer. `SetPolicy` is
`update_dof_cfg`'s `set_gains`, `Shutdown` the Python and `StopStep` the C++ half of
a shutdown; `Interrupted` is an exception or Ctrl+C in the step loop.
`MotorLink` is the abstract environment: until the stop whole commands, after it at
most one that was already on its way, then only damping. The refinement mapping
`link` reads from buffer and writer's hand whether such a command exists.

`UnitreeEnv` has the one message object both threads share: the pipeline thread
fills it cell by cell (target and gains of each motor), either thread computes the
checksum and writes; a robot accepts a message whose checksum fits. `send_cmd`
computes the checksum in C and assigns it, here one step. That a robot drops
messages with a wrong checksum is the robot's doing and not code of the
repository.

### ControllerInput

The device's thread puts presses and releases on a bounded queue and waits when it
is full. `GetEvents` takes all of them; `LookAt` is one iteration of
`process_triggers`, in which an event that gave a command is removed from the
list being iterated over, so that the one behind it moves to an index already passed.

### Configurations, Commissioning and Cockpit

`Configurations` writes each configuration as the code does: an environment, the
triggers of its controllers (`triggers_extra` laid over `triggers`), the policies.
Python's inheritance is `EXCEPT`. Every joint is a pair of a side and a part, every
joint table a list of joints and, per property, a value that is *named* by what
wrote it and for which joint: `DofAdapter` can then be checked for putting each value where it
belongs, without the numbers. `legend` is what the overlay, the docstring or the
name says a key, button or song starts.

`Commissioning` runs any of them: `Construct`, `prepare()` as `PrepareStep`,
`PrepareReset` and `PrepareDone`, `Step`, and an `Order` by a trigger or by a song.
`MergeDof(env.dof, …)` is `merge_dof_cfgs` from the environment's own table (not
from the one in force), `PdTarget` the wrapper's fit of an action, `Sent` the
environment's `joint2motor_idx`. A switch of policy is one step here; its delay, Stand
prime and interpolation are in the pipelines' own modules. `Cockpit` puts the event
loop of `ControllerInput` in front of one configuration, so that an order is what the loop
makes of presses, releases and the held modifier; in all others the trigger is given.

### The links and the listeners

`CommandServerLink` has the controller's thread as it waits, receives and drops, one
connection per sender at the robot, and at each sender's socket what `sendall()`
will make of the next line: into the connection, lost without an error (the robot closed it
and no reset came back yet), or an error that makes `send_line` connect again.
`CommandClientLink` is the other direction: one line at a time goes to whoever is
connected, the robot connects again after an error with an empty buffer.
`CommandChannel` is what both promise: order kept, no line twice, none invented, and while
the robot runs a line is lost only to a connection that the robot has left and the sender
has not noticed; each such connection takes one line, then `sendall()` fails on it and the
next line goes elsewhere. `ImplementsChannel` maps, for either link, a sender's `saying` to
the line it has in hand, `flight` to its unread lines, `link` to the robot's end of its
connection, and `left` to the number of connections left behind: where the robot serves
one if the sender's socket is "dropped"; where it subscribes those that the PC holds or that
wait to be accepted (`pcSock`, `pending`), but the one the robot reads. A line that is sent must use
up one of `left` (`Swallow`) before any can arrive (`Send`), so a link that keeps swallowing, or
swallows a line with nobody having left, is no implementation. Where the robot serves, it leaves a
connection only after everything on it was read, so no two lines of a sender in a row are
lost. Where it subscribes, it may leave several connections before the PC sends a
line, and each of them then takes one: several in a row may be lost, never more than
connections were left (section 6).

`MusicListener` advances in chunks. In each the room is heard (`HearNothing`,
`HearMusic`, `HearSpeech`: a clip is resolved by what the ways of identification of the
command line can make of it, and by `SongRules`), the throttle compares with the
last line sent and its age, and the line is sent, refused, retried or lost.
`EndOfFile`, `SendFinal` and `Finish` are the offline listener's end with its final
policy. The gesture sender is a second sender on the same robot, with its own loop
(`GestiSays` makes the line, `GestiSends` sends it, `GestiSpoke` has played the reply); it connects to
the robot's server, so `SetupsAssumption` puts it beside listeners that connect too.

### Motions

`MotionPlayers` is a step of the pipeline seen from the policy: observe (and report
`[MOTION_DONE]`), act, callbacks; `SafeWindow`, `PhaseSeek` and `EnterAgain` are
what the multi-policy pipeline does to its clock between steps. The clock counts
fractions of a frame, since the play speed is not a whole number. `MotionCtrl` splits
each read and write of a shared field from the next: the pipeline's step, every
loader thread and every link of a chain of fade timers interleave between them. `LoadMotion`
starts a loader as the code does, for any number that is not the loaded one: nothing
compares it with the library. What the motion library (PHC, not in `src/`) does with
a number past its last motion is external: it loads one of its own (`MayLoad`) or raises,
which ends the thread and gives the lock back (`LoadFails`).

## 4. The runs

Eleven runs pass, one finds what section 6 describes. TLC visits every reachable
state of each instance; every passing property has a mutant of a mapped definition
(an operator next to it, marked `Mutant:`) under which TLC finds it violated.

| run | instance | shows |
|---|---|---|
| `real` | `g1_gesti_multi_real` from `prepare()` on: 0 Stand (fallback, initial), 1 a gesture, 2 a dance, a music source | `LatchHasSwitch`, `PrimingInv`; under fairness `PrimeResolves`, `FinishedMotionIsLeft` |
| `sim` | `g1_switch_beyondmimic` from the constructor's self check on: 0 Walk, 1 Stand, 2-3 dances, toggles, reborns | `WarmupIsScheduled`, `DanceOnlyFromHeldStand` |
| `skip` | `g1_switch_beyondmimic_gesti_safe`: no prime, SAFE windows, direct and music switches, one command a step | `NewestRequestWins` |
| `shazam` | `g1_shazam_beyondmimic`, three chunks, two songs, one of them with a wrong rule | `AtMostOneAutoSwitch`, `ChunksInOrder` |
| `shazam_prime` | the same with the Stand prime, from `prepare()` on | `ImplementsPipeline`, `QueueDrains` |
| `loco_mimic` | two mimics, four requests | `InterpInv`, `MimicFromItsPose`; under fairness `InterpolationEnds`, `FinishedMimicIsLeft` |
| `unitree_cpp` | three policies | `GainsMatchTarget`, `ControllerInv`, `ImplementsMotorLink`; under fairness `StaysDamped` |
| `unitree_env` | two motors, three commands and the damping one | `TearsAreNeighbours`, `FilledInv`, `DampedAfterShutdown`; under fairness `StaysDamped` |
| `inputs` | every shipped configuration under all its triggers and songs; `g1_switch` under presses and releases of its modifier and three buttons | joints: `GainsOfTheRunningPolicy`, `MotorsGetTheirJoint`, `LegsStayWithThePolicy`; policies: `OrdersKeepTheirPromise`, `TakesOverFromItsPose`; buttons: `LostOnlyBehindACommand`, `HoldsWhatIsReported` |
| `remote` | seven command lines of the listeners, with and without the gesture sender, on either link | `ImplementsChannel`, `QuietRoomMovesNothing`; under fairness `SongIsPlayed`, `FinalPolicyArrives` |
| `playback` | seven motions of three policies, a library of two motions, a Redis key | `DoneOnlyAtTheEnd`, `NeverBackwards`; under fairness `PlaysToItsEnd`, `ServesTheLoadedMotion`, `FadeOutStops`, `EndsAtTheLastValue` |
| `stuck_prime` | as `real` with a prime that is overtaken | `PrimeResolves` is violated |

**Bounds, and why they are enough.**

* `DELAY_STEPS_SWITCH` is 3 (2 with Shazam) for 10. What matters is that it exceeds
  the delay 1 of a landing dance and of a direct switch and leaves a step between a
  request and its landing in which another one can come.
* `HoldSteps` is 4 in `real`, more than the delay, as 25 exceeds 10 in the code; 2
  elsewhere, less than the delay, the other order.
* `MaxCommands` (a step) is 2, so that two commands of one step meet in either
  order (1 in `skip`); `MaxIssued` (a behaviour) is 3 or 4 (2 in `stuck_prime`, 1
  beside Shazam's hits): a prime, the request that overtakes it and the one that
  overtakes that. Finished motions, hits and timers are not counted.
* Policies: one of each role of the configuration, two dances where it has several.
* `Chunks` 2-3 on a queue of 2: three overfill it, so a look and a taking can return
  different hits. A hit is held, ready or old; the time-box and the song's last hit
  are due or not. No property depends on how long, only on the order.
* `Lead`, `Ramp`, `Trail` are 3 for 25, 75, 25: each phase is long enough for a
  request to fall before, into and after the tasks of the one it overtakes.
* `NumDofs` 2 has a boundary between two motors and one inside a motor; three
  commands make two consecutive pairs. The three policies of `unitree_cpp` let a
  command be two switches old.
* `inputs`: no bound on orders and switches, and the joint tables are the real ones.
  `QueueSize` 3 and `MaxEvents` 4 fill the queue, hold the modifier, give a command
  and put its release right behind it.
* `remote`: two songs of which one's name contains the other's, one timed rule; a
  deque of two lines, three final lines, so that a burst overfills it; a lost line is
  one chunk, the robot's time-out and the throttle two. How often the robot crashes,
  songs change or lines are lost is not bounded.
* `playback`: four ticks a frame tell speeds 0.75, 1 and 1.5 apart; a step takes
  up to three commands in any order, seeks, windows or entries; a pause of the reference is
  shorter than the steps after which it is taken for the end, as
  `motion_length_stable_steps` intends. The library has the motions 0 and 1, and 0 to 2 are
  asked for, by the commands and by the window. Two loads and fades in any combination are
  the fewest that meet; four reference values overfill a buffer of two.

**Fairness and why the code justifies it.** The step loop is a `while True` with no
blocking call in it, so `MCFairSpec` and `FairSpec` demand that a step begins and
goes on, and that clocks pass; no command, chunk, hit or finished motion ever has to
come. In `UnitreeController` the writer is a recurrent thread; of the pipeline only a
shutdown that was begun is demanded to be carried through. In `UnitreeEnv` both
threads run on. `MusicListener` demands the same of the listeners' loops, the
controller's thread, and time; strongly of a pipeline step, since a pipeline that is
reset now and then is not reset before each of its steps. The song, the robot's
program and the connections owe nothing: `SongIsPlayed` assumes a song that goes on
and a robot that stays up, in the property itself. In `MotionPlayback` the pipeline, the loaders
and the timers go on; strongly fair are what a step's commands or a reset can put
off but not for ever, and a poll of a connection that comes and goes. `Cockpit` needs
none.

**Deadlock** is checked except in `unitree_cpp`, where Ctrl+C ends the program.

## 5. The proofs

TLAPS proves the following for *every* value of the constants that the named
assumptions (`PipelineAssumption` and the like, each as weak as a configuration
allows) admit. TLC evaluates those assumptions on the instances of section 4.

| module | theorem | says |
|---|---|---|
| `MultiPolicyPipeline_proofs` | `TypeCorrect` | `Spec => []TypeOK` |
| | `PrimingCorrect` | `PrimingConfig => (Spec => []PrimingInv)` |
| | `DanceEnteredFromHeldStand` | in such a pipeline `DanceOnlyFromHeldStand` |
| | `WarmupOnlyWhileScheduled` | `NoPrepare`: `Spec => []WarmupIsScheduled` |
| | `PrimeHasItsEnd`, `PrimeRunsDown` | `OnlyStandWaits`: `Spec => []PrimeIsTimed`, `Spec => PrimeCountsDown` |
| | `LatchAlwaysHasSwitch` | `LatchConfig`: `Spec => []LatchHasSwitch` |
| | `NewestRequestIsHonoured` | `NewestConfig`: `NewestSpec => []NewestRequestWins` |
| `ShazamArbitration_proofs` | `OneAutoSwitchAtMost` | `ShazamSpec => []AtMostOneAutoSwitch` |
| | `ShazamImplementsPipeline` | `ShazamSpec => ImplementsPipeline` |
| | `ShazamKeepsPromises` | hence held Stand, warmup, latch and the prime's end, with Shazam |
| | `HitsAppliedInOrder` | `InOrder`: `ShazamSpec => ChunksInOrder` |
| `LocoMimicPipeline_proofs` | `TypeCorrect` | `Spec => []TypeOK` |
| | `InterpCorrect` | `Spec => []InterpInv` |
| | `MimicEntersFromItsPose` | `Spec => MimicFromItsPose` |
| | `InterpolationHasItsEnd`, `EveryStepCounts` | `Spec => []InterpolationIsTimed`, and each step brings the end nearer |
| | `LeavingHasItsSwitch`, `NothingDelaysLeaving` | `Spec => []LeavingIsTimed`, and nothing puts the switch off |
| `UnitreeController_proofs` | `ControllerCorrect` | `Spec => []ControllerInv` |
| | `GainsCorrect` | `Spec => []GainsMatchTarget` |
| | `ControllerImplementsMotorLink` | `Spec => ImplementsMotorLink` |
| | `ShutdownDamps` | `FairSpec /\ []StepsAreTaken => StaysDamped` |
| `UnitreeEnv_proofs` | `FilledCorrect`, `ShutdownSticks` | `Spec => []FilledInv`, `Spec => DampedAfterShutdown` |
| | `TearsStayLocal` | `Spec => []TearsAreNeighbours` |
| | `ShutdownDamps` | `FairSpec /\ []StepsAreTaken /\ FillsEnd => StaysDamped` |
| `Cockpit_proofs` | `CommissioningInvariant` | `PipelineSpec => []CommissioningInv` |
| | `GainsAreOfTheRunningPolicy` | `PipelineSpec => []GainsOfTheRunningPolicy` |
| | `MotorsAreOfTheirJoint` | `PipelineSpec => []MotorsGetTheirJoint` |
| | `PreparedForItsPolicy` | `PipelineSpec => []TakesOverFromItsPose` |
| | `LegsAreThePolicys` | `OverridesUpperBody`: `PipelineSpec => LegsStayWithThePolicy` |
| | `OrdersAreKept` | `LegendsAreOfTheLists`: `PipelineSpec => []OrdersKeepTheirPromise` |
| | `OnlyTheEventBehindIsLost` | the event loop: `Spec => []LostOnlyBehindACommand` |
| | `HeldAsReported` | the event loop: `Spec => []HoldsWhatIsReported` |
| | `CockpitIsBoth` | `CockpitSpec => Spec /\ PipelineSpec` |
| | `CockpitKeepsPromises` | hence all seven properties above of `CockpitSpec` |
| `MotionPlayback_proofs` | `StreamGoesForwards` | `Spec => NeverBackwards` |
| | `MotionsEndAtTheirEnd` | `PausesAreShort`: `Spec => []DoneOnlyAtTheEnd` |
| | `LoadedMotionIsServed` | `Spec /\ []StepsAreTaken /\ FadesReturn => ServesTheLoadedMotion` |
| `MusicListener_proofs` | `LinksKeepTheChannelsPromise` | `Spec => ImplementsChannel` |
| | `NoMusicNoSwitch` | `Spec => QuietRoomMovesNothing` |

*Priming.* "A dance starts from a held Stand" is not inductive: when the dance lands,
the hold is over and forgotten. `PrimingInv` says where a dance on the timer can come
from: it lands in the very next tick, with Stand running, and Stand has run all but
one step of the hold. For that to be preserved while the hold counts down, the
timer must be empty (`Holding` requires it) and no request may schedule anything
without cancelling the prime, which `RequestOrdinary` does and what direct commands
do not; hence `PrimingConfig`.

*Warmup.* Every step adds to the timer and to the warmup set together
(`DispatchSchedules`), a tick takes off both what has landed. Only a reset does not:
it empties the timer and keeps the set. The constructor's reset comes before any
request, `prepare()`'s may come after one, so the theorem is about the pipelines that
never go through `prepare()` (`NoPrepare`: those of a simulator, or a robot's once it
runs). On a robot that gets a command during `prepare()` the property is false: the policy
is warmed up, and costs an inference per step, until a switch to it lands.

*A prime in time.* `PrimeResolves` is liveness; what can be proved for every delay and
hold is its bounded form. `ResolvesWithin(n)` looks at what the tick will land
(`Landed`), at the slots in use and at what is left of the hold, and counts the steps a
prime may still take. A finished step takes one off; a request for Stand clears the prime;
only a request for another dance starts the count again, at `MaxPrime`, the hold and the
longest delay. The hypothesis `OnlyStandWaits` (whoever is no dance is Stand) holds of
`g1_gesti_multi_real`, whose run is `real`; where a policy walks the claim is false, which is
what `stuck_prime` shows. On `real` TLC finds `PrimeIsTimed` true, and false with one step less.

*Latch.* The MOTION_DONE latch is released when the fallback is current at the end of a
step. `LatchInv` follows the switch that will make it so: it is the last command
still to be dispatched, or it is the last task of a timer slot to which the rest of
the step adds nothing. What breaks that is something landing *behind* the fallback
in the same tick, which takes two delays: the fallback scheduled ten steps ahead, and
later a prime's Stand or a direct switch one step ahead. `LatchConfig` excludes it:
either every switch is direct (`SkipPrime`), or the only short cut is the prime of a
Stand that is itself the fallback (or there is no Stand) and no command switches
directly. The instances `real`, `skip` and `shazam` satisfy it; those of `sim` and
`shazam_prime` do not, and in `sim` TLC finds `LatchHasSwitch` violated (section 6).

*Newest request.* Several switches may be on their way at once, and one tick may land
several. `EndsOn` says what the timer will end on, whatever happens in between: the
last task of the last slot in use, or the running policy if there is none. A tick
preserves it, since the slots move together and the last one landing decides
(`Landed`). A request makes it true of the policy asked for only if it is put behind
all others, that is if all requests take the same time. That is what `NewestConfig`
says: either none is direct and no dance waits on Stand, and any number of commands
may come in any order; or all are direct (`SkipPrime`). In the second case a request for the
running policy schedules nothing, so it must not follow one that is still to land:
`DirectInv` has the timer empty outside the dispatch, and whatever the gesture timer
and the automatic sources add to a step's one command asks for another policy than the
running one. `newest` is a history (`NewestIsHistory`), so `TypeOK` holds of `NewestSpec`.
The run `skip` is of the second kind; of the first are `g1_switch` and `h1_switch`, whose
policies all walk, which have no run of their own.
Where requests take one step or ten the property is false, as TLC finds on `sim`: the
older, slower one lands last.

*Arbitration.* `ArbInv` has three parts. `ClaimInv` relates the local flags of
`post_step_callback` to what has been asked so far: one request, of a policy that
`Arbitrate` may ask for, if `_boundary_consumed_this_step`, and none otherwise. `StageInv` says
what each stage may rely on, for instance that `PopOther` found a policy that is not the
running one, though the watcher has been at work since. `HitsInv` types the queue: a
hit of an existing policy names one the music may ask for, whatever is dropped,
overwritten or grown old in between. From `ArbInv` follow `AtMostOneAutoSwitch` and,
with the pipeline's `TypeOK`, that `ArbitrationEnds` is an `Arbitrate`, that the
steps around it are the pipeline's and all others stutter (`StepRefines`). So every
theorem about `Spec` holds of `ShazamSpec` (`ShazamKeepsPromises`). The order of the hits needs
`OrderInv`: indices rise along the queue, and the last applied hit is behind the
queue's head. Its hypothesis `InOrder` is the watcher's: files finish in the order of
their index; a directory in which they do not has no order to keep.

*Interpolation.* `InterpInv`: in progress or at its end an interpolation's target is
the pose of its goal and, if the goal is walking, walking already runs; at its end
the override is on the target. So when an end task fires in state END, whichever
interpolation put it there, the goal's own pose has been reached.

*Interpolations and mimics in time.* `EndIn(e)` says that what ends the interpolation is in
slot e of the timer, `LeavingIn(d)` the same of the switch out of a mimic. In every reachable state an
interpolation in progress has such a slot, within the steps its remaining phases take (unless
`prepare()`'s reset has emptied the timer under it: `interrupted`), and a
mimic that the flag does not ask for has one within `Lead`. A step moves either one slot down;
an order sets a new end for an interpolation but puts off no switch out of a mimic. So an
interpolation is over `Lead + Ramp + Trail + 1` steps after the last order, and a mimic is
left `Lead` steps after it was told to.

*Controller.* `ControllerInv`: whatever either thread has taken carries its own
policy's gains; once the stop's command is in the buffer the environment is disabled, so nothing
replaces it; the pipeline's hand is the buffer while it writes. The refinement to
`MotorLink` maps the stop's `SetCommand` to `Stop` and the writer's last old write to
`PublishLate`, and everything else to `Publish`, `PublishDamped` or a stutter.

`ShutdownDamps`, here and for the environment, is liveness without a count: after the stop
each thread passes a fixed chain of places (the writer's last old command, the stop's command
taken, written; in the environment, the object refilled, its checksum, the message), and
each link is one WF rule. See *Liveness* below for its hypotheses.

*Environment.* `FilledInv`: when the pipeline thread publishes, all cells are of one
command, and a disabled environment has only cells of the damping command. For the
torn commands `TearInv` adds that the cells ahead of the filling are all of one command, the
one directly before, or the damping one is being filled in: so the object is torn at
one place at most whenever the other thread looks.

*Commissioning.* The theorems hold for every set of configurations each of which is
`Valid` (`CfgAssumption`): the tables are tables of distinct joints, each policy
shares a joint with its environment, `joint2motor` sends every joint to the motor
that drives it, and an upper-body pose is written for the last joints. TLC evaluates that assumption for
the shipped ones on the run `inputs`, so the theorems apply to them. `CommissioningInv` says
that ids are in range; that the table in force is the merge of the *environment's*
table with the running policy's (`TableInv`; the reason no earlier policy leaves a
trace); that the pose and the override are written joint by joint (`KeptInv`); and
the motors' property itself. That a merge or a fit keeps a value with its joint is
`FitKeepsJoints` and `MergeKeepsJoints`, for any two orders of joints. `PoseInv` says
that during `prepare()` the pose is the one of the configuration's initial policy, and that
after its reset, until an order is carried out, this policy runs. `LegsAreThePolicys` has the hypothesis `OverridesUpperBody`, that a
configuration's override names no other joints: it is what the comment at
`g1_locomimic_pipeline_cfg.py:26` promises, and the shipped overrides satisfy it
(one off, and the run `inputs` fails: that is its mutant).

*Orders.* What a key promises is data, so `OrdersAreKept` has the hypothesis that the data is
right: every entry of a legend names the policy at its number (`LegendsAreOfTheLists`; TLC
evaluates it to true for the shipped configurations). Proved is that this is enough, through
`prepare()`, the merge of `triggers_extra`, songs, and numbers that no policy has.

*Buttons.* The loop removes from the list it iterates over, so an index means another
event after each removal. `LoopInv` relates the list to the one taken from the queue:
what is left is what was taken without the events that gave a command (`Stretch`), and every
event so far was looked at, or lies directly behind one of those (`Accounted`).
`Cockpit` changes either half's variables only by that half's steps (`CockpitIsBoth`,
whose invariant `PilotInv` says that a configuration is loaded and has the buttons' triggers).

*Stream.* `StreamInv`: the buffer is in the order in which the key was set, not older
than what the robot has, not newer than the key. Dropping the oldest, a reset and a
reconnection keep it.

*Motions.* `PlayingInv` has a part for each kind of policy. The tracker's clock is
always that of a frame, and of the last one when it is done; ASAP's clock stands when
it is done. For a BeyondMimic motion without a length `Steady` ties the watch to the clock:
the poses of the last `still` steps, counted back from the clock in steps of the native
speed, were all the last pose seen. A fade-out suspends clock and watch together; a
reset, a window, a seek or an entry makes the count zero, and that is why a seek may not
leave it alone (its mutant). Once the reference is at rest the count need not match the
clock, which may by then be held at its bound. When the count reaches
`motion_length_stable_steps`, `PausesAreShort` says that nothing moves from here on: in the
motions concerned no pause is as long as that. The hypothesis is what the parameter is
chosen by, TLC evaluates it on the motions of `playback`, and without it the property
is false (section 6). A step obeys up to three commands, in any order (`ObeysInTurn`).

*The loaded motion.* The cache is keyed by time and place and not by the motion, so after a load it
still serves the old one until the time moves. The promise is about what the library holds
(`content`), which is the motion `motion_id` names whenever the library has one of that number: a
number past the end may have loaded another one, and a load that raised leaves the library torn, after
which nothing is promised until the next load. `LibraryInv` types what the threads hold, relates
`motion_id` to the library's content outside a load, and keeps the time in its range; once no load is under way and the motion
plays, the pipeline comes round to its commands again and again (`LoopGoesOn`). Each round
takes the frame further along: the step in progress may have begun before the calm (`Later`), a
step finds another time (`Due`) and reads the library (`Current`), the policy is given what was
read (`Given`, `Served`).

*Links.* The refinement is by step simulation from `IInv`, five parts that need each
other. `LinkInv` relates a sender's socket to the connections at the robot: "live" has
an open connection, which is the sender's last, and a dropped or reset socket has none left
(that is why a line swallowed by "dropped" leaves nothing behind it). `ClientInv` is about the
other link: of the connections the PC holds or has waiting, the robot reads the last, and every other it has
left; so the count of `left` goes up by one when the robot leaves, and down by one when the PC writes into
one of them. `CloseInv` is about the moment between the robot's time-out and its close: at
most one line can come in, because its sender then has nothing more to send before time
passes. `SenderInv` is about senders that have ended or never connect, and `ListenerInv` types what is
heard and said. Abstractly a line is `Say`, then `Send`, `Swallow` or `Refuse`, and at last `Deliver`; a connection
is made (`Connect`, or with the first line by `Send`), found silent (`FindSilent`), left (`Abandon`) or
done with (`Finish`); a listener's end is `Leave`, the robot's `Crash`, its other steps
`Robot`; everything else stutters. The unread lines of a sender are a recursive
function over the connections; what it yields when a connection is appended, consumed or
closed is proved by the least number at which it would differ (`SetInduction`, from the
well-foundedness of `<` on the naturals and sets instead of a predicate, since no installed
prover instantiates an operator).

*A quiet room.* `QuietInv`: all clips are without music, and whatever is outgoing, on a connection, in the
deque or taken by the pipeline is a gesture's line. It is inductive only while the room is
quiet, so the theorem puts that premise into the step: `[]` of the room's silence and the
step give `[]QuietInv`.

*Liveness.* Four theorems conclude a temporal property from fairness, by the temporal prover alone:
a chain of `~>`, each link an action that is weakly or strongly fair. Two kinds of fact are out
of the provers' reach, and are hypotheses of these theorems rather than theorems.
`StepsAreTaken` says that a fair action is enabled where its thread stands at it; the
provers take ENABLED as an opaque formula. `FillsEnd` and `FadesReturn` say that a loop comes to its
end (over the motors; down a chain of fade timers): a count, that is an induction over a
temporal formula. All are facts of the specification, not assumptions on the world: TLC finds
each true of `unitree_cpp`, `unitree_env` and `playback`, when the definitions are copied from the proof
module to the run's and named in its cfg (`INVARIANT StepsAreTaken`, `PROPERTY FadesReturn`).

Only model-checked:

* `PrimeResolves`, `InterpolationEnds`, `FinishedMimicIsLeft` as liveness: they count steps,
  which is an induction over a temporal formula. Their bounded forms are proved (above).
* `FinishedMotionIsLeft`, `QueueDrains`, `SongIsPlayed`, `FinalPolicyArrives`, `PlaysToItsEnd`,
  `FadeOutStops`, `EndsAtTheLastValue`: the same, with a queue, a connection or a motion to count down;
* ENABLED, and that the two loops end, as said.

## 6. Where the code and its words part

Shown by a run:

* `stuck_prime` — a switch requested before a dance lands while Stand is holding for
  it, and takes the robot off Stand; the prime stays armed, and with it the automatic
  sources stay off (P:1037, comment at P:828-832).

Met while modelling, without a run of its own.

The pipelines and controllers:

* A manual switch from one dance to another keeps the first one's song, by which the
  second is then seeked (P:826; the comment at P:155-156 says otherwise).
* The release of a modifier behind the press that gave a command is passed over,
  because the list is shortened while it is iterated over; the modifier stays on hold
  (`joystick_ctrl.py:96`, while `ctrl_cfgs.py` says modifiers "need to be held down").
* In the one step between the end of a hold and the dance's landing, the prime is
  over and a new request finds nothing to cancel: both land (P:1044).
* The MOTION_DONE latch is released only if the *configured* fallback is current at
  a step's end: a fallback out of range, for which policy 0 stands in, never releases
  it (P:1050).
* Where the prime's Stand is not the fallback (`g1_switch_beyondmimic`), a dance asked
  for in the step in which the switch to the fallback lands puts Stand behind it in
  the same tick: the fallback is never current at a step's end, the latch stays, and
  the dance's own end is not followed by a switch (P:1047-1051, "Once we're back to
  policy 0, allow auto-switch to trigger again").
* The policy a SAFE window waits for outlives the request that is overtaken; an
  ordinary switch to it later gets the window (P:844).
* The two timed rules of one song (`song_time_to_policy`, example at
  `ctrl_cfgs.py:213`) do not alternate: a hit of the running song only seeks the
  running dance (P:880).
* A hit may be released by the clock between the look that drops stale ones and the
  look that uses it; `ChunksInOrder` is stated for what is applied and holds.
* A switch line without a number (`[POLICY_SWITCH]`, `[POLICY_SWITCH],x`) raises in
  `int(cmd.split(",")[1])` (P:1002, 1016, 1021), which nothing catches: the step loop ends. The socket
  controllers pass on any text (`music_command_socket_ctrl.py:120-146`).
* Ctrl+C or an exception leaves the step loop without `shutdown()`: the C++ writer
  repeats the last command until the process is gone (`run_pipeline.py:50`).
* Loco-mimic: a second `[POLICY_MIMIC]` while the first interpolation runs makes the
  first one's end task cut the second one's final hold; a `[POLICY_MIMIC]` during the
  lead back to walking is refused and still sets the flag; NEXT between two
  `[POLICY_MIMIC]` leaves the first mimic warmed up for good; and `prepare()`'s reset
  in the middle of an interpolation leaves its state with no task to end it, or a
  landed mimic's arms on the walking policy, which `[POLICY_LOCO]` ("Already in
  locomotion policy") does not undo.
* Commands carried out in the last hundred steps of `prepare()` leave the robot at
  one policy's pose with another's gains (`rl_pipeline.py:190`).
* Two controllers of one type in a configuration: the second is skipped
  (`ctrl_manager.py`).

The links and the listeners:

* A connection that is silent for two seconds is dropped by the robot's server while
  the senders keep theirs open: the next line is lost without an error, so a sender
  of widely spaced lines loses every second one. When the robot subscribes instead,
  lines spaced wider than its time-out can all be lost though "sent" is printed, and
  a sender that waited for a robot delivers a line that has become stale.
* `DEPLOY.md:102-109` and `PIPELINE.md:374-378` use `--final-policy-repeat 1`: when
  the robot subscribes, that one final line may be the lost one.
* The timed listener computes that a Shazam match is too weak and sends its policy
  all the same (`listen_smart_mic_timed_policy.py:743-765`). `QuietRoomMovesNothing`
  is therefore stated for the other two scripts.
* Its rhythm mode without `--clap-class-to-policy` never sends anything, though the
  comment at line 852 falls back to the song's rule.
* A failed write of a recording leaves the last chunk's file to be analysed again;
  offline, an error of ffmpeg or speech-to-text skips the pacing of that chunk.
* An `OSError` other than a refusal ends the smart and timed listeners, a refusal
  ends the gesture sender.

Motions:

* The end found by watching the reference is also found in a pause of at least
  `motion_length_stable_steps`; a slow `play_speed` lengthens pauses, a fast one may
  never reach `motion_length_min_active_steps`. A seek keeps the last reference pose.
* `COMMANDS` has no order: `[FADE_OUT, RESET]` plays, `[RESET, FADE_OUT]` pauses.
* A phase seek of a dance that had finished is undone by the reset of its entry
  (P:891): the dance no longer keeps in step with the music.
* `BeyondMimicCtrl` starts paused and its reset does not; the tracker ignores
  `[MOTION_FADE_OUT]`, and its reset does not clear the heading offset that the comment at line
  188 expects.
* `MotionCtrl` has no upper bound on the motion it is told to load: `[MOTION_LOAD_NEXT]` at the last
  motion asks for the one behind it (`motion_ctrl.py:100-107`, `:216-220`), the window accepts any
  number (`motion_gui.py:68-71`; its arrows go to 15000). The loader thread starts. The motion
  library then loads one of its own under that number, or raises: the thread dies, the library
  stays torn, and asking for the old motion again is refused as "already loaded".
* `MotionCtrl`: the cache's key is time and offset without the motion; the lock is
  looked at and taken later; `motion_time +=` races with a loader's reset; fades that
  overlap share one iterator; a fade-in may end one step above full speed; a window
  that loads before the first frame was read raises a `KeyError`. A `[MOTION_RESET]`
  in every step with a stale offset serves the cached frame for ever.
* `TwistRedisCtrl`: a value that is no JSON ends the worker and the last reference is
  repeated for ever; polled every 10 ms and read every 20 ms the buffer is always full.

Configurations:

* `g1_locomimic` promises interpolation, but its pipeline overrides no joint.
* `g1_shazam_remote_listener` shows the legend it inherits, of eleven policies it
  does not have in that order; it has no entry in `legend` here.
* `g1_gesti_multi_real` promises remote commands over TCP and has no socket
  controller; its trigger `V` and `h1_switch`'s `L1+Y` are no buttons of their devices.
* The keys `w` and `s` both steer `UnitreePolicy` and switch policies;
  `[MOTION_RESET]` on `Y` takes the event by which `AMOPolicy` toggles its arms.
* `DoFAdapter` drops joints that the target does not have without a word.

## 7. Abstractions, and what is not modelled

* Policies are numbers; what they compute is left out. A dance *may* finish at any
  step in which it runs, or never: when it does is data of the motion.
* Commands are records of a kind and a policy; parsing is left out. `post_step_callback` ignores lines of a
  kind it does not know (`DispatchOther`); a switch line without a number, which raises and ends the
  loop, is not modelled (section 6).
* Time is an order of events: a timer is running or due, a hit held, ready or old.
* The song-to-policy rules are a set of policies per song, a wrong rule included.
* `cfg_env.act` is true. The hands, odometry and `mode_machine` are left out of the
  environments. In `UnitreeController` a shutdown and a switch of one step may come
  in either order, which allows more than the code does.
* What the debug and progress output does is left out.
* Configurations: values are named by model, property and joint; numbers (gains,
  scales, limits) are not compared. A switch is one step in `Commissioning`. The H1's
  and the models' motor orders are external.
* Listeners: what is heard is a song, speech or noise, and a decision any that the
  way of identification may give for it. Not modelled: `--command-delay-seconds`,
  `--dry-run`, the gesture sender's server mode and its debug keyboard loop, the
  `SUBSCRIBE`/`ACK` lines, which nobody reads.
* What `sendall()` does to a connection that the peer has closed is the operating
  system's and external.
* Motions: a reference is a short list of poses, a frame of the library is its
  motion's or torn. `BadValue` stands for every value that is no list of numbers.

Not modelled: the networks of the policies (numeric), policy GUIs (their commands are
among the pipeline's inputs), physics and rendering, audio, speech and fingerprinting
(signal processing without state), axes and the remote's parser, the joystick's state
queue, the state handlers of both environments (an old or a mixed observation is
noticed nowhere in the code, so there is no behaviour to check), the batch experiment
of `shazam/`, and third-party code.

## 8. Plan

Done, in the order of importance: pipeline and manager; arbitration; the robot's
environments; inputs; the loco-mimic pipeline; configurations up to the motors; links
and listeners; motions. Next:

1. `MotionPlayers` under `MultiPolicyPipeline`, so that a finished motion is derived
   and not a choice.
2. The joystick's state queue and the remote's parser in front of `ControllerInput`.

## 9. Running it

In this directory, with TLC and the community modules on the path:

    tlc -workers 2 -config real.cfg MCMultiPolicyPipeline
    tlapm MultiPolicyPipeline_proofs.tla

The largest runs (`real`, `shazam`, `inputs`, `remote`) take one to two minutes on two
workers, `playback` two and a half, the others seconds.
