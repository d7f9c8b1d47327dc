------------------------- MODULE MultiPolicyPipeline -------------------------
(***************************************************************************)
(* The step loop of RlMultiPolicyPipeline: it reads the controllers'       *)
(* commands, lets the automatic sources ask for at most one switch,        *)
(* dispatches the commands, ticks the PolicyManager and finishes a Stand   *)
(* prime.  One pass of the loop is the sequence of actions                 *)
(*                                                                         *)
(*    ReadControls (or SimReborn) ; StartPostStep ; Arbitrate ;            *)
(*    one Dispatch per command ; FinishStep                                *)
(*                                                                         *)
(* of the one pipeline thread, told apart by pc.  Only the wall clock (and *)
(* in ShazamArbitration the watcher thread) moves between them.            *)
(***************************************************************************)
EXTENDS PolicyManager

CONSTANTS
  Mimic,         \* policies whose policy_type is BeyondMimicPolicy
  WoGait,        \* policies whose policy_type is UnitreeWoGaitPolicy
  PrimeCfg,      \* beyondmimic_prime_policy_id (NoPolicy when unset)
  SkipPrime,     \* beyondmimic_skip_stand_prime
  HoldSteps,     \* _beyondmimic_stand_hold_steps()
  InitialCfg,    \* initial_policy_id
  FallbackCfg,   \* motion_done_fallback_policy_id
  WalkCfg,       \* sim_reborn_locomotion_policy_id
  GestiPid,      \* listener_gesti_policy_id (NoPolicy when unset)
  SafeWindows,   \* policies with a valid entry in safe_policy_windows
  SongPolicies,  \* policies an automatic music source may ask for
  IsSim,         \* env.is_sim: the environment has reborn, prepare() is not run
  BootPhase,     \* phase the behaviours start in
  Commands,      \* commands the controllers may report
  MaxCommands    \* bound on the commands of one step

Phase == {"selfcheck", "prepare", "run"}

Kind == {"switch", "direct", "safe", "toggle", "token", "gesti",
         "reborn", "motion_reset"}

ASSUME PipelineAssumption ==
  /\ Mimic \in SUBSET Policy
  /\ WoGait \in SUBSET Policy
  /\ PrimeCfg \in Int
  /\ SkipPrime \in BOOLEAN
  /\ HoldSteps \in Nat \ {0}
  /\ InitialCfg \in Int
  /\ FallbackCfg \in Int
  /\ WalkCfg \in Int
  /\ GestiPid \in Policy \cup {NoPolicy}
  /\ SafeWindows \in SUBSET Policy
  /\ SongPolicies \in SUBSET Policy
  /\ IsSim \in BOOLEAN
  /\ BootPhase \in Phase
  /\ IsSim => BootPhase # "prepare"
  /\ Commands \in SUBSET [kind : Kind, pid : Int]
  /\ MaxCommands \in Nat

VARIABLES
  phase,        \* "selfcheck" in the constructor, "prepare" in prepare()
  pc,           \* where the pipeline thread is in its step
  commands,     \* the step's command list
  at,           \* index of the next command to dispatch
  callback,     \* extras["CALLBACK"] holds [MOTION_DONE]
  pending,      \* _pending_beyondmimic_id
  hold,         \* _beyondmimic_prime_steps_remaining
  autoQueued,   \* _motion_done_switch_queued
  deadline,     \* _remote_motion_deadline_mono: none, running or due
  pendingSafe,  \* _pending_safe_window_policy_id
  windowed,     \* policies whose max_timestep is overridden by a SAFE window
  standRun      \* history: consecutive steps run by Stand, up to HoldSteps

stepVars   == <<pc, commands, at, callback>>
primeVars  == <<pending, hold>>
windowVars == <<pendingSafe, windowed>>
vars == <<managerVars, stepVars, primeVars, windowVars,
          phase, autoQueued, deadline, standRun>>

Switch(pid) == [kind |-> "switch", pid |-> pid]

\* An id of the configuration that names no policy falls back to policy 0.
Normalised(pid) == IF pid \in Policy THEN pid ELSE 0

Fallback == Normalised(FallbackCfg)
Walk     == Normalised(WalkCfg)

\* The prime policy: the configured one, else the first gait-free Unitree one.
StandId ==
  LET First(i) == i \in WoGait /\ \A j \in WoGait : i <= j
  IN  IF PrimeCfg \in Policy THEN PrimeCfg
      ELSE IF \E i \in Policy : First(i) THEN CHOOSE i \in Policy : First(i)
      ELSE NoPolicy

\* CtrlManager collects the commands of a step in a set: no command twice, and
\* in any order.
CommandLists ==
  UNION {{cs \in [1 .. n -> Commands] :
            \A i, j \in 1 .. n : cs[i] = cs[j] => i = j} : n \in 0 .. MaxCommands}

Has(cs, kind) == \E i \in 1 .. Len(cs) : cs[i].kind = kind

-----------------------------------------------------------------------------
(***************************************************************************)
(* step(), up to the call of post_step_callback                            *)
(***************************************************************************)

\* get_observation of the running policy reports a finished motion.
Observe(cur, finished) == callback' = (cur \in finished)

ReadControls(cs) ==
  /\ pc = "begin"
  /\ ~(IsSim /\ Has(cs, "reborn"))
  /\ commands' = cs
  /\ Observe(current, done)
  /\ pc' = "start"
  /\ UNCHANGED <<managerVars, primeVars, windowVars,
                 at, phase, autoQueued, deadline, standRun>>

\* [SIM_REBORN] is taken off the commands, of which cs are the others.  It drops
\* whatever is scheduled, moves to Walk and resets it, all before the step
\* observes anything.
SimReborn(cs) ==
  /\ pc = "begin"
  /\ IsSim
  /\ \E c \in Commands : c.kind = "reborn"
  /\ ~Has(cs, "reborn")
  /\ commands' = cs
  /\ current' = Walk
  /\ timer' = EmptyTimer
  /\ warmup' = {}
  /\ done' = done \ {Walk}
  /\ pending' = NoPolicy
  /\ hold' = 0
  /\ autoQueued' = FALSE
  /\ standRun' = 0
  /\ Observe(Walk, done')
  /\ pc' = "start"
  /\ UNCHANGED <<windowVars, at, phase, deadline>>

-----------------------------------------------------------------------------
(***************************************************************************)
(* post_step_callback: listener commands and what earlier steps left over  *)
(***************************************************************************)

Expanded(c) ==
  IF c.kind = "gesti" /\ GestiPid # NoPolicy THEN Switch(GestiPid)
  ELSE IF c.kind = "token" THEN Switch(c.pid)
  ELSE c

ArmsTimer(cs) == Has(cs, "gesti") /\ GestiPid # NoPolicy

\* The gesture timer has run out: back to the fallback policy, unless it is
\* the current one.
TimerCommands(cs) ==
  IF ~ArmsTimer(cs) /\ deadline = "due" /\ current # Fallback
  THEN <<Switch(Fallback)>>
  ELSE <<>>

ClearPendingSafe == pendingSafe' = NoPolicy

StartPostStep ==
  /\ pc = "start"
  /\ commands' = [i \in 1 .. Len(commands) |-> Expanded(commands[i])]
                   \o TimerCommands(commands)
  /\ deadline' = IF ArmsTimer(commands) THEN "running"
                 ELSE IF deadline = "due" THEN "none"
                 ELSE deadline
  \* Once a BeyondMimic policy runs, priming is over.
  /\ IF pending # NoPolicy /\ current \in Mimic
     THEN pending' = NoPolicy /\ hold' = 0
     ELSE UNCHANGED primeVars
  \* The SAFE window was waiting for this policy to become the current one.
  /\ IF pendingSafe = current
     THEN /\ ClearPendingSafe
          /\ windowed' = windowed \cup (SafeWindows \cap {current})
          /\ done' = done \ (SafeWindows \cap {current})
     ELSE UNCHANGED <<windowVars, done>>
  /\ pc' = "arbitrate"
  /\ UNCHANGED <<current, timer, warmup, at, callback, phase, autoQueued, standRun>>

-----------------------------------------------------------------------------
(***************************************************************************)
(* post_step_callback, steps 0 to 3: the automatic sources                 *)
(*                                                                         *)
(* The music sources (the Shazam queue and the segment time-box) are       *)
(* abstract here: they may ask for a policy of SongPolicies or loop the    *)
(* running motion.  ShazamArbitration has their detail.                    *)
(***************************************************************************)

MotionDoneAsks == callback /\ current # Fallback /\ ~autoQueued

StartDispatch ==
  /\ pc = "arbitrate"
  /\ pc' = "dispatch"
  /\ at' = 1
  /\ UNCHANGED <<current, timer, warmup, primeVars, windowVars,
                 callback, phase, deadline, standRun>>

ArbitrateMotionDone ==
  /\ StartDispatch
  /\ MotionDoneAsks
  /\ autoQueued' = TRUE
  /\ commands' = Append(commands, Switch(Fallback))
  /\ UNCHANGED done

ArbitrateNothing ==
  /\ StartDispatch
  /\ MotionDoneAsks => SongPolicies # {} /\ current \notin done
  /\ UNCHANGED <<commands, autoQueued, done>>

ArbitrateMusicSwitch(pid) ==
  /\ StartDispatch
  /\ pending = NoPolicy
  /\ pid # current
  /\ commands' = Append(commands, Switch(pid))
  /\ UNCHANGED <<autoQueued, done>>

ArbitrateMusicLoop ==
  /\ StartDispatch
  /\ SongPolicies # {}
  /\ current \in Mimic
  /\ done' = done \ {current}
  /\ UNCHANGED <<commands, autoQueued>>

Arbitrate ==
  \/ ArbitrateMotionDone
  \/ ArbitrateNothing
  \/ \E pid \in SongPolicies : ArbitrateMusicSwitch(pid)
  \/ ArbitrateMusicLoop

-----------------------------------------------------------------------------
(***************************************************************************)
(* post_step_callback: the command dispatcher                              *)
(***************************************************************************)

ClearPrime == pending' = NoPolicy /\ hold' = 0

\* _request_policy_switch, by the way it leaves the function.
RequestDirect(pid) ==
  /\ ClearPrime
  /\ IF current # pid
     THEN /\ SwitchPolicy(pid, DELAY_STEPS_SWITCH_FAST)
          /\ windowed' = windowed \ {pid}
     ELSE UNCHANGED <<timer, warmup, done, windowed>>

RequestPrime(pid) ==
  /\ pending' = pid
  /\ hold' = 0
  /\ IF current # StandId
     THEN SwitchPolicy(StandId, DELAY_STEPS_SWITCH_FAST)
     ELSE UNCHANGED <<timer, warmup, done>>
  /\ UNCHANGED windowed

\* Mutant: a staged dance survives the choice of another policy.
RequestOrdinaryKeepsPrime(pid) ==
  /\ UNCHANGED primeVars
  /\ SwitchPolicy(pid, DELAY_STEPS_SWITCH)
  /\ windowed' = windowed \ {pid}

RequestOrdinary(pid) ==
  /\ IF pending # NoPolicy /\ pid # pending
     THEN ClearPrime
     ELSE UNCHANGED primeVars
  /\ SwitchPolicy(pid, DELAY_STEPS_SWITCH)
  /\ windowed' = windowed \ {pid}

NeedsPrime(pid) == pid \in Mimic /\ StandId # NoPolicy

RequestPolicySwitch(pid, direct) ==
  IF pid \notin Policy THEN UNCHANGED <<timer, warmup, done, primeVars, windowed>>
  ELSE IF direct \/ SkipPrime THEN RequestDirect(pid)
  ELSE IF NeedsPrime(pid) THEN RequestPrime(pid)
  ELSE RequestOrdinary(pid)

Dispatching(kinds) ==
  /\ pc = "dispatch"
  /\ at <= Len(commands)
  /\ commands[at].kind \in kinds
  /\ at' = at + 1
  /\ UNCHANGED <<current, pc, commands, callback, phase, autoQueued, deadline, standRun>>

DispatchSwitch ==
  /\ Dispatching({"switch"})
  /\ RequestPolicySwitch(commands[at].pid, FALSE)
  /\ UNCHANGED pendingSafe

DispatchDirect ==
  /\ Dispatching({"direct"})
  /\ RequestPolicySwitch(commands[at].pid, TRUE)
  /\ UNCHANGED pendingSafe

DispatchToggle ==
  /\ Dispatching({"toggle"})
  /\ RequestPolicySwitch((current + 1) % NumPolicies, FALSE)
  /\ UNCHANGED pendingSafe

\* A SAFE window is applied at once to the running policy, else it waits for
\* the direct switch it asks for.
DispatchSafeHere ==
  /\ Dispatching({"safe"})
  /\ commands[at].pid = current
  /\ ClearPendingSafe
  /\ windowed' = windowed \cup (SafeWindows \cap {current})
  /\ done' = done \ (SafeWindows \cap {current})
  /\ UNCHANGED <<timer, warmup, primeVars>>

DispatchSafeElsewhere ==
  /\ Dispatching({"safe"})
  /\ commands[at].pid # current
  /\ IF commands[at].pid < NumPolicies
     THEN /\ pendingSafe' = commands[at].pid
          /\ RequestPolicySwitch(commands[at].pid, TRUE)
     ELSE UNCHANGED <<timer, warmup, done, primeVars, windowVars>>

\* Commands the dispatcher does not know; [MOTION_RESET] is the policy's.
DispatchOther ==
  /\ Dispatching({"gesti", "reborn", "motion_reset"})
  /\ UNCHANGED <<timer, warmup, done, primeVars, windowVars>>

Dispatch ==
  \/ DispatchSwitch
  \/ DispatchDirect
  \/ DispatchToggle
  \/ DispatchSafeHere
  \/ DispatchSafeElsewhere
  \/ DispatchOther

-----------------------------------------------------------------------------
(***************************************************************************)
(* post_step_callback: the policy's own callback, the tick, the Stand      *)
(* prime and the MOTION_DONE latch                                         *)
(***************************************************************************)

\* The policy that ran this step may reach its motion's end in its
\* post_step_callback; [MOTION_RESET] then rewinds it.
FinishedAfterCallback ==
  IF Has(commands, "motion_reset") THEN {done \ {current}}
  ELSE {done, done \cup (Mimic \cap {current})}

\* The hold counts only while Stand is current and no switch is scheduled.
Holding ==
  /\ pending # NoPolicy
  /\ StandId # NoPolicy
  /\ Landed(timer, current) = StandId
  /\ ~HasPending(Ticked(timer))

\* Mutants: one step of the hold is lost; every step loads the hold anew.
HoldLeftShort   == (IF hold <= 0 THEN HoldSteps - 1 ELSE hold) - 1
HoldLeftReloads == HoldSteps - 1

HoldLeft == (IF hold <= 0 THEN HoldSteps ELSE hold) - 1

\* Mutant: landing on the fallback does not release the MOTION_DONE latch.
LatchedForGood(cur) == autoQueued

Latched(cur) == autoQueued /\ cur # FallbackCfg

EndStep ==
  /\ pc = "dispatch"
  /\ at > Len(commands)
  /\ pc' = "begin"
  /\ commands' = <<>>
  /\ at' = 1
  /\ callback' = FALSE
  /\ current' = Landed(timer, current)
  /\ autoQueued' = Latched(current')
  /\ standRun' = IF current # StandId THEN 0
                 ELSE IF standRun < HoldSteps THEN standRun + 1
                 ELSE standRun
  /\ UNCHANGED <<pendingSafe, phase, deadline>>

FinishStep ==
  /\ ~Holding
  /\ EndStep
  /\ timer' = Ticked(timer)
  /\ warmup' = warmup \ Due(timer)
  /\ done' \in FinishedAfterCallback
  /\ UNCHANGED <<primeVars, windowed>>

FinishStepHolding ==
  /\ Holding /\ HoldLeft > 0
  /\ EndStep
  /\ timer' = Ticked(timer)
  /\ warmup' = warmup \ Due(timer)
  /\ done' \in FinishedAfterCallback
  /\ hold' = HoldLeft
  /\ UNCHANGED <<pending, windowed>>

\* The hold is over: the dance is scheduled, to land in the next step's tick.
FinishStepLaunching ==
  /\ Holding /\ HoldLeft <= 0
  /\ EndStep
  /\ timer' = AddTask(Ticked(timer), pending, DELAY_STEPS_SWITCH_FAST)
  /\ warmup' = (warmup \ Due(timer)) \cup {pending}
  /\ done' \in {finished \ {pending} : finished \in FinishedAfterCallback}
  /\ windowed' = windowed \ {pending}
  /\ ClearPrime

-----------------------------------------------------------------------------
(***************************************************************************)
(* reset(), after the constructor's dry steps and once in prepare()        *)
(***************************************************************************)

\* What reset() leaves as it was: warmup, the gesture timer and the waiting
\* SAFE window.
Reset ==
  /\ pc = "begin"
  /\ current' = IF InitialCfg \in Policy THEN InitialCfg ELSE current
  /\ done' = done \ {current'}
  /\ timer' = EmptyTimer
  /\ ClearPrime
  /\ autoQueued' = FALSE
  /\ standRun' = 0
  /\ UNCHANGED <<stepVars, windowVars, deadline>>

SelfChecked ==
  /\ phase = "selfcheck"
  /\ Reset
  /\ warmup' = {}
  /\ phase' = IF IsSim THEN "run" ELSE "prepare"

PrepareReset ==
  /\ phase = "prepare"
  /\ Reset
  /\ phase' = "run"
  /\ UNCHANGED warmup

\* The wall clock passes the gesture deadline.
DeadlinePasses ==
  /\ deadline = "running"
  /\ deadline' = "due"
  /\ UNCHANGED <<managerVars, stepVars, primeVars, windowVars,
                 phase, autoQueued, standRun>>

-----------------------------------------------------------------------------
Init ==
  /\ ManagerInit(IF BootPhase = "selfcheck" THEN 0 ELSE Normalised(InitialCfg))
  /\ warmup = IF BootPhase = "selfcheck" THEN Policy ELSE {}
  /\ phase = BootPhase
  /\ pc = "begin"
  /\ commands = <<>>
  /\ at = 1
  /\ callback = FALSE
  /\ pending = NoPolicy
  /\ hold = 0
  /\ autoQueued = FALSE
  /\ deadline = "none"
  /\ pendingSafe = NoPolicy
  /\ windowed = {}
  /\ standRun = 0

BeginStep(cs) == ReadControls(cs) \/ SimReborn(cs)

FinishStepActions == FinishStep \/ FinishStepHolding \/ FinishStepLaunching

RestOfStep ==
  \/ StartPostStep
  \/ Arbitrate
  \/ Dispatch
  \/ FinishStepActions

Next ==
  \/ \E cs \in CommandLists : BeginStep(cs)
  \/ RestOfStep
  \/ SelfChecked
  \/ PrepareReset
  \/ DeadlinePasses

\* scripts/run_pipeline.py calls step() in an endless loop, and time passes;
\* nobody has to press anything.
Fairness ==
  /\ WF_vars((\E cs \in CommandLists : BeginStep(cs)) \/ RestOfStep)
  /\ WF_vars(DeadlinePasses)

Spec == Init /\ [][Next]_vars

FairSpec == Spec /\ Fairness

-----------------------------------------------------------------------------
CommandSet == [kind : Kind, pid : Int]

\* Types of the variables of the pipeline, and the pc's grip on the command
\* list.
TypeOK ==
  /\ ManagerTypeOK
  /\ phase \in Phase
  /\ pc \in {"begin", "start", "arbitrate", "dispatch"}
  /\ commands \in Seq(CommandSet)
  /\ at \in Nat \ {0}
  /\ callback \in BOOLEAN
  /\ pending \in Policy \cup {NoPolicy}
  /\ hold \in 0 .. HoldSteps
  /\ autoQueued \in BOOLEAN
  /\ deadline \in {"none", "running", "due"}
  /\ pendingSafe \in Int
  /\ windowed \in SUBSET Policy
  /\ standRun \in 0 .. HoldSteps

-----------------------------------------------------------------------------
(***************************************************************************)
(* Safety                                                                  *)
(***************************************************************************)

\* A dance (BeyondMimic policy) is never entered but from Stand, and only after
\* Stand has run for the whole hold: g1_custom_cfg.py says of its policies that
\* every transition goes through Stand, pipeline_cfgs.py that Stand is held
\* beyondmimic_stand_hold_s before the switch.  Holds of pipelines that neither
\* skip the prime nor take direct commands.
DanceOnlyFromHeldStand ==
  [][current' # current /\ current' \in Mimic
       => current = StandId /\ standRun' >= HoldSteps]_vars

\* The pipelines DanceOnlyFromHeldStand is about.
PrimingConfig ==
  /\ ~SkipPrime
  /\ StandId \in Policy \ Mimic
  /\ InitialCfg \notin Mimic
  /\ Walk \notin Mimic
  /\ \A c \in Commands : c.kind \notin {"direct", "safe"}

\* Why it holds.  A dance is scheduled only by the end of the hold, for the next
\* tick, with Stand running; a hold in progress keeps the timer empty; and what
\* Stand has run with what is left of the hold makes the whole hold.
PrimingInv ==
  /\ pending \in Mimic \cup {NoPolicy}
  /\ hold > 0 =>
       /\ pending # NoPolicy
       /\ current = StandId
       /\ ~HasPending(timer)
       /\ standRun >= HoldSteps - 1 - hold
  /\ \A d \in Slot : \A i \in 1 .. Len(timer[d]) :
       timer[d][i] \in Mimic => /\ d = 1
                                /\ current = StandId
                                /\ standRun >= HoldSteps - 1
  /\ \A i \in 1 .. Len(commands) : commands[i].kind \notin {"direct", "safe"}

\* A policy is warmed up only while a switch to it is on its way: every warmup
\* costs an inference per step, and nothing else takes it off the set.
WarmupIsScheduled ==
  phase = "run" => warmup \subseteq Scheduled(timer)

\* Between steps the MOTION_DONE latch is set only while the switch back to the
\* fallback it stands for is scheduled.  Otherwise no later motion's end would
\* bring the robot back.
LatchHasSwitch ==
  autoQueued /\ pc = "begin" => Fallback \in Scheduled(timer)

-----------------------------------------------------------------------------
(***************************************************************************)
(* Liveness                                                                *)
(***************************************************************************)

\* A Stand prime never stays armed for good: while it is armed the Shazam
\* queue and the segment time-box are not served.
PrimeResolves == pending # NoPolicy ~> pending = NoPolicy

\* A motion that has ended is left or restarted.
FinishedMotionIsLeft == \A p \in Mimic :
  (current = p /\ p \in done) ~> (current # p \/ p \notin done)
=============================================================================
