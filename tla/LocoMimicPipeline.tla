--------------------------- MODULE LocoMimicPipeline ---------------------------
(***************************************************************************)
(* RlLocoMimicPipeline and its PolicyInterpManager: one locomotion policy, *)
(* whose upper body is overridden by a pose, and mimic policies, between   *)
(* which the upper body is interpolated.  To a mimic the order is          *)
(* interpolate, hold, switch; back it is wait, switch, interpolate.        *)
(*                                                                         *)
(* The beginning and the end of an interpolation are tasks of the          *)
(* StepTimer.  Nothing cancels them: the tasks of an interpolation that    *)
(* was overtaken fire all the same and act on the one that runs.  A task   *)
(* looks only at the state it finds, so of those due in one tick their     *)
(* number and order do not matter, and the timer holds a set for each      *)
(* remaining delay.                                                        *)
(*                                                                         *)
(* A pose is named by the policy whose pose it is; Between is any other.   *)
(***************************************************************************)
EXTENDS Integers, Sequences

CONSTANTS
  NumMimic,    \* policy_mimic_num
  Lead,        \* DURATIONS_MIMIC_LOCO[0]: steps before the switch back
  Ramp,        \* DURATIONS_*[1]: steps of an interpolation
  Trail,       \* DURATIONS_LOCO_MIMIC[2]: steps held before the mimic
  IsPrepared,  \* reset() is still to come: prepare(), or the constructor's dry steps
  MaxCommands, \* bound on the commands of one step
  MaxIssued    \* bound on the commands of a behaviour

ASSUME LocoMimicAssumption ==
  /\ NumMimic \in Nat \ {0}
  /\ Lead \in Nat \ {0}
  /\ Ramp \in Nat \ {0}
  /\ Trail \in Nat \ {0}
  /\ IsPrepared \in BOOLEAN
  /\ MaxCommands \in Nat
  /\ MaxIssued \in Nat

VARIABLES
  phase,               \* before that reset() or after it
  pc,                  \* where the pipeline thread is in its step
  commands,            \* the step's command list
  at,                  \* index of the next command to dispatch
  issued,              \* commands reported so far
  current,             \* current_policy_id
  done,                \* mimic policies whose motion is done
  warmup,              \* warmup_policy_indices
  policy_mimic_idx,    \* the mimic a [POLICY_MIMIC] asks for
  mimic_flag,          \* policy_locomotion_mimic_flag = 1
  timer,               \* the tasks, by remaining delay
  interp_state,
  interp_timestep,
  goal,                \* the policy the interpolation leads to
  interp_target,       \* interp_target_pos
  override_dof_pos,    \* the upper body of the locomotion policy
  interrupted          \* history: reset() found a pipeline that was not at rest,
                       \* and nothing has been interpolated since

loopVars   == <<phase, pc, commands, at, issued>>
policyVars == <<current, done, warmup, policy_mimic_idx, mimic_flag>>
interpVars == <<interp_state, interp_timestep, goal, interp_target,
                override_dof_pos, interrupted>>
vars == <<loopVars, policyVars, timer, interpVars>>

Loco    == 0
Mimic   == 1 .. NumMimic
Policy  == {Loco} \cup Mimic
Between == -1

Command == {"loco", "mimic", "next", "last", "motion_reset"}

Slot == 1 .. Lead + Ramp + Trail + 1

-----------------------------------------------------------------------------
(***************************************************************************)
(* _interpolate_init                                                       *)
(***************************************************************************)
EmptyTimer == [d \in Slot |-> {}]

\* A delay of 0 is over in the next tick, as one of 1.
Added(t, task, delay) ==
  [t EXCEPT ![IF delay = 0 THEN 1 ELSE delay] = @ \cup {task}]

\* Mutant: the end is due in the step that reaches it.
EndDelayShort(lead, trail) == lead + Ramp + trail

EndDelay(lead, trail) == lead + Ramp + trail + 1

Interpolate(pid, lead, trail) ==
  /\ goal' = pid
  /\ interp_state' = "start"
  /\ timer' = Added(Added(timer, "start", lead), "end", EndDelay(lead, trail))
  /\ interrupted' = FALSE
  /\ UNCHANGED <<interp_timestep, interp_target, override_dof_pos>>

-----------------------------------------------------------------------------
(***************************************************************************)
(* Commands                                                                *)
(***************************************************************************)
\* Mutant: whatever runs, there is nothing to leave while nothing is interpolated.
AlreadyResting == interp_state = "idle"

AlreadyLoco == current = Loco /\ interp_state = "idle"

SwitchToLoco ==
  /\ warmup' = IF current # Loco THEN warmup \cup {Loco} ELSE warmup
  /\ Interpolate(Loco, Lead, 0)
  /\ UNCHANGED done

SwitchToMimic ==
  LET pid == policy_mimic_idx + 1
  IN  /\ done' = done \ {pid}
      /\ warmup' = warmup \cup {pid}
      /\ Interpolate(pid, 0, Trail)

AlreadyMimic == current # Loco

NothingInterpolated == UNCHANGED <<done, warmup, timer, interpVars>>

DispatchLoco ==
  /\ commands[at] = "loco"
  /\ mimic_flag' = FALSE
  /\ IF AlreadyLoco THEN NothingInterpolated ELSE SwitchToLoco
  /\ UNCHANGED policy_mimic_idx

DispatchMimic ==
  /\ commands[at] = "mimic"
  /\ mimic_flag' = TRUE
  /\ IF AlreadyMimic THEN NothingInterpolated ELSE SwitchToMimic
  /\ UNCHANGED policy_mimic_idx

Toggled(delta) == (policy_mimic_idx + delta) % NumMimic

\* [POLICY_SWITCH],NEXT and LAST choose only while the locomotion policy runs.
DispatchToggle ==
  /\ commands[at] \in {"next", "last"}
  /\ policy_mimic_idx' =
       IF current # Loco THEN policy_mimic_idx
       ELSE Toggled(IF commands[at] = "next" THEN 1 ELSE -1)
  /\ UNCHANGED <<mimic_flag, done, warmup, timer, interpVars>>

\* The other commands are the running policy's, or the environment's.
DispatchOther ==
  /\ commands[at] = "motion_reset"
  /\ UNCHANGED <<mimic_flag, policy_mimic_idx, done, warmup, timer, interpVars>>

Dispatch ==
  /\ pc = "dispatch"
  /\ at <= Len(commands)
  /\ at' = at + 1
  /\ DispatchLoco \/ DispatchMimic \/ DispatchToggle \/ DispatchOther
  /\ UNCHANGED <<phase, pc, commands, issued, current>>

-----------------------------------------------------------------------------
(***************************************************************************)
(* One step: the commands are read, with that of a finished motion behind  *)
(* them, and dispatched; then the timer ticks and the interpolation moves. *)
(***************************************************************************)
CommandLists ==
  UNION {{cs \in [1 .. n -> Command] :
            \A i, j \in 1 .. n : cs[i] = cs[j] => i = j} : n \in 0 .. MaxCommands}

MotionDone == mimic_flag /\ current \in done

BeginStep(cs) ==
  /\ pc = "begin"
  /\ issued + Len(cs) <= MaxIssued
  /\ issued' = issued + Len(cs)
  /\ commands' = IF MotionDone THEN Append(cs, "loco") ELSE cs
  /\ at' = 1
  /\ pc' = "dispatch"
  /\ UNCHANGED <<phase, policyVars, timer, interpVars>>

\* The policy that ran this step may reach its motion's end in its
\* post_step_callback; [MOTION_RESET] then rewinds it.
FinishedAfterStep ==
  IF \E i \in 1 .. Len(commands) : commands[i] = "motion_reset"
  THEN {done \ {current}}
  ELSE {done, done \cup (Mimic \cap {current})}

Ticked == [d \in Slot |-> IF d + 1 \in Slot THEN timer[d + 1] ELSE {}]

\* Mutant: the end of an interpolation whatever its state.
EndsAnyhow == interp_state # "idle" /\ "end" \in timer[1]

Starts == interp_state = "start" /\ "start" \in timer[1]

Ends == interp_state = "end" /\ "end" \in timer[1]

SetPolicy(pid) == current' = pid /\ warmup' = warmup \ {pid}

EndStep ==
  /\ pc = "dispatch"
  /\ at > Len(commands)
  /\ pc' = "begin"
  /\ done' \in FinishedAfterStep
  /\ timer' = Ticked
  /\ UNCHANGED <<phase, commands, at, issued, policy_mimic_idx, mimic_flag,
                 goal, interrupted>>

\* Mutant: the interpolation is over a step too early.
MovedShort(timestep, target) ==
  /\ override_dof_pos' = IF timestep >= Ramp THEN target ELSE Between
  /\ interp_timestep' = IF timestep < Ramp THEN timestep + 1 ELSE timestep
  /\ interp_state' = IF timestep < Ramp - 1 THEN "in_progress" ELSE "end"

\* _interpolate_step, at a given timestep on the way to a given pose.
Moved(timestep, target) ==
  /\ override_dof_pos' = IF timestep >= Ramp THEN target ELSE Between
  /\ interp_timestep' = IF timestep < Ramp THEN timestep + 1 ELSE timestep
  /\ interp_state' = IF timestep < Ramp THEN "in_progress" ELSE "end"

\* The switch back to the locomotion policy comes first, that to a mimic last.
FinishStepStarting ==
  /\ EndStep
  /\ Starts
  /\ IF goal = Loco THEN SetPolicy(Loco) ELSE UNCHANGED <<current, warmup>>
  /\ interp_target' = goal
  /\ Moved(0, goal)

FinishStepEnding ==
  /\ EndStep
  /\ Ends
  /\ interp_state' = "idle"
  /\ override_dof_pos' = interp_target
  /\ IF goal # Loco THEN SetPolicy(goal) ELSE UNCHANGED <<current, warmup>>
  /\ UNCHANGED <<interp_timestep, interp_target>>

FinishStepMoving ==
  /\ EndStep
  /\ ~Starts
  /\ ~Ends
  /\ IF interp_state = "in_progress"
     THEN Moved(interp_timestep, interp_target)
     ELSE UNCHANGED <<interp_state, interp_timestep, override_dof_pos>>
  /\ UNCHANGED <<current, warmup, interp_target>>

-----------------------------------------------------------------------------
\* prepare() resets the pipeline between two steps and goes on to the run loop.
\* The interpolation, the warmup set and the flag are not part of reset().
PrepareReset ==
  /\ phase = "prepare"
  /\ pc = "begin"
  /\ phase' = "run"
  /\ current' = Loco
  /\ timer' = EmptyTimer
  /\ interrupted' = (interp_state # "idle" \/ override_dof_pos # Loco)
  /\ UNCHANGED <<pc, commands, at, issued, done, warmup, policy_mimic_idx, mimic_flag,
                 interp_state, interp_timestep, goal, interp_target, override_dof_pos>>

Init ==
  /\ phase = IF IsPrepared THEN "prepare" ELSE "run"
  /\ pc = "begin"
  /\ commands = <<>>
  /\ at = 1
  /\ issued = 0
  /\ current = Loco
  /\ done = {}
  /\ warmup = {}
  /\ policy_mimic_idx = 0
  /\ mimic_flag = FALSE
  /\ timer = EmptyTimer
  /\ interp_state = "idle"
  /\ interp_timestep = 0
  /\ goal = Loco
  /\ interp_target = Loco
  /\ override_dof_pos = Loco
  /\ interrupted = FALSE

FinishStep == FinishStepStarting \/ FinishStepEnding \/ FinishStepMoving

Next ==
  \/ \E cs \in CommandLists : BeginStep(cs)
  \/ Dispatch
  \/ FinishStep
  \/ PrepareReset

Spec == Init /\ [][Next]_vars

\* The step loop goes on; nobody has to press anything.
FairSpec == Spec /\ WF_vars((\E cs \in CommandLists : BeginStep(cs)) \/ Dispatch \/ FinishStep)

-----------------------------------------------------------------------------
\* Types of the variables.
TypeOK ==
  /\ phase \in {"prepare", "run"}
  /\ pc \in {"begin", "dispatch"}
  /\ commands \in Seq(Command)
  /\ at \in Nat \ {0}
  /\ issued \in 0 .. MaxIssued
  /\ current \in Policy
  /\ done \subseteq Mimic
  /\ warmup \subseteq Policy
  /\ policy_mimic_idx \in 0 .. NumMimic - 1
  /\ mimic_flag \in BOOLEAN
  /\ timer \in [Slot -> SUBSET {"start", "end"}]
  /\ interp_state \in {"idle", "start", "in_progress", "end"}
  /\ interp_timestep \in 0 .. Ramp
  /\ {goal, interp_target} \subseteq Policy
  /\ override_dof_pos \in Policy \cup {Between}
  /\ interrupted \in BOOLEAN

\* A mimic takes over only from the end of an interpolation to its own initial
\* pose, with the upper body there: tasks left over from interpolations that
\* were overtaken never cut one short (_interpolate_end's check of the state).
MimicFromItsPose ==
  [][current' # current /\ current' \in Mimic
       => interp_state = "end" /\ override_dof_pos = current']_vars

\* Whatever was asked for on the way, once nothing is being interpolated the
\* upper body's override is the pose of the policy that runs: the robot does not
\* go on walking with its arms in a mimic's pose.  The one way to get there is a
\* reset() of prepare() in between, until the next interpolation.
IdlePoseIsPolicys ==
  interp_state = "idle" /\ ~interrupted => override_dof_pos = current

\* Why both hold.  The target is that of the policy the interpolation leads to,
\* its end is reached with the override on the target, and an interpolation to
\* the locomotion pose runs under the locomotion policy.
InterpInv ==
  /\ interp_state \in {"in_progress", "end"} =>
       /\ interp_target = goal
       /\ goal = Loco => current = Loco
  /\ interp_state = "end" => override_dof_pos = interp_target
  /\ IdlePoseIsPolicys

\* An interpolation comes to its end, with its last switch, once the commands
\* cease: overtaken ones leave the timer's tasks in an order that never keeps
\* the last one from starting or ending.  Only reset() can drop them.
InterpolationEnds == interp_state # "idle" ~> interp_state = "idle" \/ interrupted

\* A mimic whose motion is done is left or rewound ([MOTION_DONE]), though a
\* request that comes while it leaves may set the flag again.
FinishedMimicIsLeft == \A p \in Mimic :
  (current = p /\ p \in done) ~> (current # p \/ p \notin done)
=============================================================================
