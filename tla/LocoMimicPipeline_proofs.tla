------------------------ MODULE LocoMimicPipeline_proofs ------------------------
(***************************************************************************)
(* Proofs that, for every number of mimics, every duration of the phases   *)
(* of an interpolation and every sequence of commands, a mimic takes over  *)
(* only from its own initial pose, an interpolation has its end in the     *)
(* timer, and a mimic is left in time.                                     *)
(***************************************************************************)
EXTENDS LocoMimicPipeline, TLAPS

-----------------------------------------------------------------------------
(***************************************************************************)
(* Types                                                                   *)
(***************************************************************************)

\* What the controllers report is a sequence of commands.
LEMMA CommandListType ==
  ASSUME NEW cs \in CommandLists
  PROVE  cs \in Seq(Command) /\ Len(cs) \in Nat
<1>1. PICK n \in 0 .. MaxCommands : cs \in [1 .. n -> Command]
  BY DEF CommandLists
<1>2. n \in Nat
  BY <1>1, LocoMimicAssumption DEF LocoMimicAssumption
<1> QED
  BY <1>1, <1>2

\* Putting a task in the timer keeps its type.
LEMMA AddedType ==
  ASSUME NEW t \in [Slot -> SUBSET {"start", "end"}],
         NEW task \in {"start", "end"}, NEW delay \in Int
  PROVE  Added(t, task, delay) \in [Slot -> SUBSET {"start", "end"}]
BY DEF Added

\* Beginning an interpolation keeps the types.
LEMMA InterpolateType ==
  ASSUME TypeOK, NEW pid \in Policy, NEW lead \in Int, NEW trail \in Int,
         Interpolate(pid, lead, trail)
  PROVE  /\ timer' \in [Slot -> SUBSET {"start", "end"}]
         /\ interp_state' = "start"
         /\ goal' = pid /\ goal' \in Policy
         /\ interrupted' = FALSE
         /\ UNCHANGED <<interp_timestep, interp_target, override_dof_pos>>
<1>1. EndDelay(lead, trail) \in Int
  BY LocoMimicAssumption DEF EndDelay
<1>2. Added(timer, "start", lead) \in [Slot -> SUBSET {"start", "end"}]
  BY AddedType DEF TypeOK
<1>3. timer' \in [Slot -> SUBSET {"start", "end"}]
  BY <1>1, <1>2, AddedType DEF Interpolate
<1> QED
  BY <1>3 DEF Interpolate

\* Moving an interpolation keeps the types, and its end is on the target.
LEMMA MovedType ==
  ASSUME NEW timestep \in 0 .. Ramp, NEW target \in Policy, Moved(timestep, target)
  PROVE  /\ interp_timestep' \in 0 .. Ramp
         /\ interp_state' \in {"in_progress", "end"}
         /\ override_dof_pos' \in Policy \cup {Between}
         /\ interp_state' = "end" => override_dof_pos' = target
BY LocoMimicAssumption DEF Moved

\* What a dispatched command does to the interpolation.
LEMMA DispatchCases ==
  ASSUME TypeOK, Dispatch
  PROVE  \/ UNCHANGED <<done, warmup, timer, interpVars>>
         \/ Interpolate(Loco, Lead, 0) /\ warmup' \subseteq Policy /\ UNCHANGED done
         \/ /\ policy_mimic_idx + 1 \in Mimic
            /\ Interpolate(policy_mimic_idx + 1, 0, Trail)
            /\ warmup' \subseteq Policy
            /\ done' \subseteq Mimic
<1>1. CASE DispatchLoco
  BY <1>1 DEF DispatchLoco, NothingInterpolated, SwitchToLoco, TypeOK, Policy
<1>2. CASE DispatchMimic
  <2>1. policy_mimic_idx + 1 \in Mimic
    BY LocoMimicAssumption DEF TypeOK, Mimic
  <2> QED
    BY <1>2, <2>1 DEF DispatchMimic, NothingInterpolated, SwitchToMimic, TypeOK, Policy
<1>3. CASE DispatchToggle \/ DispatchOther
  BY <1>3 DEF DispatchToggle, DispatchOther
<1> QED
  BY <1>1, <1>2, <1>3 DEF Dispatch

\* The timer, the set of finished motions and the loop after any step's end.
LEMMA EndStepType ==
  ASSUME TypeOK, EndStep
  PROVE  /\ timer' \in [Slot -> SUBSET {"start", "end"}]
         /\ done' \subseteq Mimic
         /\ pc' = "begin"
         /\ UNCHANGED <<phase, commands, at, issued, policy_mimic_idx, mimic_flag,
                        goal, interrupted>>
<1>1. timer' \in [Slot -> SUBSET {"start", "end"}]
  BY DEF EndStep, Ticked, TypeOK
<1>2. done' \subseteq Mimic
  BY DEF EndStep, FinishedAfterStep, TypeOK
<1> QED
  BY <1>1, <1>2 DEF EndStep

\* Every variable of the pipeline has its type in every reachable state, for
\* every number of mimics and every duration of the phases.
THEOREM TypeCorrect == Spec => []TypeOK
<1>1. ASSUME Init PROVE TypeOK
  <2>1. EmptyTimer \in [Slot -> SUBSET {"start", "end"}]
    BY DEF EmptyTimer
  <2>2. commands \in Seq(Command) /\ 0 \in 0 .. MaxIssued /\ 0 \in 0 .. NumMimic - 1
        /\ 0 \in 0 .. Ramp
    BY <1>1, LocoMimicAssumption DEF Init
  <2>3. phase \in {"prepare", "run"} /\ timer \in [Slot -> SUBSET {"start", "end"}]
    BY <1>1, <2>1 DEF Init
  <2>4. {current, goal, interp_target, override_dof_pos} \subseteq Policy
    BY <1>1 DEF Init, Policy
  <2>5. done \subseteq Mimic /\ warmup \subseteq Policy
    BY <1>1 DEF Init
  <2>6. pc \in {"begin", "dispatch"} /\ interp_state \in {"idle", "start", "in_progress", "end"}
    BY <1>1 DEF Init
  <2>7. mimic_flag \in BOOLEAN /\ interrupted \in BOOLEAN
    BY <1>1 DEF Init
  <2>8. at \in Nat \ {0} /\ issued = 0 /\ policy_mimic_idx = 0 /\ interp_timestep = 0
    BY <1>1 DEF Init
  <2> QED
    BY <2>2, <2>3, <2>4, <2>5, <2>6, <2>7, <2>8 DEF TypeOK
<1>2. TypeOK /\ [Next]_vars => TypeOK'
  <2> SUFFICES ASSUME TypeOK, [Next]_vars PROVE TypeOK'
    OBVIOUS
  <2>1. ASSUME NEW cs \in CommandLists, BeginStep(cs) PROVE TypeOK'
    <3>1. commands' \in Seq(Command)
      BY <2>1, CommandListType DEF BeginStep, Command
    <3>2. issued' \in 0 .. MaxIssued
      BY <2>1, CommandListType, LocoMimicAssumption DEF BeginStep, TypeOK
    <3> QED
      BY <2>1, <3>1, <3>2 DEF BeginStep, TypeOK, policyVars, interpVars
  <2>2. CASE Dispatch
    <3>1. policy_mimic_idx' \in 0 .. NumMimic - 1 /\ mimic_flag' \in BOOLEAN
      <4>1. \A delta \in {1, -1} : Toggled(delta) \in 0 .. NumMimic - 1
        BY LocoMimicAssumption DEF Toggled, TypeOK
      <4> QED
        BY <2>2, <4>1 DEF Dispatch, DispatchLoco, DispatchMimic, DispatchToggle, DispatchOther, TypeOK
    <3>2. UNCHANGED <<phase, pc, commands, issued, current>> /\ at' \in Nat \ {0}
      BY <2>2 DEF Dispatch, TypeOK
    <3>3. CASE UNCHANGED <<done, warmup, timer, interpVars>>
      BY <3>1, <3>2, <3>3 DEF TypeOK, interpVars
    <3>4. CASE Interpolate(Loco, Lead, 0) /\ warmup' \subseteq Policy /\ UNCHANGED done
      <4>1. Loco \in Policy /\ Lead \in Int /\ 0 \in Int
        BY LocoMimicAssumption DEF Policy
      <4>2. /\ timer' \in [Slot -> SUBSET {"start", "end"}]
            /\ interp_state' = "start"
            /\ goal' \in Policy
            /\ interrupted' = FALSE
            /\ UNCHANGED <<interp_timestep, interp_target, override_dof_pos>>
        BY <3>4, <4>1, InterpolateType
      <4> QED
        BY <3>1, <3>2, <3>4, <4>2 DEF TypeOK
    <3>5. CASE /\ policy_mimic_idx + 1 \in Mimic
               /\ Interpolate(policy_mimic_idx + 1, 0, Trail)
               /\ warmup' \subseteq Policy
               /\ done' \subseteq Mimic
      <4>1. policy_mimic_idx + 1 \in Policy /\ 0 \in Int /\ Trail \in Int
        BY <3>5, LocoMimicAssumption DEF Policy
      <4>2. /\ timer' \in [Slot -> SUBSET {"start", "end"}]
            /\ interp_state' = "start"
            /\ goal' \in Policy
            /\ interrupted' = FALSE
            /\ UNCHANGED <<interp_timestep, interp_target, override_dof_pos>>
        BY <3>5, <4>1, InterpolateType
      <4> QED
        BY <3>1, <3>2, <3>5, <4>2 DEF TypeOK
    <3> QED
      BY <2>2, <3>3, <3>4, <3>5, DispatchCases
  <2>3. CASE FinishStepStarting
    <3>1. goal \in Policy /\ 0 \in 0 .. Ramp
      BY LocoMimicAssumption DEF TypeOK
    <3>2. current' \in Policy /\ warmup' \subseteq Policy
      BY <2>3 DEF FinishStepStarting, SetPolicy, TypeOK, Policy
    <3> QED
      BY <2>3, <3>1, <3>2, EndStepType, MovedType DEF FinishStepStarting, TypeOK
  <2>4. CASE FinishStepEnding
    <3>1. current' \in Policy /\ warmup' \subseteq Policy
      BY <2>4 DEF FinishStepEnding, SetPolicy, TypeOK
    <3> QED
      BY <2>4, <3>1, EndStepType DEF FinishStepEnding, TypeOK
  <2>5. CASE FinishStepMoving
    <3>1. CASE interp_state = "in_progress"
      BY <2>5, <3>1, EndStepType, MovedType DEF FinishStepMoving, TypeOK
    <3>2. CASE interp_state # "in_progress"
      BY <2>5, <3>2, EndStepType DEF FinishStepMoving, TypeOK
    <3> QED
      BY <3>1, <3>2
  <2>6. CASE PrepareReset
    BY <2>6 DEF PrepareReset, TypeOK, EmptyTimer, Policy
  <2>7. CASE UNCHANGED vars
    BY <2>7 DEF vars, loopVars, policyVars, interpVars, TypeOK
  <2> QED
    BY <2>1, <2>2, <2>3, <2>4, <2>5, <2>6, <2>7 DEF Next, FinishStep
<1> QED
  BY <1>1, <1>2, PTL DEF Spec

-----------------------------------------------------------------------------
(***************************************************************************)
(* The interpolation                                                       *)
(***************************************************************************)

\* Every step keeps the interpolation, its target, the override and the policy
\* that runs in accord.
LEMMA InterpStep == ASSUME TypeOK, InterpInv, [Next]_vars PROVE InterpInv'
<1> USE DEF InterpInv, IdlePoseIsPolicys
<1>1. ASSUME NEW cs \in CommandLists, BeginStep(cs) PROVE InterpInv'
  BY <1>1 DEF BeginStep, policyVars, interpVars
<1>2. CASE Dispatch
  <2>1. UNCHANGED current
    BY <1>2 DEF Dispatch
  <2>2. CASE UNCHANGED interpVars
    BY <2>1, <2>2 DEF interpVars
  <2>3. ASSUME NEW pid, NEW lead, NEW trail, Interpolate(pid, lead, trail) PROVE InterpInv'
    BY <2>3 DEF Interpolate
  <2> QED
    BY <1>2, <2>2, <2>3, DispatchCases
<1>3. CASE FinishStepStarting
  <2>1. goal' = goal /\ interp_target' = goal /\ (goal = Loco => current' = Loco)
    BY <1>3, EndStepType DEF FinishStepStarting, SetPolicy
  <2>2. goal \in Policy /\ 0 \in 0 .. Ramp
    BY LocoMimicAssumption DEF TypeOK
  <2> QED
    BY <1>3, <2>1, <2>2, MovedType DEF FinishStepStarting
<1>4. CASE FinishStepEnding
  <2>1. interp_target = goal /\ (goal = Loco => current = Loco)
    BY <1>4 DEF FinishStepEnding, Ends
  <2> QED
    BY <1>4, <2>1 DEF FinishStepEnding, SetPolicy
<1>5. CASE FinishStepMoving
  <2>1. UNCHANGED <<goal, interrupted, current, interp_target>>
    BY <1>5, EndStepType DEF FinishStepMoving
  <2>2. CASE interp_state = "in_progress"
    <3>1. interp_timestep \in 0 .. Ramp /\ interp_target \in Policy
      BY DEF TypeOK
    <3> QED
      BY <1>5, <2>1, <2>2, <3>1, MovedType DEF FinishStepMoving
  <2>3. CASE interp_state # "in_progress"
    BY <1>5, <2>1, <2>3 DEF FinishStepMoving
  <2> QED
    BY <2>2, <2>3
<1>6. CASE PrepareReset
  BY <1>6 DEF PrepareReset
<1>7. CASE UNCHANGED vars
  BY <1>7 DEF vars, policyVars, interpVars
<1> QED
  BY <1>1, <1>2, <1>3, <1>4, <1>5, <1>6, <1>7 DEF Next, FinishStep

\* The upper body's override, the interpolation and the running policy are
\* always in accord; once nothing is interpolated, and unless reset() came in
\* between, the override is the running policy's pose.
THEOREM InterpCorrect == Spec => []InterpInv
<1>1. Init => InterpInv
  BY DEF Init, InterpInv, IdlePoseIsPolicys
<1>2. TypeOK /\ InterpInv /\ [Next]_vars => InterpInv'
  BY InterpStep
<1> QED
  BY <1>1, <1>2, TypeCorrect, PTL DEF Spec

\* A mimic takes over only at the end of an interpolation, from its own pose,
\* whatever interpolations were overtaken before.
THEOREM MimicEntersFromItsPose == Spec => MimicFromItsPose
<1>1. ASSUME TypeOK, InterpInv, Next, current' # current, current' \in Mimic
      PROVE  interp_state = "end" /\ override_dof_pos = current'
  <2>1. Loco \notin Mimic
    BY DEF Loco, Mimic
  <2>2. ASSUME NEW cs \in CommandLists, BeginStep(cs) PROVE FALSE
    BY <1>1, <2>2 DEF BeginStep, policyVars
  <2>3. ~Dispatch /\ ~FinishStepMoving
    BY <1>1 DEF Dispatch, FinishStepMoving
  <2>4. ~FinishStepStarting /\ ~PrepareReset
    BY <1>1, <2>1 DEF FinishStepStarting, SetPolicy, PrepareReset
  <2>5. FinishStepEnding
    BY <1>1, <2>2, <2>3, <2>4 DEF Next, FinishStep
  <2>6. interp_state = "end" /\ current' = goal
    BY <1>1, <2>5 DEF FinishStepEnding, Ends, SetPolicy
  <2> QED
    BY <1>1, <2>6 DEF InterpInv
<1>2. TypeOK /\ InterpInv /\ [Next]_vars
        => [current' # current /\ current' \in Mimic
              => interp_state = "end" /\ override_dof_pos = current']_vars
  BY <1>1
<1> QED
  BY <1>2, TypeCorrect, InterpCorrect, PTL DEF Spec, MimicFromItsPose

-----------------------------------------------------------------------------
(***************************************************************************)
(* The end of an interpolation                                             *)
(***************************************************************************)

\* The interpolation that runs ends in e steps or sooner: its end is in the timer,
\* behind its beginning by what the ramp takes, or by what is left of the ramp.
EndIn(e) ==
  /\ interp_state # "idle" /\ e \in Slot /\ "end" \in timer[e]
  /\ interp_state = "start" => \E d \in Slot : "start" \in timer[d] /\ e >= d + Ramp + 1
  /\ interp_state = "in_progress" => e >= Ramp - interp_timestep + 2

InterpolationIsTimed ==
  interp_state # "idle" /\ ~interrupted => \E e \in Slot : EndIn(e)

\* A command that begins another interpolation.
Ordered ==
  /\ Dispatch
  /\ \/ commands[at] = "loco" /\ ~AlreadyLoco
     \/ commands[at] = "mimic" /\ ~AlreadyMimic

\* Such a command puts a beginning and an end in the timer, far enough apart: the
\* three phases of either direction are no longer than the timer, and the ramp
\* fits between.
LEMMA OrderIsTimed ==
  ASSUME TypeOK,
         NEW pid, NEW lead, NEW trail, Interpolate(pid, lead, trail),
         <<lead, trail>> \in {<<Lead, 0>>, <<0, Trail>>}
  PROVE  EndIn(EndDelay(lead, trail))'
<1> DEFINE first == IF lead = 0 THEN 1 ELSE lead
           last == EndDelay(lead, trail)
<1>1. /\ first \in Slot /\ last \in Slot /\ last >= first + Ramp + 1
      /\ lead = 0 \/ lead = first
  <2>1. CASE lead = Lead /\ trail = 0
    BY <2>1, LocoMimicAssumption DEF EndDelay, Slot
  <2>2. CASE lead = 0 /\ trail = Trail
    BY <2>2, LocoMimicAssumption DEF EndDelay, Slot
  <2> QED
    BY <2>1, <2>2
<1>2. timer \in [Slot -> SUBSET {"start", "end"}]
  BY DEF TypeOK
<1>3. last # 0
  BY <1>1, LocoMimicAssumption DEF Slot
<1> HIDE DEF last
<1>4. timer' = [[timer EXCEPT ![first] = @ \cup {"start"}] EXCEPT ![last] = @ \cup {"end"}]
  BY <1>3 DEF Interpolate, Added, last
<1>5. "start" \in timer'[first] /\ "end" \in timer'[last]
  BY <1>1, <1>2, <1>4
<1> QED
  BY <1>1, <1>5 DEF EndIn, Interpolate, last

\* What a dispatched command does to the end, ordered or not.
LEMMA DispatchTimed ==
  ASSUME TypeOK, Dispatch
  PROVE  \/ Ordered /\ (\E e \in Slot : EndIn(e))'
         \/ UNCHANGED <<timer, interp_state, interp_timestep, interrupted>>
<1>1. CASE DispatchLoco /\ ~AlreadyLoco
  <2>1. EndIn(EndDelay(Lead, 0))'
    BY <1>1, OrderIsTimed DEF DispatchLoco, SwitchToLoco
  <2> QED
    BY <1>1, <2>1 DEF Ordered, DispatchLoco, EndIn
<1>2. CASE DispatchMimic /\ ~AlreadyMimic
  <2>1. EndIn(EndDelay(0, Trail))'
    BY <1>2, OrderIsTimed DEF DispatchMimic, SwitchToMimic
  <2> QED
    BY <1>2, <2>1 DEF Ordered, DispatchMimic, EndIn
<1>3. CASE (DispatchLoco /\ AlreadyLoco) \/ (DispatchMimic /\ AlreadyMimic)
  BY <1>3 DEF DispatchLoco, DispatchMimic, NothingInterpolated, interpVars
<1>4. CASE DispatchToggle \/ DispatchOther
  BY <1>4 DEF DispatchToggle, DispatchOther, interpVars
<1> QED
  BY <1>1, <1>2, <1>3, <1>4 DEF Dispatch

\* The end of a step brings the end of the interpolation a step nearer, or is it.
LEMMA StepTimed ==
  ASSUME TypeOK, FinishStep, NEW e \in Slot, EndIn(e)
  PROVE  interp_state' = "idle" \/ EndIn(e - 1)'
<1>1. EndStep
  BY DEF FinishStep, FinishStepStarting, FinishStepEnding, FinishStepMoving
<1>2. \A d \in Slot : d # 1 => d - 1 \in Slot /\ timer'[d - 1] = timer[d]
  <2>1. \A d \in Slot : d # 1 => d - 1 \in Slot /\ (d - 1) + 1 = d
    BY LocoMimicAssumption DEF Slot
  <2>2. timer' = Ticked
    BY <1>1 DEF EndStep
  <2> QED
    BY <2>1, <2>2 DEF Ticked
<1>3. /\ e \in Int /\ Ramp \in Nat /\ Ramp >= 1 /\ interp_timestep \in 0 .. Ramp
      /\ e >= 1 /\ \A d \in Slot : d \in Int /\ d >= 1
  BY LocoMimicAssumption DEF Slot, TypeOK
<1>4. CASE FinishStepStarting
  <2>1. e >= Ramp + 2
    BY <1>3, <1>4 DEF FinishStepStarting, Starts, EndIn
  <2>2. interp_state' = "in_progress" /\ interp_timestep' = 1
    BY <1>3, <1>4 DEF FinishStepStarting, Moved
  <2>3. e - 1 \in Slot /\ "end" \in timer'[e - 1]
    BY <1>2, <1>3, <2>1 DEF EndIn
  <2> QED
    BY <1>3, <2>1, <2>2, <2>3 DEF EndIn
<1>5. CASE FinishStepEnding
  BY <1>5 DEF FinishStepEnding
<1>6. CASE FinishStepMoving
  <2>1. CASE interp_state = "start"
    <3>1. PICK d \in Slot : "start" \in timer[d] /\ e >= d + Ramp + 1
      BY <2>1 DEF EndIn
    <3>2. d # 1
      BY <1>6, <2>1, <3>1 DEF FinishStepMoving, Starts
    <3>3. d - 1 \in Slot /\ "start" \in timer'[d - 1] /\ e - 1 >= (d - 1) + Ramp + 1
      BY <1>2, <1>3, <3>1, <3>2
    <3>4. e - 1 \in Slot /\ "end" \in timer'[e - 1]
      <4>1. e # 1
        BY <1>3, <3>1
      <4> QED
        BY <1>2, <4>1 DEF EndIn
    <3>5. interp_state' = "start"
      BY <1>6, <2>1 DEF FinishStepMoving
    <3> QED
      BY <3>3, <3>4, <3>5 DEF EndIn
  <2>2. CASE interp_state = "in_progress"
    <3>1. e >= Ramp - interp_timestep + 2
      BY <2>2 DEF EndIn
    <3>2. e - 1 \in Slot /\ "end" \in timer'[e - 1]
      BY <1>2, <1>3, <3>1 DEF EndIn
    <3>3. Moved(interp_timestep, interp_target)
      BY <1>6, <2>2 DEF FinishStepMoving
    <3>4. interp_state' = "in_progress" => e - 1 >= Ramp - interp_timestep' + 2
      BY <1>3, <3>1, <3>3 DEF Moved
    <3>5. interp_state' \in {"in_progress", "end"}
      BY <3>3 DEF Moved
    <3> QED
      BY <3>2, <3>4, <3>5 DEF EndIn
  <2>3. CASE interp_state = "end"
    <3>1. e # 1
      BY <1>6, <2>3 DEF FinishStepMoving, Ends, EndIn
    <3>2. e - 1 \in Slot /\ "end" \in timer'[e - 1]
      BY <1>2, <3>1 DEF EndIn
    <3>3. interp_state' = "end"
      BY <1>6, <2>3 DEF FinishStepMoving
    <3> QED
      BY <3>2, <3>3 DEF EndIn
  <2> QED
    BY <2>1, <2>2, <2>3 DEF EndIn, TypeOK
<1> QED
  BY <1>4, <1>5, <1>6 DEF FinishStep

\* Nothing is interpolated without an end that is on its way, and every step of
\* the loop brings it nearer, until another command orders another one.
LEMMA TimeGoes ==
  ASSUME TypeOK, [Next]_vars
  PROVE  /\ InterpolationIsTimed => InterpolationIsTimed'
         /\ \A e \in Slot : EndIn(e) =>
              \/ Ordered \/ PrepareReset
              \/ FinishStep /\ (interp_state' = "idle" \/ EndIn(e - 1)')
              \/ ~FinishStep /\ EndIn(e)'
<1> USE DEF InterpolationIsTimed
<1>0. ASSUME UNCHANGED <<timer, interp_state, interp_timestep, interrupted>>
      PROVE  \A e \in Slot : EndIn(e) <=> EndIn(e)'
  BY <1>0 DEF EndIn
<1>1. CASE UNCHANGED vars \/ \E cs \in CommandLists : BeginStep(cs)
  <2>1. UNCHANGED <<timer, interp_state, interp_timestep, interrupted>> /\ ~FinishStep
    BY <1>1 DEF vars, loopVars, interpVars, BeginStep, FinishStep, FinishStepStarting,
       FinishStepEnding, FinishStepMoving, EndStep
  <2> QED
    BY <1>0, <2>1
<1>2. CASE Dispatch
  <2>1. ~FinishStep
    BY <1>2 DEF Dispatch, FinishStep, FinishStepStarting, FinishStepEnding, FinishStepMoving, EndStep
  <2> QED
    BY <1>0, <1>2, <2>1, DispatchTimed
<1>3. CASE FinishStep
  <2>1. UNCHANGED interrupted /\ (interp_state = "idle" => interp_state' = "idle")
    BY <1>3 DEF FinishStep, FinishStepStarting, FinishStepEnding, FinishStepMoving, EndStep,
       Starts, Ends
  <2>2. \A e \in Slot : EndIn(e - 1)' => e - 1 \in Slot
    BY DEF EndIn
  <2> QED
    BY <1>3, <2>1, <2>2, StepTimed
<1>4. CASE PrepareReset
  BY <1>4 DEF PrepareReset
<1> QED
  BY <1>1, <1>2, <1>3, <1>4 DEF Next

\* In every reachable state: what is being interpolated ends within the timer's
\* length, whatever interpolations were overtaken and whatever tasks they left;
\* only reset() can drop its end.
THEOREM InterpolationHasItsEnd == Spec => []InterpolationIsTimed
<1>1. Init => InterpolationIsTimed
  BY DEF Init, InterpolationIsTimed
<1>2. TypeOK /\ InterpolationIsTimed /\ [Next]_vars => InterpolationIsTimed'
  BY TimeGoes
<1> QED
  BY <1>1, <1>2, TypeCorrect, PTL DEF Spec

\* And each step of the loop counts: it is the end, or brings it one step nearer.
\* With InterpolationHasItsEnd an interpolation is over Lead + Ramp + Trail + 1
\* steps after the last command that ordered one.
THEOREM EveryStepCounts ==
  Spec => [][\A e \in Slot : EndIn(e) =>
               \/ Ordered \/ PrepareReset
               \/ FinishStep /\ (interp_state' = "idle" \/ EndIn(e - 1)')
               \/ ~FinishStep /\ EndIn(e)']_vars
BY TimeGoes, TypeCorrect, PTL DEF Spec

-----------------------------------------------------------------------------
(***************************************************************************)
(* Leaving a mimic                                                         *)
(***************************************************************************)

\* The mimic that runs is left in d steps: the switch back is in the timer.
LeavingIn(d) ==
  /\ current # Loco /\ interp_state = "start" /\ goal = Loco
  /\ d \in 1 .. Lead /\ "start" \in timer[d]

\* A mimic the flag does not ask for, and one that is interpolated to and is.
LeavingIsTimed ==
  /\ current # Loco /\ ~mimic_flag => \E d \in 1 .. Lead : LeavingIn(d)
  /\ interp_state # "idle" /\ goal # Loco => mimic_flag

\* The command to leave puts the switch in the timer.
LEMMA OrderLeaves ==
  ASSUME TypeOK, current # Loco, UNCHANGED current, Interpolate(Loco, Lead, 0)
  PROVE  LeavingIn(Lead)'
<1> DEFINE last == EndDelay(Lead, 0)
<1>1. Lead \in Slot /\ last # 0 /\ Lead # 0 /\ Lead \in 1 .. Lead
  BY LocoMimicAssumption DEF EndDelay, Slot
<1>2. timer \in [Slot -> SUBSET {"start", "end"}]
  BY DEF TypeOK
<1> HIDE DEF last
<1>3. timer' = [[timer EXCEPT ![Lead] = @ \cup {"start"}] EXCEPT ![last] = @ \cup {"end"}]
  BY <1>1 DEF Interpolate, Added, last
<1>4. "start" \in timer'[Lead]
  BY <1>1, <1>2, <1>3
<1> QED
  BY <1>1, <1>4 DEF LeavingIn, Interpolate

\* The end of a step brings the switch nearer, or is it.
LEMMA LeaveNearer ==
  ASSUME TypeOK, FinishStep, NEW d \in 1 .. Lead, LeavingIn(d)
  PROVE  current' = Loco \/ LeavingIn(d - 1)'
<1>1. d \in Slot /\ d \in Int
  BY LocoMimicAssumption DEF Slot
<1>2. interp_state = "start" /\ goal = Loco /\ "start" \in timer[d] /\ current # Loco
  BY DEF LeavingIn
<1>3. CASE d = 1
  BY <1>2, <1>3 DEF FinishStep, FinishStepStarting, FinishStepEnding, FinishStepMoving, Starts,
     Ends, SetPolicy
<1>4. CASE d # 1
  <2>1. d - 1 \in Slot /\ (d - 1) + 1 = d /\ d - 1 \in 1 .. Lead
    BY <1>4, LocoMimicAssumption DEF Slot
  <2>2. EndStep
    BY DEF FinishStep, FinishStepStarting, FinishStepEnding, FinishStepMoving
  <2>3. timer'[d - 1] = timer[d] /\ goal' = goal
    BY <1>1, <2>1, <2>2 DEF EndStep, Ticked
  <2>4. CASE FinishStepStarting
    BY <1>2, <2>4 DEF FinishStepStarting, SetPolicy
  <2>5. CASE FinishStepMoving
    BY <1>2, <2>1, <2>3, <2>5 DEF FinishStepMoving, LeavingIn
  <2> QED
    BY <1>2, <2>4, <2>5 DEF FinishStep, FinishStepEnding, Ends
<1> QED
  BY <1>3, <1>4

\* No command takes a switch back that is in the timer: one to a mimic is ignored
\* while a mimic runs, one to the locomotion policy puts another in it.
LEMMA LeaveStays ==
  ASSUME TypeOK, Dispatch, NEW d \in 1 .. Lead, LeavingIn(d) PROVE LeavingIn(d)'
<1>1. UNCHANGED current /\ current # Loco
  BY DEF Dispatch, LeavingIn
<1>2. CASE DispatchLoco
  <2>1. Interpolate(Loco, Lead, 0)
    BY <1>1, <1>2 DEF DispatchLoco, AlreadyLoco, SwitchToLoco
  <2>2. d \in Slot /\ timer \in [Slot -> SUBSET {"start", "end"}]
    BY LocoMimicAssumption DEF Slot, TypeOK
  <2>3. "start" \in timer'[d]
    <3> DEFINE added == Added(timer, "start", Lead)
    <3>1. added \in [Slot -> SUBSET {"start", "end"}] /\ timer[d] \subseteq added[d]
      BY <2>2 DEF Added
    <3>2. timer' = Added(added, "end", EndDelay(Lead, 0))
      BY <2>1 DEF Interpolate
    <3> HIDE DEF added
    <3>3. added[d] \subseteq timer'[d]
      BY <2>2, <3>1, <3>2 DEF Added
    <3> QED
      BY <3>1, <3>3 DEF LeavingIn
  <2> QED
    BY <1>1, <2>1, <2>3 DEF Interpolate, LeavingIn
<1>3. CASE DispatchMimic
  BY <1>1, <1>3 DEF DispatchMimic, AlreadyMimic, NothingInterpolated, interpVars, LeavingIn
<1>4. CASE DispatchToggle \/ DispatchOther
  BY <1>1, <1>4 DEF DispatchToggle, DispatchOther, interpVars, LeavingIn
<1> QED
  BY <1>2, <1>3, <1>4 DEF Dispatch

\* Every step of the pipeline.
LEMMA LeaveGoes ==
  ASSUME TypeOK, InterpInv, LeavingIsTimed, [Next]_vars
  PROVE  /\ LeavingIsTimed'
         /\ \A d \in 1 .. Lead : LeavingIn(d) =>
              \/ current' = Loco
              \/ FinishStep /\ LeavingIn(d - 1)'
              \/ ~FinishStep /\ LeavingIn(d)'
<1> USE DEF LeavingIsTimed
<1>1. CASE UNCHANGED vars \/ \E cs \in CommandLists : BeginStep(cs)
  <2>1. UNCHANGED <<current, mimic_flag, interp_state, goal, timer>> /\ ~FinishStep
    BY <1>1 DEF vars, loopVars, policyVars, interpVars, BeginStep, FinishStep,
       FinishStepStarting, FinishStepEnding, FinishStepMoving, EndStep
  <2>2. \A d \in 1 .. Lead : LeavingIn(d) <=> LeavingIn(d)'
    BY <2>1 DEF LeavingIn
  <2> QED
    BY <2>1, <2>2
<1>2. CASE Dispatch
  <2>1. ~FinishStep /\ UNCHANGED current
    BY <1>2 DEF Dispatch, FinishStep, FinishStepStarting, FinishStepEnding, FinishStepMoving, EndStep
  <2>2. \A d \in 1 .. Lead : LeavingIn(d) => LeavingIn(d)'
    BY <1>2, LeaveStays
  <2>3. CASE DispatchLoco
    <3>1. CASE AlreadyLoco
      BY <2>1, <2>3, <3>1 DEF DispatchLoco, AlreadyLoco, NothingInterpolated, interpVars
    <3>2. CASE ~AlreadyLoco
      <4>1. Interpolate(Loco, Lead, 0)
        BY <2>3, <3>2 DEF DispatchLoco, SwitchToLoco
      <4>2. current # Loco => LeavingIn(Lead)' /\ Lead \in 1 .. Lead
        BY <2>1, <4>1, OrderLeaves, LocoMimicAssumption
      <4> QED
        BY <2>1, <2>2, <4>1, <4>2 DEF Interpolate
    <3> QED
      BY <2>1, <2>2, <3>1, <3>2
  <2>4. CASE DispatchMimic
    BY <2>1, <2>2, <2>4 DEF DispatchMimic
  <2>5. CASE DispatchToggle \/ DispatchOther
    BY <2>1, <2>2, <2>5 DEF DispatchToggle, DispatchOther, interpVars
  <2> QED
    BY <1>2, <2>1, <2>2, <2>3, <2>4, <2>5 DEF Dispatch
<1>3. CASE FinishStep
  <2>1. UNCHANGED <<mimic_flag, goal>>
    BY <1>3 DEF FinishStep, FinishStepStarting, FinishStepEnding, FinishStepMoving, EndStep
  <2>2. \A d \in 1 .. Lead : LeavingIn(d) => current' = Loco \/ LeavingIn(d - 1)'
    BY <1>3, LeaveNearer
  <2>3. \A d \in 1 .. Lead : LeavingIn(d - 1)' => d - 1 \in 1 .. Lead
    BY DEF LeavingIn
  <2>4. interp_state' # "idle" => interp_state # "idle"
    BY <1>3 DEF FinishStep, FinishStepStarting, FinishStepEnding, FinishStepMoving, Starts
  <2>5. current' # Loco /\ ~mimic_flag' => current # Loco
    BY <1>3, <2>1 DEF FinishStep, FinishStepStarting, FinishStepEnding, FinishStepMoving,
       SetPolicy, Ends
  <2> QED
    BY <1>3, <2>1, <2>2, <2>3, <2>4, <2>5
<1>4. CASE PrepareReset
  BY <1>4 DEF PrepareReset
<1> QED
  BY <1>1, <1>2, <1>3, <1>4 DEF Next, FinishStep

\* In every reachable state a mimic the flag does not ask for any more has its
\* switch back in the timer, at most Lead steps away: no order of commands and of
\* overtaken interpolations leaves the robot in a mimic it was told to leave.
THEOREM LeavingHasItsSwitch == Spec => []LeavingIsTimed
<1>1. Init => LeavingIsTimed
  BY DEF Init, LeavingIsTimed
<1>2. TypeOK /\ InterpInv /\ LeavingIsTimed /\ [Next]_vars => LeavingIsTimed'
  BY LeaveGoes
<1> QED
  BY <1>1, <1>2, TypeCorrect, InterpCorrect, PTL DEF Spec

\* And no command delays it: every step of the loop is the switch, or brings it one
\* step nearer.  With LeavingHasItsSwitch a mimic is left within Lead steps of the
\* command to, of which [MOTION_DONE] is one.
THEOREM NothingDelaysLeaving ==
  Spec => [][\A d \in 1 .. Lead : LeavingIn(d) =>
               \/ current' = Loco
               \/ FinishStep /\ LeavingIn(d - 1)'
               \/ ~FinishStep /\ LeavingIn(d)']_vars
BY LeaveGoes, LeavingHasItsSwitch, TypeCorrect, InterpCorrect, PTL DEF Spec
=============================================================================
