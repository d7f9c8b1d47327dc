--------------------- MODULE MultiPolicyPipeline_proofs ---------------------
(***************************************************************************)
(* TLAPS proofs about MultiPolicyPipeline, for every value of its          *)
(* constants that PolicyManagerAssumption and PipelineAssumption allow:    *)
(* type correctness; that a dance is entered only from Stand and only      *)
(* after the whole hold; that a policy is warmed up only while its switch  *)
(* is scheduled; that an armed Stand prime is over in time; that a         *)
(* MOTION_DONE latch has its switch; and that the newest request decides   *)
(* where the robot ends up.                                                *)
(***************************************************************************)
EXTENDS NewestRequest, TLAPS

-----------------------------------------------------------------------------
(***************************************************************************)
(* Constants and the StepTimer                                             *)
(***************************************************************************)

\* Ids are integers, slot 1 exists, and None is no policy.
LEMMA ConstantFacts ==
  /\ NumPolicies \in Nat /\ NumPolicies > 0
  /\ DELAY_STEPS_SWITCH \in Nat /\ DELAY_STEPS_SWITCH > 0
  /\ 0 \in Policy
  /\ Policy \subseteq Int
  /\ NoPolicy \in Int /\ NoPolicy \notin Policy
  /\ 1 \in Slot /\ DELAY_STEPS_SWITCH \in Slot /\ DELAY_STEPS_SWITCH_FAST \in Slot
  /\ DELAY_STEPS_SWITCH_FAST = 1
BY PolicyManagerAssumption DEF PolicyManagerAssumption, Policy, NoPolicy, Slot,
   DELAY_STEPS_SWITCH_FAST

\* The prime policy is a policy or None (_detect_stand_policy_id).
LEMMA StandIdType == StandId \in Policy \cup {NoPolicy}
<1> DEFINE First(i) == i \in WoGait /\ \A j \in WoGait : i <= j
<1>1. CASE PrimeCfg \in Policy
  BY <1>1 DEF StandId
<1>2. CASE PrimeCfg \notin Policy /\ \E i \in Policy : First(i)
  <2>1. (CHOOSE i \in Policy : First(i)) \in Policy
    BY <1>2
  <2> QED
    BY <1>2, <2>1 DEF StandId
<1>3. CASE PrimeCfg \notin Policy /\ ~ \E i \in Policy : First(i)
  BY <1>3 DEF StandId
<1> QED
  BY <1>1, <1>2, <1>3

\* The configured ids, once normalised, are policies.
LEMMA NormalisedType == Fallback \in Policy /\ Walk \in Policy /\ Normalised(InitialCfg) \in Policy
BY ConstantFacts DEF Fallback, Walk, Normalised

\* Adding a task and ticking keep the timer's type; landing keeps the current
\* policy's.
LEMMA TimerTypes ==
  ASSUME NEW t \in [Slot -> Seq(Policy)], NEW cur \in Policy
  PROVE  /\ \A d \in Slot, pid \in Policy : AddTask(t, pid, d) \in [Slot -> Seq(Policy)]
         /\ Ticked(t) \in [Slot -> Seq(Policy)]
         /\ Landed(t, cur) \in Policy
         /\ EmptyTimer \in [Slot -> Seq(Policy)]
         /\ Due(t) \subseteq Policy
<1>1. ASSUME NEW d \in Slot, NEW pid \in Policy
      PROVE  AddTask(t, pid, d) \in [Slot -> Seq(Policy)]
  BY <1>1 DEF AddTask
<1>2. \A d \in Slot : d < DELAY_STEPS_SWITCH => d + 1 \in Slot
  BY ConstantFacts DEF Slot
<1>3. Ticked(t) \in [Slot -> Seq(Policy)]
  BY <1>2 DEF Ticked
<1>4. t[1] \in Seq(Policy)
  BY ConstantFacts
<1>5. Landed(t, cur) \in Policy
  BY <1>4 DEF Landed
<1>6. EmptyTimer \in [Slot -> Seq(Policy)]
  BY DEF EmptyTimer
<1>7. Due(t) \subseteq Policy
  BY <1>4 DEF Due
<1> QED
  BY <1>1, <1>3, <1>5, <1>6, <1>7

\* A switch request keeps the manager's variables in their types.
LEMMA SwitchPolicyType ==
  ASSUME ManagerTypeOK, NEW pid \in Policy, NEW d \in Slot, SwitchPolicy(pid, d)
  PROVE  /\ timer' \in [Slot -> Seq(Policy)]
         /\ warmup' \in SUBSET Policy
         /\ done' \in SUBSET Policy
BY TimerTypes DEF ManagerTypeOK, SwitchPolicy

-----------------------------------------------------------------------------
(***************************************************************************)
(* Type correctness                                                        *)
(***************************************************************************)

\* The reported commands are a command list.
LEMMA CommandListType ==
  ASSUME NEW cs \in CommandLists
  PROVE  cs \in Seq(CommandSet) /\ \A i \in 1 .. Len(cs) : cs[i] \in Commands
<1>1. PICK n \in 0 .. MaxCommands : cs \in [1 .. n -> Commands]
  BY DEF CommandLists
<1>2. n \in Nat
  BY <1>1, PipelineAssumption DEF PipelineAssumption
<1>3. Commands \subseteq CommandSet
  BY PipelineAssumption DEF PipelineAssumption, CommandSet
<1>4. cs \in Seq(Commands) /\ Len(cs) = n
  BY <1>1, <1>2
<1> QED
  BY <1>1, <1>3, <1>4

LEMMA SwitchIsCommand ==
  ASSUME NEW pid \in Int
  PROVE  Switch(pid) \in CommandSet /\ Switch(pid).kind = "switch" /\ Switch(pid).pid = pid
BY DEF Switch, CommandSet, Kind

\* Expanding the listener commands and adding the timer's makes a command list.
LEMMA ExpandedType ==
  ASSUME NEW cs \in Seq(CommandSet)
  PROVE  [i \in 1 .. Len(cs) |-> Expanded(cs[i])] \o TimerCommands(cs) \in Seq(CommandSet)
<1>1. \A c \in CommandSet : Expanded(c) \in CommandSet
  <2> SUFFICES ASSUME NEW c \in CommandSet PROVE Expanded(c) \in CommandSet
    OBVIOUS
  <2>1. c.pid \in Int
    BY DEF CommandSet
  <2>2. GestiPid \in Int
    BY PipelineAssumption, ConstantFacts DEF PipelineAssumption
  <2> QED
    BY <2>1, <2>2, SwitchIsCommand DEF Expanded
<1>2. [i \in 1 .. Len(cs) |-> Expanded(cs[i])] \in Seq(CommandSet)
  BY <1>1
<1>3. TimerCommands(cs) \in Seq(CommandSet)
  BY SwitchIsCommand, NormalisedType, ConstantFacts DEF TimerCommands
<1> QED
  BY <1>2, <1>3

\* A request, however it leaves _request_policy_switch, keeps the types.
LEMMA RequestType ==
  ASSUME TypeOK, NEW pid \in Int, NEW direct \in BOOLEAN, RequestPolicySwitch(pid, direct)
  PROVE  /\ timer' \in [Slot -> Seq(Policy)]
         /\ warmup' \in SUBSET Policy
         /\ done' \in SUBSET Policy
         /\ pending' \in Policy \cup {NoPolicy}
         /\ hold' \in 0 .. HoldSteps
         /\ windowed' \in SUBSET Policy
<1>1. ManagerTypeOK /\ pending \in Policy \cup {NoPolicy} /\ windowed \in SUBSET Policy
      /\ hold \in 0 .. HoldSteps /\ 0 \in 0 .. HoldSteps
  BY PipelineAssumption DEF TypeOK, PipelineAssumption
<1>2. CASE pid \notin Policy
  BY <1>1, <1>2 DEF RequestPolicySwitch, ManagerTypeOK, primeVars
<1>3. CASE pid \in Policy /\ RequestDirect(pid)
  <2>1. CASE current # pid
    <3>1. SwitchPolicy(pid, DELAY_STEPS_SWITCH_FAST) /\ windowed' = windowed \ {pid}
      BY <1>3, <2>1 DEF RequestDirect
    <3> QED
      BY <1>1, <1>3, <3>1, ConstantFacts, SwitchPolicyType DEF RequestDirect, ClearPrime
  <2> QED
    BY <1>1, <1>3, <2>1 DEF RequestDirect, ClearPrime, ManagerTypeOK
<1>4. CASE pid \in Policy /\ NeedsPrime(pid) /\ RequestPrime(pid)
  <2>1. CASE current # StandId
    <3>1. SwitchPolicy(StandId, DELAY_STEPS_SWITCH_FAST) /\ StandId \in Policy
      BY <1>4, <2>1, StandIdType DEF RequestPrime, NeedsPrime
    <3> QED
      BY <1>1, <1>4, <3>1, ConstantFacts, SwitchPolicyType DEF RequestPrime
  <2> QED
    BY <1>1, <1>4, <2>1 DEF RequestPrime, ManagerTypeOK
<1>5. CASE pid \in Policy /\ RequestOrdinary(pid)
  <2>1. SwitchPolicy(pid, DELAY_STEPS_SWITCH)
    BY <1>5 DEF RequestOrdinary
  <2> QED
    BY <1>1, <1>5, <2>1, ConstantFacts, SwitchPolicyType DEF RequestOrdinary, ClearPrime, primeVars
<1> QED
  BY <1>2, <1>3, <1>4, <1>5 DEF RequestPolicySwitch

LEMMA InitTypeOK == Init => TypeOK
<1> SUFFICES ASSUME Init PROVE TypeOK
  OBVIOUS
<1>1. current \in Policy
  BY ConstantFacts, NormalisedType DEF Init, ManagerInit
<1>2. timer \in [Slot -> Seq(Policy)]
  BY DEF Init, ManagerInit, EmptyTimer
<1>3. warmup \in SUBSET Policy /\ done \in SUBSET Policy
  BY DEF Init, ManagerInit
<1>4. ManagerTypeOK
  BY <1>1, <1>2, <1>3 DEF ManagerTypeOK
<1>5. HoldSteps \in Nat /\ BootPhase \in Phase
  BY PipelineAssumption DEF PipelineAssumption
<1>6. commands \in Seq(CommandSet) /\ windowed \in SUBSET Policy
  BY DEF Init
<1>7. callback \in BOOLEAN /\ autoQueued \in BOOLEAN
  BY DEF Init
<1>8. /\ pending \in Policy \cup {NoPolicy} /\ hold \in 0 .. HoldSteps
      /\ standRun \in 0 .. HoldSteps /\ at \in Nat \ {0} /\ pendingSafe \in Int
  BY <1>5, ConstantFacts DEF Init
<1>9. /\ phase \in Phase /\ pc \in {"begin", "start", "arbitrate", "dispatch"}
      /\ deadline \in {"none", "running", "due"}
  BY <1>5 DEF Init
<1> QED
  BY <1>4, <1>6, <1>7, <1>8, <1>9 DEF TypeOK

\* Every step of the pipeline keeps the types: one step per action.
LEMMA NextTypeOK == TypeOK /\ [Next]_vars => TypeOK'
<1> SUFFICES ASSUME TypeOK, [Next]_vars PROVE TypeOK'
  OBVIOUS
<1> USE DEF TypeOK, ManagerTypeOK
<1>0. HoldSteps \in Nat /\ HoldSteps > 0 /\ 0 \in 0 .. HoldSteps
  BY PipelineAssumption DEF PipelineAssumption
<1>t. /\ Ticked(timer) \in [Slot -> Seq(Policy)]
      /\ EmptyTimer \in [Slot -> Seq(Policy)]
      /\ Landed(timer, current) \in Policy
      /\ \A t \in [Slot -> Seq(Policy)], d \in Slot, pid \in Policy :
            AddTask(t, pid, d) \in [Slot -> Seq(Policy)]
  BY TimerTypes
<1>1. ASSUME NEW cs \in CommandLists, ReadControls(cs) PROVE TypeOK'
  BY <1>1, CommandListType DEF ReadControls, Observe, managerVars, primeVars, windowVars
<1>2. ASSUME NEW cs \in CommandLists, SimReborn(cs) PROVE TypeOK'
  <2>1. commands' \in Seq(CommandSet)
    BY <1>2, CommandListType DEF SimReborn
  <2>2. callback' \in BOOLEAN
    BY <1>2 DEF SimReborn, Observe
  <2>3. current' \in Policy /\ done' \in SUBSET Policy /\ warmup' \in SUBSET Policy
    BY <1>2, NormalisedType DEF SimReborn
  <2> QED
    BY <1>0, <1>t, <1>2, <2>1, <2>2, <2>3 DEF SimReborn, windowVars
<1>3. CASE StartPostStep
  <2>1. commands' \in Seq(CommandSet)
    BY <1>3, ExpandedType DEF StartPostStep
  <2>2. pending' \in Policy \cup {NoPolicy} /\ hold' \in 0 .. HoldSteps
    BY <1>0, <1>3 DEF StartPostStep, primeVars
  <2>3. pendingSafe' \in Int /\ windowed' \in SUBSET Policy /\ done' \in SUBSET Policy
    BY <1>3, ConstantFacts DEF StartPostStep, ClearPendingSafe, windowVars
  <2> QED
    BY <1>3, <2>1, <2>2, <2>3 DEF StartPostStep
<1>4. CASE Arbitrate
  <2> USE DEF StartDispatch, primeVars, windowVars
  <2>1. CASE ArbitrateMotionDone
    BY <2>1, SwitchIsCommand, NormalisedType, ConstantFacts DEF ArbitrateMotionDone
  <2>2. CASE ArbitrateNothing
    BY <2>2 DEF ArbitrateNothing
  <2>3. ASSUME NEW pid \in SongPolicies, ArbitrateMusicSwitch(pid) PROVE TypeOK'
    <3>1. pid \in Int
      BY PipelineAssumption, ConstantFacts DEF PipelineAssumption
    <3> QED
      BY <2>3, <3>1, SwitchIsCommand DEF ArbitrateMusicSwitch
  <2>4. CASE ArbitrateMusicLoop
    BY <2>4 DEF ArbitrateMusicLoop
  <2> QED
    BY <1>4, <2>1, <2>2, <2>3, <2>4 DEF Arbitrate
<1>5. CASE Dispatch
  <2>1. ASSUME NEW kinds, Dispatching(kinds)
        PROVE  /\ at' \in Nat \ {0}
               /\ commands[at] \in CommandSet
               /\ UNCHANGED <<current, pc, commands, callback, phase,
                              autoQueued, deadline, standRun>>
    BY <2>1 DEF Dispatching
  <2> HIDE DEF TypeOK, ManagerTypeOK
  <2>2. ASSUME NEW pid \in Int, NEW direct \in BOOLEAN, NEW kinds, Dispatching(kinds),
               RequestPolicySwitch(pid, direct), pendingSafe' \in Int
        PROVE  TypeOK'
    <3>1. /\ timer' \in [Slot -> Seq(Policy)]
          /\ warmup' \in SUBSET Policy
          /\ done' \in SUBSET Policy
          /\ pending' \in Policy \cup {NoPolicy}
          /\ hold' \in 0 .. HoldSteps
          /\ windowed' \in SUBSET Policy
      BY <2>2, RequestType
    <3> QED
      BY <2>1, <2>2, <3>1 DEF TypeOK, ManagerTypeOK
  <2>3. CASE DispatchSwitch
    <3>1. commands[at].pid \in Int /\ pendingSafe' \in Int
      BY <2>1, <2>3 DEF DispatchSwitch, CommandSet, TypeOK
    <3> QED
      BY <2>2, <2>3, <3>1 DEF DispatchSwitch
  <2>4. CASE DispatchDirect
    <3>1. commands[at].pid \in Int /\ pendingSafe' \in Int
      BY <2>1, <2>4 DEF DispatchDirect, CommandSet, TypeOK
    <3> QED
      BY <2>2, <2>4, <3>1 DEF DispatchDirect
  <2>5. CASE DispatchToggle
    <3>1. (current + 1) % NumPolicies \in Int /\ pendingSafe' \in Int
      BY <2>5, ConstantFacts DEF DispatchToggle, TypeOK, ManagerTypeOK
    <3> QED
      BY <2>2, <2>5, <3>1 DEF DispatchToggle
  <2>6. CASE DispatchSafeHere
    <3>1. pendingSafe' \in Int
      BY <2>6, ConstantFacts DEF DispatchSafeHere, ClearPendingSafe
    <3> QED
      BY <2>1, <2>6, <3>1 DEF DispatchSafeHere, ClearPendingSafe, TypeOK, ManagerTypeOK, primeVars
  <2>7. CASE DispatchSafeElsewhere
    <3>1. commands[at].pid \in Int
      BY <2>1, <2>7 DEF DispatchSafeElsewhere, CommandSet
    <3>2. CASE commands[at].pid < NumPolicies
      BY <2>2, <2>7, <3>1, <3>2 DEF DispatchSafeElsewhere
    <3>3. CASE ~(commands[at].pid < NumPolicies)
      BY <2>1, <2>7, <3>3 DEF DispatchSafeElsewhere, TypeOK, ManagerTypeOK, primeVars, windowVars
    <3> QED
      BY <3>2, <3>3
  <2>8. CASE DispatchOther
    BY <2>1, <2>8 DEF DispatchOther, TypeOK, ManagerTypeOK, primeVars, windowVars
  <2> QED
    BY <1>5, <2>3, <2>4, <2>5, <2>6, <2>7, <2>8 DEF Dispatch
<1>6. ASSUME NEW finished \in FinishedAfterCallback PROVE finished \in SUBSET Policy
  BY <1>6, PipelineAssumption DEF FinishedAfterCallback, PipelineAssumption
<1>7. ASSUME EndStep
      PROVE  /\ pc' = "begin" /\ commands' \in Seq(CommandSet) /\ at' \in Nat \ {0}
             /\ callback' \in BOOLEAN /\ current' \in Policy /\ autoQueued' \in BOOLEAN
             /\ standRun' \in 0 .. HoldSteps
             /\ UNCHANGED <<pendingSafe, phase, deadline>>
  <2>1. standRun' \in 0 .. HoldSteps
    BY <1>0, <1>7 DEF EndStep
  <2>2. autoQueued' \in BOOLEAN
    BY <1>7 DEF EndStep, Latched
  <2>3. current' \in Policy
    BY <1>t, <1>7 DEF EndStep
  <2>4. commands' \in Seq(CommandSet)
    BY <1>7 DEF EndStep
  <2>5. callback' \in BOOLEAN
    BY <1>7 DEF EndStep
  <2>6. /\ pc' = "begin" /\ at' \in Nat \ {0}
        /\ UNCHANGED <<pendingSafe, phase, deadline>>
    BY <1>7 DEF EndStep
  <2> QED
    BY <2>1, <2>2, <2>3, <2>4, <2>5, <2>6
<1>8. CASE FinishStep
  BY <1>t, <1>6, <1>7, <1>8 DEF FinishStep, primeVars
<1>9. CASE FinishStepHolding
  <2>1. hold' \in 0 .. HoldSteps
    BY <1>0, <1>9 DEF FinishStepHolding, HoldLeft
  <2> QED
    BY <1>t, <1>6, <1>7, <1>9, <2>1 DEF FinishStepHolding
<1>10. CASE FinishStepLaunching
  <2>1. pending \in Policy
    BY <1>10 DEF FinishStepLaunching, Holding
  <2>2. timer' \in [Slot -> Seq(Policy)]
    BY <1>t, <1>10, <2>1, ConstantFacts DEF FinishStepLaunching
  <2>3. done' \in SUBSET Policy
    BY <1>6, <1>10 DEF FinishStepLaunching
  <2>4. warmup' \in SUBSET Policy /\ windowed' \in SUBSET Policy
    BY <1>10, <2>1 DEF FinishStepLaunching
  <2> QED
    BY <1>0, <1>7, <1>10, <2>2, <2>3, <2>4 DEF FinishStepLaunching, ClearPrime
<1>11. ASSUME Reset
       PROVE  /\ current' \in Policy /\ done' \in SUBSET Policy
              /\ timer' \in [Slot -> Seq(Policy)] /\ pending' = NoPolicy /\ hold' = 0
              /\ autoQueued' \in BOOLEAN /\ standRun' = 0
              /\ UNCHANGED <<pc, commands, at, callback, pendingSafe, windowed, deadline>>
  BY <1>t, <1>11 DEF Reset, ClearPrime, stepVars, windowVars
<1>12. CASE SelfChecked
  BY <1>0, <1>11, <1>12 DEF SelfChecked, Phase
<1>13. CASE PrepareReset
  BY <1>0, <1>11, <1>13 DEF PrepareReset, Phase
<1>14. CASE DeadlinePasses
  BY <1>14 DEF DeadlinePasses, managerVars, stepVars, primeVars, windowVars
<1>15. CASE UNCHANGED vars
  BY <1>15 DEF vars, managerVars, stepVars, primeVars, windowVars
<1> QED
  BY <1>1, <1>2, <1>3, <1>4, <1>5, <1>8, <1>9, <1>10, <1>12, <1>13, <1>14, <1>15
     DEF Next, BeginStep, RestOfStep, FinishStepActions

\* The variables always have their types: in particular every id the StepTimer
\* carries is a policy's, so set_policy never raises out of a tick.
THEOREM TypeCorrect == Spec => []TypeOK
BY InitTypeOK, NextTypeOK, PTL DEF Spec

-----------------------------------------------------------------------------
(***************************************************************************)
(* A dance is entered only from a held Stand                               *)
(***************************************************************************)

\* PrimingInv by its parts.
HoldInv ==
  hold > 0 => /\ pending # NoPolicy
              /\ current = StandId
              /\ ~HasPending(timer)
              /\ standRun >= HoldSteps - 1 - hold

LaunchInv(t, cur, run) ==
  \A d \in Slot : \A i \in 1 .. Len(t[d]) :
    t[d][i] \in Mimic => d = 1 /\ cur = StandId /\ run >= HoldSteps - 1

NoDirect(cs) == \A i \in 1 .. Len(cs) : cs[i].kind \notin {"direct", "safe"}

LEMMA PrimingParts ==
  PrimingInv <=> /\ pending \in Mimic \cup {NoPolicy}
                 /\ HoldInv
                 /\ LaunchInv(timer, current, standRun)
                 /\ NoDirect(commands)
BY DEF PrimingInv, HoldInv, LaunchInv, NoDirect

\* An empty timer launches nothing, whatever runs; scheduling a policy that is
\* no dance launches none.
LEMMA EmptyLaunch == \A cur, run : LaunchInv(EmptyTimer, cur, run)
BY DEF LaunchInv, EmptyTimer

LEMMA AddLaunch ==
  ASSUME NEW t \in [Slot -> Seq(Policy)], NEW pid \in Policy \ Mimic, NEW d \in Slot,
         NEW cur, NEW run, LaunchInv(t, cur, run)
  PROVE  LaunchInv(AddTask(t, pid, d), cur, run)
<1>1. \A e \in Slot : \/ AddTask(t, pid, d)[e] = t[e]
                       \/ AddTask(t, pid, d)[e] = Append(t[e], pid)
  <2> SUFFICES ASSUME NEW e \in Slot
               PROVE  \/ AddTask(t, pid, d)[e] = t[e]
                      \/ AddTask(t, pid, d)[e] = Append(t[e], pid)
    OBVIOUS
  <2> QED
    BY Zenon DEF AddTask
<1> SUFFICES ASSUME NEW e \in Slot, NEW i \in 1 .. Len(AddTask(t, pid, d)[e]),
                    AddTask(t, pid, d)[e][i] \in Mimic
             PROVE  e = 1 /\ cur = StandId /\ run >= HoldSteps - 1
  BY DEF LaunchInv
<1>2. i \in 1 .. Len(t[e]) /\ t[e][i] \in Mimic
  <2>1. CASE AddTask(t, pid, d)[e] = t[e]
    BY <2>1
  <2>2. CASE AddTask(t, pid, d)[e] = Append(t[e], pid)
    BY <2>2
  <2> QED
    BY <1>1, <2>1, <2>2
<1> QED
  BY <1>2 DEF LaunchInv

\* After a tick no dance is scheduled: a launched one was due.
LEMMA TickLaunch ==
  ASSUME NEW t \in [Slot -> Seq(Policy)], NEW cur, NEW run, LaunchInv(t, cur, run)
  PROVE  \A c, r : LaunchInv(Ticked(t), c, r)
<1> SUFFICES ASSUME NEW d \in Slot, NEW i \in 1 .. Len(Ticked(t)[d]), Ticked(t)[d][i] \in Mimic
             PROVE  FALSE
  BY DEF LaunchInv
<1>1. DELAY_STEPS_SWITCH \in Nat /\ d \in Nat /\ d > 0
  BY ConstantFacts DEF Slot
<1>2. CASE d < DELAY_STEPS_SWITCH
  <2>1. d + 1 \in Slot /\ Ticked(t)[d] = t[d + 1]
    BY <1>1, <1>2 DEF Ticked, Slot
  <2>2. d + 1 = 1
    BY <2>1 DEF LaunchInv
  <2> QED
    BY <1>1, <2>2
<1>3. CASE ~(d < DELAY_STEPS_SWITCH)
  BY <1>3 DEF Ticked
<1> QED
  BY <1>2, <1>3

\* The dance launched by FinishStepLaunching is the only task.
LEMMA OnlyLaunch ==
  ASSUME NEW t \in [Slot -> Seq(Policy)], ~HasPending(t), NEW pid \in Policy,
         NEW cur, NEW run, cur = StandId, run >= HoldSteps - 1
  PROVE  LaunchInv(AddTask(t, pid, DELAY_STEPS_SWITCH_FAST), cur, run)
<1>1. \A e \in Slot : t[e] = <<>>
  BY DEF HasPending
<1>2. \A e \in Slot : e # 1 => AddTask(t, pid, DELAY_STEPS_SWITCH_FAST)[e] = <<>>
  BY <1>1, ConstantFacts DEF AddTask
<1> QED
  BY <1>2 DEF LaunchInv

\* Expanding the listener commands, the timer's command and the automatic
\* sources' add no direct command.
LEMMA ExpandedNoDirect ==
  ASSUME NEW cs \in Seq(CommandSet), NoDirect(cs)
  PROVE  NoDirect([i \in 1 .. Len(cs) |-> Expanded(cs[i])] \o TimerCommands(cs))
<1> DEFINE expanded == [i \in 1 .. Len(cs) |-> Expanded(cs[i])]
<1>1. \A i \in 1 .. Len(cs) : Expanded(cs[i]).kind \notin {"direct", "safe"}
  BY DEF NoDirect, Expanded, Switch
<1>2. expanded \in Seq({Expanded(cs[i]) : i \in 1 .. Len(cs)}) /\ Len(expanded) = Len(cs)
  OBVIOUS
<1>3. CASE TimerCommands(cs) = <<>>
  <2>1. expanded \o TimerCommands(cs) = expanded
    BY <1>2, <1>3
  <2> QED
    BY <1>1, <1>2, <2>1 DEF NoDirect
<1>4. CASE TimerCommands(cs) = <<Switch(Fallback)>>
  <2>1. expanded \o TimerCommands(cs) = Append(expanded, Switch(Fallback))
    BY <1>2, <1>4
  <2> QED
    BY <1>1, <1>2, <2>1 DEF NoDirect, Switch
<1> QED
  BY <1>3, <1>4 DEF TimerCommands

LEMMA AppendNoDirect ==
  ASSUME NEW cs \in Seq(CommandSet), NoDirect(cs), NEW pid
  PROVE  NoDirect(Append(cs, Switch(pid)))
BY DEF NoDirect, Switch

\* Before the request is dispatched: what a request may assume and must keep.
LEMMA RequestPriming ==
  ASSUME PrimingConfig, TypeOK, PrimingInv, NEW pid \in Int,
         RequestPolicySwitch(pid, FALSE), UNCHANGED <<current, commands, standRun>>
  PROVE  PrimingInv'
<1>1. /\ timer \in [Slot -> Seq(Policy)]
      /\ pending \in Mimic \cup {NoPolicy} /\ HoldInv
      /\ LaunchInv(timer, current, standRun) /\ NoDirect(commands)
  BY PrimingParts DEF TypeOK, ManagerTypeOK
<1>2. /\ ~SkipPrime /\ StandId \in Policy \ Mimic /\ StandId # NoPolicy
  BY ConstantFacts DEF PrimingConfig
<1>3. NoDirect(commands)'
  BY <1>1 DEF NoDirect
<1> SUFFICES /\ pending' \in Mimic \cup {NoPolicy}
             /\ HoldInv'
             /\ LaunchInv(timer', current, standRun)
  BY <1>3 DEF PrimingInv, HoldInv, LaunchInv, NoDirect
<1>4. CASE pid \notin Policy
  BY <1>1, <1>4 DEF RequestPolicySwitch, primeVars, HoldInv
<1>5. CASE pid \in Policy /\ NeedsPrime(pid) /\ RequestPrime(pid)
  <2>1. pending' \in Mimic /\ hold' = 0
    BY <1>5 DEF RequestPrime, NeedsPrime
  <2>2. HoldInv'
    BY <2>1 DEF HoldInv
  <2>3. CASE current # StandId
    <3>1. timer' = AddTask(timer, StandId, DELAY_STEPS_SWITCH_FAST)
      BY <1>5, <2>3 DEF RequestPrime, SwitchPolicy
    <3> QED
      BY <1>1, <1>2, <2>1, <2>2, <3>1, AddLaunch, ConstantFacts
  <2>4. CASE current = StandId
    BY <1>1, <1>5, <2>1, <2>2, <2>4 DEF RequestPrime
  <2> QED
    BY <2>3, <2>4
<1>6. CASE pid \in Policy /\ ~NeedsPrime(pid) /\ RequestOrdinary(pid)
  <2>1. pid \in Policy \ Mimic /\ pid # NoPolicy
    BY <1>2, <1>6, ConstantFacts DEF NeedsPrime
  <2>2. ASSUME pending = NoPolicy
        PROVE  pending' = NoPolicy /\ hold' = hold
    BY <1>6, <2>2 DEF RequestOrdinary, primeVars
  <2>3. ASSUME pending # NoPolicy
        PROVE  pending' = NoPolicy /\ hold' = 0
    <3>1. pid # pending
      BY <1>1, <2>1, <2>3
    <3> QED
      BY <1>6, <2>3, <3>1 DEF RequestOrdinary, ClearPrime
  <2>4. pending' = NoPolicy /\ (hold' = 0 \/ (pending = NoPolicy /\ hold' = hold))
    BY <2>2, <2>3
  <2>5. timer' = AddTask(timer, pid, DELAY_STEPS_SWITCH)
    BY <1>6 DEF RequestOrdinary, SwitchPolicy
  <2>6. HoldInv'
    BY <1>1, <2>4 DEF HoldInv, TypeOK
  <2> QED
    BY <1>1, <2>1, <2>4, <2>5, <2>6, AddLaunch, ConstantFacts
<1> QED
  BY <1>2, <1>4, <1>5, <1>6 DEF RequestPolicySwitch

\* The tick: a dance lands only out of a Stand that has been held, and then
\* leaves nothing launched.
LEMMA LandedDance ==
  ASSUME TypeOK, PrimingInv, EndStep, Landed(timer, current) \in Mimic,
         Landed(timer, current) # current
  PROVE  current = StandId /\ standRun' >= HoldSteps
<1>1. timer[1] \in Seq(Policy) /\ 1 \in Slot
  BY ConstantFacts DEF TypeOK, ManagerTypeOK
<1>2. timer[1] # <<>>
  BY DEF Landed
<1>3. Len(timer[1]) \in 1 .. Len(timer[1]) /\ timer[1][Len(timer[1])] \in Mimic
  BY <1>1, <1>2 DEF Landed
<1>4. current = StandId /\ standRun >= HoldSteps - 1
  BY <1>1, <1>3 DEF PrimingInv
<1>5. HoldSteps \in Nat /\ standRun \in Nat
  BY PipelineAssumption DEF PipelineAssumption, TypeOK
<1> QED
  BY <1>4, <1>5 DEF EndStep

LEMMA InitPriming == Init => PrimingInv
<1> SUFFICES ASSUME Init PROVE PrimingInv
  OBVIOUS
<1>1. LaunchInv(timer, current, standRun)
  BY EmptyLaunch DEF Init, ManagerInit
<1>2. HoldInv /\ NoDirect(commands)
  BY DEF Init, HoldInv, NoDirect
<1> QED
  BY <1>1, <1>2, PrimingParts DEF Init

LEMMA NextPriming ==
  ASSUME PrimingConfig
  PROVE  TypeOK /\ PrimingInv /\ [Next]_vars => PrimingInv'
<1> SUFFICES ASSUME TypeOK, PrimingInv, [Next]_vars PROVE PrimingInv'
  OBVIOUS
<1>1. /\ timer \in [Slot -> Seq(Policy)] /\ current \in Policy
      /\ pending \in Mimic \cup {NoPolicy} /\ HoldInv
      /\ LaunchInv(timer, current, standRun) /\ NoDirect(commands)
      /\ commands \in Seq(CommandSet)
  BY PrimingParts DEF TypeOK, ManagerTypeOK
<1>2. /\ StandId \in Policy \ Mimic /\ StandId # NoPolicy
      /\ HoldSteps \in Nat /\ HoldSteps > 0
      /\ hold \in Nat /\ hold <= HoldSteps /\ standRun \in Nat /\ standRun <= HoldSteps
      /\ Mimic \subseteq Policy
  BY ConstantFacts, PipelineAssumption DEF PrimingConfig, PipelineAssumption, TypeOK
<1>p. ASSUME (pending \in Mimic \cup {NoPolicy})', HoldInv',
             LaunchInv(timer', current', standRun'), NoDirect(commands')
      PROVE  PrimingInv'
  BY <1>p DEF PrimingInv, HoldInv, LaunchInv, NoDirect
<1>c. \A cs \in CommandLists : NoDirect(cs)
  BY CommandListType DEF PrimingConfig, NoDirect
<1>3. ASSUME NEW cs \in CommandLists, ReadControls(cs) PROVE PrimingInv'
  <2>1. UNCHANGED <<timer, current, standRun, pending, hold>> /\ commands' = cs
    BY <1>3 DEF ReadControls, managerVars, primeVars
  <2> QED
    BY <1>1, <1>p, <1>c, <2>1 DEF HoldInv, HasPending
<1>4. ASSUME NEW cs \in CommandLists, SimReborn(cs) PROVE PrimingInv'
  <2>1. timer' = EmptyTimer /\ pending' = NoPolicy /\ hold' = 0 /\ commands' = cs
    BY <1>4 DEF SimReborn
  <2> QED
    BY <1>p, <1>c, <2>1, EmptyLaunch DEF HoldInv
<1>5. CASE StartPostStep
  <2>1. UNCHANGED <<timer, current, standRun>>
    BY <1>5 DEF StartPostStep
  <2>2. \/ pending' = NoPolicy /\ hold' = 0
        \/ pending' = pending /\ hold' = hold
    BY <1>5 DEF StartPostStep, primeVars
  <2>3. HoldInv' /\ pending' \in Mimic \cup {NoPolicy}
    BY <1>1, <2>1, <2>2 DEF HoldInv, HasPending
  <2>4. NoDirect(commands')
    BY <1>1, <1>5, ExpandedNoDirect DEF StartPostStep
  <2> QED
    BY <1>1, <1>p, <2>1, <2>3, <2>4
<1>6. CASE Arbitrate
  <2>1. UNCHANGED <<timer, current, standRun, pending, hold>>
    BY <1>6 DEF Arbitrate, ArbitrateMotionDone, ArbitrateNothing, ArbitrateMusicSwitch,
                ArbitrateMusicLoop, StartDispatch, primeVars
  <2>2. \/ commands' = commands
        \/ \E pid : commands' = Append(commands, Switch(pid))
    BY <1>6 DEF Arbitrate, ArbitrateMotionDone, ArbitrateNothing, ArbitrateMusicSwitch,
                ArbitrateMusicLoop
  <2>3. NoDirect(commands')
    BY <1>1, <2>2, AppendNoDirect
  <2> QED
    BY <1>1, <1>p, <2>1, <2>3 DEF HoldInv, HasPending
<1>7. CASE Dispatch
  <2>1. ASSUME NEW kinds, Dispatching(kinds)
        PROVE  /\ UNCHANGED <<current, commands, standRun>>
               /\ commands[at].kind \in kinds /\ commands[at].kind \notin {"direct", "safe"}
               /\ commands[at].pid \in Int
    <3>1. at \in 1 .. Len(commands) /\ commands[at].kind \in kinds
          /\ UNCHANGED <<current, commands, standRun>>
      BY <2>1 DEF Dispatching, TypeOK
    <3>2. commands[at] \in CommandSet
      BY <1>1, <3>1
    <3>3. commands[at].kind \notin {"direct", "safe"}
      BY <1>1, <3>1 DEF NoDirect
    <3> QED
      BY <3>1, <3>2, <3>3 DEF CommandSet
  <2>2. CASE DispatchSwitch
    BY <2>1, <2>2, RequestPriming DEF DispatchSwitch
  <2>3. CASE DispatchToggle
    <3>1. (current + 1) % NumPolicies \in Int
      BY <1>1, ConstantFacts
    <3> QED
      BY <2>1, <2>3, <3>1, RequestPriming DEF DispatchToggle
  <2>4. CASE DispatchOther
    <3>1. UNCHANGED <<timer, current, standRun, pending, hold, commands>>
      BY <2>1, <2>4 DEF DispatchOther, primeVars
    <3> QED
      BY <1>1, <1>p, <3>1 DEF HoldInv, HasPending
  <2>5. ~DispatchDirect /\ ~DispatchSafeHere /\ ~DispatchSafeElsewhere
    BY <2>1 DEF DispatchDirect, DispatchSafeHere, DispatchSafeElsewhere
  <2> QED
    BY <1>7, <2>2, <2>3, <2>4, <2>5 DEF Dispatch
<1>8. ASSUME EndStep PROVE NoDirect(commands')
  BY <1>8 DEF EndStep, NoDirect
<1>9. CASE FinishStep
  <2>1. timer' = Ticked(timer) /\ pending' = pending /\ hold' = hold /\ EndStep /\ ~Holding
    BY <1>9 DEF FinishStep, primeVars
  <2>2. LaunchInv(timer', current', standRun')
    BY <1>1, <2>1, TickLaunch
  <2>3. hold = 0
    <3> SUFFICES ASSUME hold > 0 PROVE FALSE
      BY <1>2
    <3>1. \A d \in Slot : timer[d] = <<>>
      BY <1>1 DEF HoldInv, HasPending
    <3>2. Landed(timer, current) = current
      BY <3>1, ConstantFacts DEF Landed
    <3>3. \A d \in Slot : Ticked(timer)[d] = <<>>
      BY <3>1, ConstantFacts DEF Ticked, Slot
    <3> QED
      BY <1>1, <1>2, <2>1, <3>2, <3>3 DEF Holding, HoldInv, HasPending
  <2> QED
    BY <1>1, <1>8, <1>p, <2>1, <2>2, <2>3 DEF HoldInv
<1>10. ASSUME Holding, EndStep
       PROVE  /\ current' = StandId
              /\ pending # NoPolicy /\ pending \in Mimic
              /\ ~HasPending(Ticked(timer))
              /\ standRun' \in Nat
              /\ standRun' >= HoldSteps - 1 - HoldLeft
  <2>1. current' = StandId /\ pending # NoPolicy /\ ~HasPending(Ticked(timer))
    BY <1>10 DEF Holding, EndStep
  <2>2. standRun' \in Nat
    BY <1>2, <1>10 DEF EndStep
  <2>3. standRun' >= HoldSteps - 1 - HoldLeft
    <3>1. CASE hold <= 0
      <4>1. HoldLeft = HoldSteps - 1
        BY <3>1 DEF HoldLeft
      <4> QED
        BY <1>2, <2>2, <4>1
    <3>2. CASE hold > 0
      <4>1. current = StandId /\ standRun >= HoldSteps - 1 - hold
        BY <1>1, <3>2 DEF HoldInv
      <4>2. standRun' = IF standRun < HoldSteps THEN standRun + 1 ELSE standRun
        BY <1>10, <4>1 DEF EndStep
      <4>3. HoldLeft = hold - 1
        BY <1>2, <3>2 DEF HoldLeft
      <4> QED
        BY <1>2, <3>2, <4>1, <4>2, <4>3
    <3> QED
      BY <1>2, <3>1, <3>2
  <2> QED
    BY <1>1, <2>1, <2>2, <2>3
<1>11. CASE FinishStepHolding
  <2>1. /\ timer' = Ticked(timer) /\ pending' = pending /\ hold' = HoldLeft
        /\ EndStep /\ Holding
    BY <1>11 DEF FinishStepHolding
  <2>2. LaunchInv(timer', current', standRun')
    BY <1>1, <2>1, TickLaunch
  <2>3. HoldInv'
    BY <1>10, <2>1 DEF HoldInv, HasPending
  <2> QED
    BY <1>1, <1>8, <1>p, <2>1, <2>2, <2>3
<1>12. CASE FinishStepLaunching
  <2>1. /\ timer' = AddTask(Ticked(timer), pending, DELAY_STEPS_SWITCH_FAST)
        /\ pending' = NoPolicy /\ hold' = 0 /\ EndStep /\ Holding /\ HoldLeft <= 0
    BY <1>12 DEF FinishStepLaunching, ClearPrime
  <2>2. current' = StandId /\ pending \in Policy /\ ~HasPending(Ticked(timer))
    BY <1>2, <1>10, <2>1
  <2>3. standRun' >= HoldSteps - 1
    BY <1>2, <1>10, <2>1 DEF HoldLeft
  <2>4. LaunchInv(timer', current', standRun')
    <3>1. Ticked(timer) \in [Slot -> Seq(Policy)]
      BY <1>1, TimerTypes
    <3> QED
      BY <2>1, <2>2, <2>3, <3>1, OnlyLaunch
  <2> QED
    BY <1>8, <1>p, <2>1, <2>4 DEF HoldInv
<1>13. CASE SelfChecked \/ PrepareReset
  <2>1. timer' = EmptyTimer /\ pending' = NoPolicy /\ hold' = 0 /\ commands' = commands
    BY <1>13 DEF SelfChecked, PrepareReset, Reset, ClearPrime, stepVars
  <2> QED
    BY <1>1, <1>p, <2>1, EmptyLaunch DEF HoldInv
<1>14. CASE DeadlinePasses \/ UNCHANGED vars
  <2>1. UNCHANGED <<timer, current, standRun, pending, hold, commands>>
    BY <1>14 DEF DeadlinePasses, vars, managerVars, stepVars, primeVars
  <2> QED
    BY <1>1, <1>p, <2>1 DEF HoldInv, HasPending
<1> QED
  BY <1>3, <1>4, <1>5, <1>6, <1>7, <1>9, <1>11, <1>12, <1>13, <1>14
     DEF Next, BeginStep, RestOfStep, FinishStepActions

\* PrimingInv is an invariant of every pipeline that primes.
THEOREM PrimingCorrect ==
  ASSUME PrimingConfig
  PROVE  Spec => []PrimingInv
<1>1. TypeOK /\ PrimingInv /\ [Next]_vars => PrimingInv'
  BY NextPriming
<1> QED
  BY <1>1, TypeCorrect, InitPriming, PTL DEF Spec

\* The step that makes a dance the current policy leaves Stand, which has run the
\* whole hold: for every number of policies, delay, hold and command set.
LEMMA DanceStep ==
  ASSUME PrimingConfig
  PROVE  TypeOK /\ PrimingInv /\ [Next]_vars =>
           [current' # current /\ current' \in Mimic
              => current = StandId /\ standRun' >= HoldSteps]_vars
<1> SUFFICES ASSUME TypeOK, PrimingInv, Next, current' # current, current' \in Mimic
             PROVE  current = StandId /\ standRun' >= HoldSteps
  BY DEF vars
<1>1. ASSUME EndStep PROVE current = StandId /\ standRun' >= HoldSteps
  BY <1>1, LandedDance DEF EndStep
<1>2. CASE FinishStepActions
  BY <1>1, <1>2 DEF FinishStepActions, FinishStep, FinishStepHolding, FinishStepLaunching
<1>3. ASSUME NEW cs \in CommandLists, BeginStep(cs) PROVE FALSE
  BY <1>3 DEF BeginStep, ReadControls, SimReborn, managerVars, PrimingConfig
<1>4. ~(SelfChecked \/ PrepareReset)
  BY DEF SelfChecked, PrepareReset, Reset, PrimingConfig
<1>5. ~(StartPostStep \/ Arbitrate \/ Dispatch \/ DeadlinePasses)
  BY DEF StartPostStep, Arbitrate, ArbitrateMotionDone, ArbitrateNothing,
         ArbitrateMusicSwitch, ArbitrateMusicLoop, StartDispatch, Dispatch,
         DispatchSwitch, DispatchDirect, DispatchToggle, DispatchSafeHere,
         DispatchSafeElsewhere, DispatchOther, Dispatching, DeadlinePasses, managerVars
<1> QED
  BY <1>2, <1>3, <1>4, <1>5 DEF Next, RestOfStep

THEOREM DanceEnteredFromHeldStand ==
  ASSUME PrimingConfig
  PROVE  Spec => DanceOnlyFromHeldStand
<1>1. TypeOK /\ PrimingInv /\ [Next]_vars =>
        [current' # current /\ current' \in Mimic
           => current = StandId /\ standRun' >= HoldSteps]_vars
  BY DanceStep
<1> QED
  BY <1>1, TypeCorrect, PrimingCorrect, PTL DEF Spec, DanceOnlyFromHeldStand

-----------------------------------------------------------------------------
(***************************************************************************)
(* A policy is warmed up only while a switch to it is scheduled            *)
(***************************************************************************)

\* A new task goes to the end of its slot and leaves the others alone.
LEMMA AddTaskSlots ==
  ASSUME NEW t \in [Slot -> Seq(Policy)], NEW pid \in Policy, NEW d \in Slot
  PROVE  /\ AddTask(t, pid, d)[d] = Append(t[d], pid)
         /\ \A e \in Slot \ {d} : AddTask(t, pid, d)[e] = t[e]
BY DEF AddTask

\* What a task schedules stays scheduled, and the new policy is.
LEMMA ScheduledAfterAdd ==
  ASSUME NEW t \in [Slot -> Seq(Policy)], NEW pid \in Policy, NEW d \in Slot
  PROVE  Scheduled(t) \cup {pid} \subseteq Scheduled(AddTask(t, pid, d))
<1> DEFINE u == AddTask(t, pid, d)
<1>1. u[d] = Append(t[d], pid) /\ \A e \in Slot \ {d} : u[e] = t[e]
  BY AddTaskSlots
<1> HIDE DEF u
<1>2. Len(u[d]) \in 1 .. Len(u[d]) /\ u[d][Len(u[d])] = pid
  BY <1>1
<1>3. pid \in Scheduled(u)
  BY <1>2 DEF Scheduled
<1>4. ASSUME NEW p \in Scheduled(t) PROVE p \in Scheduled(u)
  <2>1. p \in Policy /\ \E e \in Slot : \E i \in 1 .. Len(t[e]) : t[e][i] = p
    BY <1>4 DEF Scheduled
  <2>2. PICK e \in Slot : \E i \in 1 .. Len(t[e]) : t[e][i] = p
    BY <2>1
  <2>3. PICK i \in 1 .. Len(t[e]) : t[e][i] = p
    BY <2>2
  <2>4. i \in 1 .. Len(u[e]) /\ u[e][i] = p
    BY <1>1, <2>3
  <2> QED
    BY <2>1, <2>4 DEF Scheduled
<1> QED
  BY <1>3, <1>4 DEF u

\* What a tick does not run stays scheduled.
LEMMA ScheduledAfterTick ==
  ASSUME NEW t \in [Slot -> Seq(Policy)]
  PROVE  Scheduled(t) \ Due(t) \subseteq Scheduled(Ticked(t))
<1> SUFFICES ASSUME NEW p \in Scheduled(t), p \notin Due(t) PROVE p \in Scheduled(Ticked(t))
  OBVIOUS
<1>1. PICK d \in Slot : \E i \in 1 .. Len(t[d]) : t[d][i] = p
  BY DEF Scheduled
<1>2. PICK i \in 1 .. Len(t[d]) : t[d][i] = p
  BY <1>1
<1>3. d # 1
  BY <1>2 DEF Due
<1>4. d - 1 \in Slot /\ Ticked(t)[d - 1] = t[d]
  BY <1>3, ConstantFacts DEF Ticked, Slot
<1>5. i \in 1 .. Len(Ticked(t)[d - 1]) /\ Ticked(t)[d - 1][i] = p
  BY <1>2, <1>4
<1> QED
  BY <1>4, <1>5 DEF Scheduled

\* A request, however it leaves _request_policy_switch, changes neither the timer
\* nor the warmup set, or schedules one policy and warms it up.
LEMMA RequestSchedules ==
  ASSUME TypeOK, NEW pid \in Int, NEW direct \in BOOLEAN, RequestPolicySwitch(pid, direct)
  PROVE  \/ UNCHANGED <<timer, warmup>>
         \/ \E p \in Policy, d \in Slot : timer' = AddTask(timer, p, d) /\ warmup' = warmup \cup {p}
<1>1. CASE pid \notin Policy
  BY <1>1 DEF RequestPolicySwitch
<1>2. CASE pid \in Policy /\ RequestDirect(pid)
  BY <1>2, ConstantFacts DEF RequestDirect, SwitchPolicy
<1>3. CASE pid \in Policy /\ NeedsPrime(pid) /\ RequestPrime(pid)
  <2>1. StandId \in Policy
    BY <1>3, StandIdType DEF NeedsPrime
  <2> QED
    BY <1>3, <2>1, ConstantFacts DEF RequestPrime, SwitchPolicy
<1>4. CASE pid \in Policy /\ RequestOrdinary(pid)
  BY <1>4, ConstantFacts DEF RequestOrdinary, SwitchPolicy
<1> QED
  BY <1>1, <1>2, <1>3, <1>4 DEF RequestPolicySwitch

\* Every dispatched command is at most one request: direct only for [POLICY_DIRECT]
\* and [POLICY_SAFE], and for its own policy when it names one.
LEMMA DispatchForms ==
  ASSUME TypeOK, Dispatch
  PROVE  /\ pc = "dispatch" /\ at \in 1 .. Len(commands) /\ at' = at + 1
         /\ UNCHANGED <<current, pc, commands, callback, phase, autoQueued, deadline, standRun>>
         /\ commands[at] \in CommandSet
         /\ \/ commands[at].kind # "switch" /\ UNCHANGED <<timer, warmup, primeVars>>
            \/ \E pid \in Int, direct \in BOOLEAN :
                 /\ RequestPolicySwitch(pid, direct)
                 /\ direct => commands[at].kind \in {"direct", "safe"}
                 /\ commands[at].kind = "switch" => pid = commands[at].pid
<1>1. ASSUME NEW kinds, Dispatching(kinds)
      PROVE  /\ pc = "dispatch" /\ at \in 1 .. Len(commands) /\ at' = at + 1
             /\ UNCHANGED <<current, pc, commands, callback, phase, autoQueued, deadline, standRun>>
             /\ commands[at] \in CommandSet /\ commands[at].kind \in kinds
             /\ commands[at].pid \in Int
  <2>1. /\ pc = "dispatch" /\ at \in 1 .. Len(commands) /\ at' = at + 1
        /\ UNCHANGED <<current, pc, commands, callback, phase, autoQueued, deadline, standRun>>
        /\ commands[at].kind \in kinds
    BY <1>1 DEF Dispatching, TypeOK
  <2>2. commands[at] \in CommandSet
    BY <2>1 DEF TypeOK
  <2> QED
    BY <2>1, <2>2 DEF CommandSet
<1>2. CASE DispatchSwitch
  BY <1>1, <1>2 DEF DispatchSwitch
<1>3. CASE DispatchDirect
  BY <1>1, <1>3 DEF DispatchDirect
<1>4. CASE DispatchToggle
  <2> DEFINE pid == (current + 1) % NumPolicies
  <2>1. pid \in Int
    BY ConstantFacts DEF TypeOK, ManagerTypeOK
  <2>2. RequestPolicySwitch(pid, FALSE) /\ Dispatching({"toggle"})
    BY <1>4 DEF DispatchToggle
  <2>3. commands[at].kind = "toggle"
    BY <1>1, <2>2
  <2>4. \E p \in Int, direct \in BOOLEAN :
          /\ RequestPolicySwitch(p, direct)
          /\ direct => commands[at].kind \in {"direct", "safe"}
          /\ commands[at].kind = "switch" => p = commands[at].pid
    <3> HIDE DEF pid
    <3> QED
      BY <2>1, <2>2, <2>3
  <2> QED
    BY <1>1, <2>2, <2>4
<1>5. CASE DispatchSafeHere
  BY <1>1, <1>5 DEF DispatchSafeHere
<1>6. CASE DispatchSafeElsewhere
  <2>1. CASE commands[at].pid < NumPolicies
    BY <1>1, <1>6, <2>1 DEF DispatchSafeElsewhere
  <2>2. CASE ~(commands[at].pid < NumPolicies)
    BY <1>1, <1>6, <2>2 DEF DispatchSafeElsewhere
  <2> QED
    BY <2>1, <2>2
<1>7. CASE DispatchOther
  BY <1>1, <1>7 DEF DispatchOther
<1> QED
  BY <1>2, <1>3, <1>4, <1>5, <1>6, <1>7 DEF Dispatch

\* A dispatched command touches the timer and the warmup set through such a
\* request only.
LEMMA DispatchSchedules ==
  ASSUME TypeOK, Dispatch
  PROVE  \/ UNCHANGED <<timer, warmup>>
         \/ \E p \in Policy, d \in Slot :
              timer' = AddTask(timer, p, d) /\ warmup' = warmup \cup {p}
BY DispatchForms, RequestSchedules

\* The pipelines that never go through prepare(), whose reset empties the timer
\* and leaves the warmup set: those of a simulator, and a robot's once it runs.
NoPrepare == IsSim \/ BootPhase = "run"

\* WarmupIsScheduled is inductive once the phase of such a pipeline is known.
WarmupInv ==
  /\ WarmupIsScheduled
  /\ phase # "prepare"
  /\ phase = "selfcheck" => IsSim

LEMMA InitWarmup ==
  ASSUME NoPrepare
  PROVE  Init => WarmupInv
BY PipelineAssumption DEF NoPrepare, PipelineAssumption, Init, ManagerInit, WarmupInv,
   WarmupIsScheduled, Phase

LEMMA NextWarmup == TypeOK /\ WarmupInv /\ [Next]_vars => WarmupInv'
<1> SUFFICES ASSUME TypeOK, WarmupInv, [Next]_vars PROVE WarmupInv'
  OBVIOUS
<1>0. /\ timer \in [Slot -> Seq(Policy)] /\ warmup \subseteq Policy /\ pending \in Policy \cup {NoPolicy}
      /\ phase = "run" => warmup \subseteq Scheduled(timer)
      /\ phase # "prepare" /\ (phase = "selfcheck" => IsSim)
  BY DEF TypeOK, ManagerTypeOK, WarmupInv, WarmupIsScheduled
<1>w. ASSUME phase' = phase, phase = "run" => warmup' \subseteq Scheduled(timer')
      PROVE  WarmupInv'
  BY <1>0, <1>w DEF WarmupInv, WarmupIsScheduled, Scheduled
<1>u. ASSUME UNCHANGED <<timer, warmup, phase>> PROVE WarmupInv'
  BY <1>0, <1>u, <1>w
<1>e. ASSUME phase' = phase, warmup' = {} PROVE WarmupInv'
  BY <1>e, <1>w
<1>1. ASSUME NEW cs \in CommandLists, BeginStep(cs) PROVE WarmupInv'
  <2>1. CASE ReadControls(cs)
    BY <1>u, <2>1 DEF ReadControls, managerVars
  <2>2. CASE SimReborn(cs)
    BY <1>e, <2>2 DEF SimReborn
  <2> QED
    BY <1>1, <2>1, <2>2 DEF BeginStep
<1>2. CASE StartPostStep
  BY <1>2, <1>u DEF StartPostStep
<1>3. CASE Arbitrate
  BY <1>3, <1>u DEF Arbitrate, ArbitrateMotionDone, ArbitrateNothing, ArbitrateMusicSwitch,
     ArbitrateMusicLoop, StartDispatch
<1>4. CASE Dispatch
  <2>1. phase' = phase
    BY <1>4, DispatchForms
  <2>2. CASE UNCHANGED <<timer, warmup>>
    BY <1>u, <2>1, <2>2
  <2>3. ASSUME NEW p \in Policy, NEW d \in Slot,
               timer' = AddTask(timer, p, d), warmup' = warmup \cup {p}
        PROVE  WarmupInv'
    BY <1>0, <1>w, <2>1, <2>3, ScheduledAfterAdd
  <2> QED
    BY <1>4, <2>2, <2>3, DispatchSchedules
<1>5. ASSUME timer' = Ticked(timer), warmup' = warmup \ Due(timer), phase' = phase
      PROVE  WarmupInv'
  BY <1>0, <1>5, <1>w, ScheduledAfterTick
<1>6. CASE FinishStep \/ FinishStepHolding
  BY <1>5, <1>6 DEF FinishStep, FinishStepHolding, EndStep
<1>7. CASE FinishStepLaunching
  <2>1. /\ timer' = AddTask(Ticked(timer), pending, DELAY_STEPS_SWITCH_FAST)
        /\ warmup' = (warmup \ Due(timer)) \cup {pending}
        /\ phase' = phase /\ pending \in Policy
    BY <1>0, <1>7 DEF FinishStepLaunching, EndStep, Holding
  <2>2. Ticked(timer) \in [Slot -> Seq(Policy)]
    BY <1>0, TimerTypes DEF TypeOK, ManagerTypeOK
  <2>3. Scheduled(Ticked(timer)) \cup {pending} \subseteq Scheduled(timer')
    BY <2>1, <2>2, ConstantFacts, ScheduledAfterAdd
  <2> QED
    BY <1>0, <1>w, <2>1, <2>3, ScheduledAfterTick
<1>8. CASE SelfChecked
  <2>1. phase' = "run" /\ warmup' = {}
    BY <1>0, <1>8 DEF SelfChecked
  <2> QED
    BY <2>1 DEF WarmupInv, WarmupIsScheduled
<1>9. ~PrepareReset
  BY <1>0 DEF PrepareReset
<1>10. CASE DeadlinePasses \/ UNCHANGED vars
  BY <1>10, <1>u DEF DeadlinePasses, vars, managerVars
<1> QED
  BY <1>1, <1>2, <1>3, <1>4, <1>6, <1>7, <1>8, <1>9, <1>10
     DEF Next, RestOfStep, FinishStepActions

\* No warmup outlives the switch it is for: every tick that runs the switch takes
\* its policy off the warmup set, and whatever drops the timer drops the set.
THEOREM WarmupOnlyWhileScheduled ==
  ASSUME NoPrepare
  PROVE  Spec => []WarmupIsScheduled
<1>1. Init => WarmupInv
  BY InitWarmup
<1>2. WarmupInv => WarmupIsScheduled
  BY DEF WarmupInv
<1> QED
  BY <1>1, <1>2, NextWarmup, TypeCorrect, PTL DEF Spec

-----------------------------------------------------------------------------
(***************************************************************************)
(* A Stand prime is over in time                                           *)
(***************************************************************************)

\* The pipelines that prime and whose only policy besides the dances is the Stand
\* they prime on, as g1_gesti_multi_real.  Where another policy walks, an ordinary
\* switch to it may land on a prime and leave it armed for good.
OnlyStandWaits == PrimingConfig /\ Policy \ Mimic = {StandId}

\* Nothing is scheduled behind slot l.
UsedUpTo(l) == \A d \in Slot : d > l => timer[d] = <<>>

\* The armed prime is over when n more steps have finished and one more has begun:
\* a dance runs, and the step that begins clears the prime; or one launched before lands in this step; or
\* Stand is held for what is left of the hold; or the whole hold follows once the
\* timer is empty.
ResolvesWithin(n) ==
  /\ pending # NoPolicy
  /\ \/ current \in Mimic /\ pc \in {"begin", "start"}
     \/ current = StandId /\ Landed(timer, current) \in Mimic /\ n >= 1
     \/ Landed(timer, current) = StandId /\ hold > 0 /\ n >= hold
     \/ /\ Landed(timer, current) = StandId /\ hold = 0
        /\ \E l \in Slot : UsedUpTo(l) /\ n >= HoldSteps + l - 1

MaxPrime == HoldSteps + DELAY_STEPS_SWITCH - 1

PrimeIsTimed == pending # NoPolicy => ResolvesWithin(MaxPrime)

\* A dance is asked for, by a command or an automatic source.
DanceAsked == Dispatch /\ \E pid \in Mimic : RequestPrime(pid)

\* A finished step takes one off what is left, and only another dance asked for
\* puts anything on.
PrimeCountsDown ==
  [][\A n \in Nat : ResolvesWithin(n) =>
       \/ pending' = NoPolicy \/ DanceAsked
       \/ FinishStepActions /\ ResolvesWithin(n - 1)'
       \/ ~FinishStepActions /\ ResolvesWithin(n)']_vars

LEMMA OnlyStandFacts ==
  ASSUME OnlyStandWaits, TypeOK, PrimingInv
  PROVE  /\ StandId \in Policy /\ StandId \notin Mimic /\ StandId # NoPolicy
         /\ Mimic \subseteq Policy /\ NoPolicy \notin Mimic
         /\ \A p \in Policy : p \in Mimic \/ p = StandId
         /\ timer \in [Slot -> Seq(Policy)] /\ current \in Policy
         /\ pending \in Mimic \cup {NoPolicy}
         /\ HoldSteps \in Nat /\ HoldSteps > 0 /\ hold \in Nat /\ hold <= HoldSteps
         /\ MaxPrime \in Nat /\ MaxPrime >= 1
         /\ Landed(timer, current) \in Policy
<1>1. timer \in [Slot -> Seq(Policy)] /\ current \in Policy
  BY DEF TypeOK, ManagerTypeOK
<1>2. Landed(timer, current) \in Policy
  BY <1>1, TimerTypes
<1>3. HoldSteps \in Nat /\ HoldSteps > 0 /\ hold \in Nat /\ hold <= HoldSteps /\ Mimic \subseteq Policy
  BY PipelineAssumption DEF PipelineAssumption, TypeOK
<1> QED
  BY <1>1, <1>2, <1>3, ConstantFacts DEF OnlyStandWaits, PrimingConfig, PrimingInv, MaxPrime

\* While a hold counts down the timer is empty and Stand runs.
LEMMA HoldIsQuiet ==
  ASSUME PrimingInv, hold > 0
  PROVE  /\ current = StandId /\ \A d \in Slot : timer[d] = <<>>
         /\ Landed(timer, current) = StandId
         /\ \A d \in Slot : Ticked(timer)[d] = <<>>
<1>1. current = StandId /\ \A d \in Slot : timer[d] = <<>>
  BY DEF PrimingInv, HasPending
<1> QED
  BY <1>1, ConstantFacts DEF Landed, Ticked, Slot

\* Once a tick is over no dance is due: it would land Stand or what runs.
LEMMA TickedLands ==
  ASSUME OnlyStandWaits, TypeOK, PrimingInv
  PROVE  Landed(Ticked(timer), StandId) = StandId
<1>1. Ticked(timer) \in [Slot -> Seq(Policy)]
  BY OnlyStandFacts, TimerTypes
<1>2. LaunchInv(Ticked(timer), NoPolicy, 0)
  BY OnlyStandFacts, PrimingParts, TickLaunch
<1>3. ASSUME Ticked(timer)[1] # <<>>
      PROVE  Ticked(timer)[1][Len(Ticked(timer)[1])] = StandId
  <2>1. Ticked(timer)[1] \in Seq(Policy)
    BY <1>1, ConstantFacts
  <2>2. /\ Len(Ticked(timer)[1]) \in 1 .. Len(Ticked(timer)[1])
        /\ Ticked(timer)[1][Len(Ticked(timer)[1])] \in Policy
    BY <1>3, <2>1
  <2>3. Ticked(timer)[1][Len(Ticked(timer)[1])] \notin Mimic
    BY <1>2, <2>2, OnlyStandFacts, ConstantFacts DEF LaunchInv
  <2> QED
    BY <2>2, <2>3, OnlyStandFacts
<1> QED
  BY <1>3 DEF Landed

\* A policy put behind all others that are due is the one that lands.
LEMMA AddedLands ==
  ASSUME NEW t \in [Slot -> Seq(Policy)], NEW pid \in Policy, NEW cur
  PROVE  Landed(AddTask(t, pid, 1), cur) = pid
<1> DEFINE u == AddTask(t, pid, 1)
<1>1. t[1] \in Seq(Policy)
  BY ConstantFacts
<1>2. u[1] = Append(t[1], pid)
  BY AddTaskSlots, ConstantFacts
<1> HIDE DEF u
<1>3. u[1] # <<>> /\ u[1][Len(u[1])] = pid
  BY <1>1, <1>2
<1> QED
  BY <1>3 DEF Landed, u

\* A step that leaves timer, hold and policy alone takes no time off a prime; a
\* new request for a dance is over in time.
LEMMA RequestTimed ==
  ASSUME OnlyStandWaits, TypeOK, PrimingInv, PrimeIsTimed, Dispatch
  PROVE  /\ PrimeIsTimed'
         /\ \A n \in Nat : ResolvesWithin(n) =>
              pending' = NoPolicy \/ DanceAsked \/ ResolvesWithin(n)'
<1> USE OnlyStandFacts, ConstantFacts
<1>1. /\ pc = "dispatch" /\ UNCHANGED <<current, pc>>
      /\ at \in 1 .. Len(commands) /\ commands[at].kind \notin {"direct", "safe"}
  BY DispatchForms DEF PrimingInv
<1>2. \/ UNCHANGED <<timer, primeVars>>
      \/ \E pid \in Int : RequestPolicySwitch(pid, FALSE)
  BY <1>1, DispatchForms
<1>3. CASE UNCHANGED <<timer, primeVars>>
  <2>1. \A n \in Nat : ResolvesWithin(n) => ResolvesWithin(n)'
    BY <1>1, <1>3 DEF ResolvesWithin, UsedUpTo, primeVars
  <2> QED
    BY <1>3, <2>1 DEF PrimeIsTimed, primeVars
<1>4. ASSUME NEW pid \in Mimic, RequestPrime(pid) PROVE PrimeIsTimed'
  <2>1. pending' # NoPolicy /\ hold' = 0
    BY <1>4 DEF RequestPrime
  <2>2. UsedUpTo(DELAY_STEPS_SWITCH)'
    BY DEF UsedUpTo, Slot
  <2>3. CASE current = StandId
    <3>1. timer' = timer
      BY <1>4, <2>3 DEF RequestPrime
    <3>2. CASE Landed(timer, current) \in Mimic
      BY <1>1, <2>1, <2>3, <3>1, <3>2 DEF PrimeIsTimed, ResolvesWithin
    <3>3. CASE Landed(timer, current) = StandId
      <4>1. Landed(timer', current') = StandId
        BY <1>1, <3>1, <3>3
      <4> QED
        BY <2>1, <2>2, <4>1 DEF PrimeIsTimed, ResolvesWithin, MaxPrime
    <3> QED
      BY <3>2, <3>3
  <2>4. CASE current # StandId
    <3>1. timer' = AddTask(timer, StandId, 1)
      BY <1>4, <2>4 DEF RequestPrime, SwitchPolicy
    <3>3. Landed(timer', current') = StandId
      BY <3>1, AddedLands
    <3> QED
      BY <2>1, <2>2, <3>3 DEF PrimeIsTimed, ResolvesWithin, MaxPrime
  <2> QED
    BY <2>3, <2>4
<1>5. ASSUME NEW pid \in Policy \ Mimic, RequestOrdinary(pid)
      PROVE  pending # NoPolicy => pending' = NoPolicy
    BY <1>5 DEF RequestOrdinary, ClearPrime
<1>6. ASSUME NEW pid \in Policy \ Mimic, RequestOrdinary(pid)
      PROVE  pending' = NoPolicy
  BY <1>5, <1>6 DEF RequestOrdinary, primeVars
<1>7. ASSUME NEW pid \in Int, RequestPolicySwitch(pid, FALSE)
      PROVE  \/ UNCHANGED <<timer, primeVars>>
             \/ \E p \in Mimic : RequestPrime(p)
             \/ \E p \in Policy \ Mimic : RequestOrdinary(p)
  BY <1>7 DEF RequestPolicySwitch, NeedsPrime, OnlyStandWaits, PrimingConfig
<1>8. CASE \E p \in Mimic : RequestPrime(p)
  BY <1>4, <1>8 DEF DanceAsked
<1>9. CASE \E p \in Policy \ Mimic : RequestOrdinary(p)
  BY <1>6, <1>9 DEF PrimeIsTimed
<1> QED
  BY <1>2, <1>3, <1>7, <1>8, <1>9

\* A finished step takes one step off a prime.
LEMMA FinishTimed ==
  ASSUME OnlyStandWaits, TypeOK, PrimingInv, FinishStepActions, NEW n \in Nat, ResolvesWithin(n)
  PROVE  n >= 1 /\ (pending' = NoPolicy \/ ResolvesWithin(n - 1)')
<1> USE OnlyStandFacts, ConstantFacts
<1>1. pc = "dispatch" /\ pc' = "begin" /\ current' = Landed(timer, current)
  BY DEF FinishStepActions, FinishStep, FinishStepHolding, FinishStepLaunching, EndStep
<1>2. CASE Landed(timer, current) \in Mimic
  <2>1. FinishStep
    BY <1>2 DEF FinishStepActions, FinishStepHolding, FinishStepLaunching, Holding
  <2>2. pending' = pending
    BY <2>1 DEF FinishStep, primeVars
  <2> QED
    BY <1>1, <1>2, <2>2 DEF ResolvesWithin
<1>3. CASE Landed(timer, current) = StandId
  <2>1. timer' = Ticked(timer) \/ pending' = NoPolicy
    BY DEF FinishStepActions, FinishStep, FinishStepHolding, FinishStepLaunching, ClearPrime
  <2>2. Landed(Ticked(timer), StandId) = StandId
    BY TickedLands
  <2>3. CASE Holding
    <3>1. \/ pending' = NoPolicy
          \/ hold' = HoldLeft /\ HoldLeft > 0 /\ pending' = pending
      BY <2>3 DEF FinishStepActions, FinishStep, FinishStepHolding, FinishStepLaunching, ClearPrime
    <3>2. n >= 1 /\ HoldLeft <= n - 1
      BY <1>1, <1>3 DEF ResolvesWithin, HoldLeft, Slot
    <3> QED
      BY <1>1, <1>3, <2>1, <2>2, <3>1, <3>2 DEF ResolvesWithin
  <2>4. CASE ~Holding
    <3>1. timer' = Ticked(timer) /\ pending' = pending /\ hold' = hold
      BY <2>4 DEF FinishStepActions, FinishStep, FinishStepHolding, FinishStepLaunching, primeVars
    <3>2. pending # NoPolicy /\ HasPending(Ticked(timer))
      BY <1>3, <2>4 DEF Holding, ResolvesWithin
    <3>3. hold = 0
      BY <3>2, HoldIsQuiet DEF HasPending
    <3>4. PICK l \in Slot : UsedUpTo(l) /\ n >= HoldSteps + l - 1
      BY <1>1, <1>3, <3>3 DEF ResolvesWithin
    <3>5. l # 1
      BY <3>2, <3>4 DEF UsedUpTo, HasPending, Ticked, Slot
    <3>6. l - 1 \in Slot /\ UsedUpTo(l - 1)'
      BY <3>1, <3>4, <3>5 DEF UsedUpTo, Ticked, Slot
    <3>7. n - 1 >= HoldSteps + (l - 1) - 1 /\ n >= 1
      BY <3>4, <3>5 DEF Slot
    <3> QED
      BY <1>1, <1>3, <2>2, <3>1, <3>2, <3>3, <3>6, <3>7 DEF ResolvesWithin
  <2> QED
    BY <2>3, <2>4
<1> QED
  BY <1>2, <1>3

\* Every other step leaves the time a prime takes alone.
LEMMA PrimeGoes ==
  ASSUME OnlyStandWaits, TypeOK, PrimingInv, PrimeIsTimed, [Next]_vars
  PROVE  /\ PrimeIsTimed'
         /\ \A n \in Nat : ResolvesWithin(n) =>
              \/ pending' = NoPolicy \/ DanceAsked
              \/ FinishStepActions /\ ResolvesWithin(n - 1)'
              \/ ~FinishStepActions /\ ResolvesWithin(n)'
<1> USE OnlyStandFacts, ConstantFacts
<1>f. FinishStepActions => pc = "dispatch" /\ pc' = "begin"
  BY DEF FinishStepActions, FinishStep, FinishStepHolding, FinishStepLaunching, EndStep
<1>s. ASSUME UNCHANGED <<current, timer, pending, hold>>, NEW n \in Nat, ResolvesWithin(n),
             current \in Mimic => pc' \in {"begin", "start"} \/ pc' = pc
      PROVE  ResolvesWithin(n)'
  BY <1>s DEF ResolvesWithin, UsedUpTo
<1>1. ASSUME UNCHANGED <<current, timer, pending, hold>>, ~FinishStepActions,
             current \in Mimic /\ pending # NoPolicy => pc' \in {"begin", "start"} \/ pc' = pc
      PROVE  /\ PrimeIsTimed'
             /\ \A n \in Nat : ResolvesWithin(n) => ~FinishStepActions /\ ResolvesWithin(n)'
  <2>1. \A n \in Nat : ResolvesWithin(n) => pending # NoPolicy
    BY DEF ResolvesWithin
  <2> QED
    BY <1>1, <1>s, <2>1 DEF PrimeIsTimed
<1>2. ASSUME pending' = NoPolicy PROVE PrimeIsTimed'
  BY <1>2 DEF PrimeIsTimed
<1>3. ASSUME NEW cs \in CommandLists, BeginStep(cs)
      PROVE  \/ pending' = NoPolicy
             \/ UNCHANGED <<current, timer, pending, hold>> /\ pc' = "start" /\ ~FinishStepActions
  BY <1>3, <1>f DEF BeginStep, ReadControls, SimReborn, managerVars, primeVars
<1>4. CASE StartPostStep
  <2>1. \/ pending' = NoPolicy
        \/ /\ UNCHANGED <<current, timer, pending, hold>> /\ ~FinishStepActions
           /\ ~(current \in Mimic /\ pending # NoPolicy)
    BY <1>4, <1>f DEF StartPostStep, primeVars
  <2> QED
    BY <1>1, <1>2, <2>1
<1>5. CASE Arbitrate
  <2>1. UNCHANGED <<current, timer, pending, hold>> /\ pc = "arbitrate" /\ pc' = "dispatch"
    BY <1>5 DEF Arbitrate, ArbitrateMotionDone, ArbitrateNothing, ArbitrateMusicSwitch,
                ArbitrateMusicLoop, StartDispatch, primeVars
  <2>2. \A n \in Nat : ResolvesWithin(n) => ~FinishStepActions /\ ResolvesWithin(n)'
    BY <1>f, <2>1 DEF ResolvesWithin, UsedUpTo
  <2> QED
    BY <2>1, <2>2 DEF PrimeIsTimed
<1>6. CASE Dispatch
  <2>1. ~FinishStepActions
    BY <1>6, <1>f, DispatchForms
  <2> QED
    BY <1>6, <2>1, RequestTimed
<1>7. CASE FinishStepActions
  <2>1. \A n \in Nat : ResolvesWithin(n) => pending' = NoPolicy \/ ResolvesWithin(n - 1)'
    BY <1>7, FinishTimed
  <2>2. ASSUME ResolvesWithin(MaxPrime - 1)' PROVE ResolvesWithin(MaxPrime)'
    <3>1. hold' \in Nat
      BY NextTypeOK, PipelineAssumption DEF TypeOK, PipelineAssumption
    <3> QED
      BY <2>2, <3>1 DEF ResolvesWithin, Slot
  <2>3. PrimeIsTimed'
    <3>1. CASE pending = NoPolicy
      BY <3>1, <1>7, <1>2 DEF FinishStepActions, FinishStep, FinishStepHolding, Holding,
         FinishStepLaunching, primeVars
    <3> QED
      BY <2>1, <2>2, <3>1 DEF PrimeIsTimed
  <2> QED
    BY <1>7, <2>1, <2>3
<1>8. CASE SelfChecked \/ PrepareReset
  BY <1>2, <1>8 DEF SelfChecked, PrepareReset, Reset, ClearPrime
<1>9. CASE DeadlinePasses \/ UNCHANGED vars
  <2>1. UNCHANGED <<current, timer, pending, hold, pc>>
    BY <1>9 DEF DeadlinePasses, vars, managerVars, stepVars, primeVars
  <2> QED
    BY <1>1, <1>f, <2>1
<1>10. CASE \E cs \in CommandLists : BeginStep(cs)
  BY <1>1, <1>2, <1>3, <1>10
<1> QED
  BY <1>4, <1>5, <1>6, <1>7, <1>8, <1>9, <1>10 DEF Next, RestOfStep

\* In every reachable state an armed prime is over within the hold and the longest
\* delay (rl_multi_policy_pipeline.py:1033-1045): no order of dances, gestures, songs and finished motions leaves one armed.
THEOREM PrimeHasItsEnd ==
  ASSUME OnlyStandWaits
  PROVE  Spec => []PrimeIsTimed
<1>1. PrimingConfig
  BY DEF OnlyStandWaits
<1>2. Init => PrimeIsTimed
  BY DEF Init, PrimeIsTimed
<1>3. TypeOK /\ PrimingInv /\ PrimeIsTimed /\ [Next]_vars => PrimeIsTimed'
  BY PrimeGoes
<1>4. Spec => []PrimingInv
  BY <1>1, PrimingCorrect
<1> QED
  BY <1>2, <1>3, <1>4, TypeCorrect, PTL DEF Spec

\* And every step counts: what is left of a prime's time grows only when another
\* dance is asked for.  With PrimeHasItsEnd: when MaxPrime steps have finished after
\* the last request for a dance, the next to begin finds or makes the prime over,
\* and so serves the Shazam queue and the time-box.
THEOREM PrimeRunsDown ==
  ASSUME OnlyStandWaits
  PROVE  Spec => PrimeCountsDown
<1>1. PrimingConfig
  BY DEF OnlyStandWaits
<1>2. TypeOK /\ PrimingInv /\ PrimeIsTimed /\ [Next]_vars =>
        [\A n \in Nat : ResolvesWithin(n) =>
           \/ pending' = NoPolicy \/ DanceAsked
           \/ FinishStepActions /\ ResolvesWithin(n - 1)'
           \/ ~FinishStepActions /\ ResolvesWithin(n)']_vars
  BY PrimeGoes
<1>3. Spec => []PrimingInv
  BY <1>1, PrimingCorrect
<1> QED
  BY <1>2, <1>3, PrimeHasItsEnd, TypeCorrect, PTL DEF Spec, PrimeCountsDown

-----------------------------------------------------------------------------
(***************************************************************************)
(* A set MOTION_DONE latch has its switch                                  *)
(***************************************************************************)

\* The pipelines in which nothing can land behind the fallback: every switch is
\* direct, or the only short cut through the timer, the Stand prime, leads to
\* the fallback itself.
LatchConfig ==
  /\ FallbackCfg \in Policy
  /\ \/ SkipPrime
     \/ /\ StandId \in {Fallback, NoPolicy}
        /\ \A c \in Commands : c.kind \notin {"direct", "safe"}

EndsIn(tasks, pid) == tasks # <<>> /\ tasks[Len(tasks)] = pid

\* The latch's switch is still the last command of the step...
FallbackToDispatch ==
  /\ pc = "dispatch"
  /\ at <= Len(commands)
  /\ commands[Len(commands)] = Switch(Fallback)
  /\ current # Fallback

\* ... or the last task of a slot the rest of the step adds nothing else to.
FallbackLastIn(d) ==
  /\ EndsIn(timer[d], Fallback)
  /\ SkipPrime => d = 1
  /\ (SkipPrime \/ d = DELAY_STEPS_SWITCH) => (pc = "dispatch" /\ at > Len(commands))

LatchInv ==
  /\ autoQueued => FallbackToDispatch \/ \E d \in Slot : FallbackLastIn(d)
  /\ ~SkipPrime => NoDirect(commands)

\* Where a slot ends after a task is added, and after a tick.
LEMMA AddTaskEnds ==
  ASSUME NEW t \in [Slot -> Seq(Policy)], NEW pid \in Policy, NEW d \in Slot
  PROVE  /\ EndsIn(AddTask(t, pid, d)[d], pid)
         /\ \A p : \A e \in Slot : e # d /\ EndsIn(t[e], p) => EndsIn(AddTask(t, pid, d)[e], p)
BY AddTaskSlots DEF EndsIn

LEMMA TickedEnds ==
  ASSUME NEW t \in [Slot -> Seq(Policy)], NEW d \in Slot, NEW pid \in Policy,
         NEW cur, EndsIn(t[d], pid)
  PROVE  \/ d = 1 /\ Landed(t, cur) = pid
         \/ /\ d - 1 \in Slot /\ d - 1 # DELAY_STEPS_SWITCH
            /\ EndsIn(Ticked(t)[d - 1], pid)
            /\ HasPending(Ticked(t))
<1>1. CASE d = 1
  BY <1>1 DEF EndsIn, Landed
<1>2. CASE d # 1
  <2>1. d - 1 \in Slot /\ d - 1 # DELAY_STEPS_SWITCH /\ Ticked(t)[d - 1] = t[d]
    BY <1>2, ConstantFacts DEF Ticked, Slot
  <2> QED
    BY <2>1 DEF EndsIn, HasPending
<1> QED
  BY <1>1, <1>2

\* A request adds nothing behind a fallback that waits in an earlier slot ...
LEMMA RequestKeepsLast ==
  ASSUME LatchConfig, TypeOK, ~SkipPrime, NEW pid \in Int, RequestPolicySwitch(pid, FALSE),
         NEW d \in Slot, d # DELAY_STEPS_SWITCH, EndsIn(timer[d], Fallback)
  PROVE  EndsIn(timer'[d], Fallback)
<1>0. timer \in [Slot -> Seq(Policy)] /\ Fallback \in Policy
  BY NormalisedType DEF TypeOK, ManagerTypeOK
<1>1. CASE timer' = timer
  BY <1>1
<1>2. CASE pid \in Policy /\ NeedsPrime(pid) /\ RequestPrime(pid) /\ timer' # timer
  <2>1. StandId = Fallback
    BY <1>2 DEF LatchConfig, NeedsPrime
  <2>2. timer' = AddTask(timer, Fallback, DELAY_STEPS_SWITCH_FAST)
    BY <1>2, <2>1 DEF RequestPrime, SwitchPolicy
  <2> QED
    BY <1>0, <2>2, AddTaskEnds, ConstantFacts
<1>3. CASE pid \in Policy /\ RequestOrdinary(pid)
  <2>1. timer' = AddTask(timer, pid, DELAY_STEPS_SWITCH)
    BY <1>3 DEF RequestOrdinary, SwitchPolicy
  <2> QED
    BY <1>0, <1>3, <2>1, AddTaskEnds, ConstantFacts
<1> QED
  BY <1>1, <1>2, <1>3 DEF RequestPolicySwitch

\* ... and a request for the fallback puts it last in its slot.
LEMMA RequestPlacesFallback ==
  ASSUME LatchConfig, TypeOK, current # Fallback, RequestPolicySwitch(Fallback, FALSE)
  PROVE  \E d \in Slot : EndsIn(timer'[d], Fallback) /\ (SkipPrime => d = 1)
<1>0. timer \in [Slot -> Seq(Policy)] /\ Fallback \in Policy
  BY NormalisedType DEF TypeOK, ManagerTypeOK
<1>1. CASE SkipPrime
  <2>1. timer' = AddTask(timer, Fallback, DELAY_STEPS_SWITCH_FAST)
    BY <1>0, <1>1 DEF RequestPolicySwitch, RequestDirect, SwitchPolicy
  <2> QED
    BY <1>0, <2>1, AddTaskEnds, ConstantFacts
<1>2. CASE ~SkipPrime /\ NeedsPrime(Fallback)
  <2>1. StandId = Fallback /\ RequestPrime(Fallback)
    BY <1>0, <1>2 DEF LatchConfig, NeedsPrime, RequestPolicySwitch
  <2>2. timer' = AddTask(timer, Fallback, DELAY_STEPS_SWITCH_FAST)
    BY <2>1 DEF RequestPrime, SwitchPolicy
  <2> QED
    BY <1>0, <1>2, <2>2, AddTaskEnds, ConstantFacts
<1>3. CASE ~SkipPrime /\ ~NeedsPrime(Fallback)
  <2>1. timer' = AddTask(timer, Fallback, DELAY_STEPS_SWITCH)
    BY <1>0, <1>3 DEF RequestPolicySwitch, RequestOrdinary, SwitchPolicy
  <2> QED
    BY <1>0, <1>3, <2>1, AddTaskEnds, ConstantFacts
<1> QED
  BY <1>1, <1>2, <1>3

\* The tick lands the fallback, which releases the latch, or moves it down with
\* nothing launched behind it.
LEMMA EndStepLatch ==
  ASSUME LatchConfig, TypeOK, LatchInv, FinishStepActions, autoQueued'
  PROVE  \E d \in Slot : FallbackLastIn(d)'
<1>0. timer \in [Slot -> Seq(Policy)] /\ Fallback \in Policy
  BY NormalisedType DEF TypeOK, ManagerTypeOK
<1>1. EndStep
  BY DEF FinishStepActions, FinishStep, FinishStepHolding, FinishStepLaunching
<1>2. /\ autoQueued /\ Landed(timer, current) # FallbackCfg
      /\ pc = "dispatch" /\ at > Len(commands)
  BY <1>1 DEF EndStep, Latched
<1>3. ~FallbackToDispatch
  BY <1>2 DEF FallbackToDispatch, TypeOK
<1>4. PICK d \in Slot : FallbackLastIn(d)
  BY <1>2, <1>3 DEF LatchInv
<1>5. Fallback = FallbackCfg
  BY DEF LatchConfig, Fallback, Normalised
<1>6. d # 1
  BY <1>0, <1>2, <1>4, <1>5, TickedEnds DEF FallbackLastIn, EndsIn, Landed
<1>7. /\ d - 1 \in Slot /\ d - 1 # DELAY_STEPS_SWITCH
      /\ EndsIn(Ticked(timer)[d - 1], Fallback) /\ HasPending(Ticked(timer))
  BY <1>0, <1>4, <1>6, TickedEnds DEF FallbackLastIn
<1>8. ~SkipPrime
  BY <1>4, <1>6 DEF FallbackLastIn
<1>9. ~Holding
  BY <1>7 DEF Holding
<1>10. timer' = Ticked(timer)
  BY <1>9 DEF FinishStepActions, FinishStep, FinishStepHolding, FinishStepLaunching
<1> QED
  BY <1>7, <1>8, <1>10 DEF FallbackLastIn

LEMMA NextLatch ==
  ASSUME LatchConfig
  PROVE  TypeOK /\ LatchInv /\ [Next]_vars => LatchInv'
<1> SUFFICES ASSUME TypeOK, LatchInv, [Next]_vars PROVE LatchInv'
  OBVIOUS
<1>0. /\ timer \in [Slot -> Seq(Policy)] /\ Fallback \in Policy
      /\ commands \in Seq(CommandSet) /\ at \in Nat
      /\ ~SkipPrime => NoDirect(commands)
  BY NormalisedType DEF TypeOK, ManagerTypeOK, LatchInv
<1>c. ~SkipPrime => \A cs \in CommandLists : NoDirect(cs)
  BY CommandListType DEF LatchConfig, NoDirect
\* Outside the dispatch the fallback waits in an earlier slot.
<1>w. ASSUME pc # "dispatch", autoQueued
      PROVE  \E d \in Slot : EndsIn(timer[d], Fallback) /\ ~SkipPrime /\ d # DELAY_STEPS_SWITCH
  BY <1>w DEF LatchInv, FallbackToDispatch, FallbackLastIn
<1>k. ASSUME pc # "dispatch", timer' = timer, autoQueued' = autoQueued,
             ~SkipPrime => NoDirect(commands')
      PROVE  LatchInv'
  BY <1>w, <1>k DEF LatchInv, FallbackLastIn, NoDirect, EndsIn
<1>r. ASSUME autoQueued' = FALSE, ~SkipPrime => NoDirect(commands') PROVE LatchInv'
  BY <1>r DEF LatchInv, NoDirect
<1>1. ASSUME NEW cs \in CommandLists, BeginStep(cs) PROVE LatchInv'
  <2>1. CASE ReadControls(cs)
    <3>1. pc # "dispatch" /\ timer' = timer /\ autoQueued' = autoQueued /\ commands' = cs
      BY <2>1 DEF ReadControls, managerVars
    <3> QED
      BY <1>c, <1>k, <3>1
  <2>2. CASE SimReborn(cs)
    BY <1>c, <1>r, <2>2 DEF SimReborn
  <2> QED
    BY <1>1, <2>1, <2>2 DEF BeginStep
<1>2. CASE StartPostStep
  <2>1. pc # "dispatch" /\ timer' = timer /\ autoQueued' = autoQueued
    BY <1>2 DEF StartPostStep
  <2>2. NoDirect(commands) => NoDirect(commands')
    BY <1>0, <1>2, ExpandedNoDirect DEF StartPostStep
  <2> QED
    BY <1>0, <1>k, <2>1, <2>2
<1>3. CASE Arbitrate
  <2>1. pc = "arbitrate" /\ pc' = "dispatch" /\ at' = 1 /\ timer' = timer /\ current' = current
    BY <1>3 DEF Arbitrate, ArbitrateMotionDone, ArbitrateNothing, ArbitrateMusicSwitch,
                ArbitrateMusicLoop, StartDispatch
  <2>2. \/ commands' = commands
        \/ \E pid : commands' = Append(commands, Switch(pid))
    BY <1>3 DEF Arbitrate, ArbitrateMotionDone, ArbitrateNothing, ArbitrateMusicSwitch,
                ArbitrateMusicLoop
  <2>3. NoDirect(commands) => NoDirect(commands')
    BY <1>0, <2>2, AppendNoDirect
  <2>4. CASE autoQueued' = autoQueued
    BY <1>0, <1>k, <2>1, <2>3, <2>4
  <2>5. CASE ArbitrateMotionDone
    <3>1. current # Fallback /\ commands' = Append(commands, Switch(Fallback))
      BY <2>5 DEF ArbitrateMotionDone, MotionDoneAsks
    <3>2. Len(commands') = Len(commands) + 1 /\ commands'[Len(commands')] = Switch(Fallback)
      BY <1>0, <3>1
    <3>3. FallbackToDispatch'
      <4>1. (Switch(Fallback))' = Switch(Fallback) /\ Fallback' = Fallback
        BY DEF Switch, Fallback, Normalised, Policy
      <4> QED
        BY <1>0, <2>1, <3>1, <3>2, <4>1 DEF FallbackToDispatch
    <3> QED
      BY <1>0, <2>3, <3>3 DEF LatchInv, NoDirect
  <2> QED
    BY <1>3, <2>4, <2>5 DEF Arbitrate, ArbitrateNothing, ArbitrateMusicSwitch, ArbitrateMusicLoop
<1>4. CASE Dispatch
  <2>1. /\ pc = "dispatch" /\ at \in 1 .. Len(commands) /\ at' = at + 1
        /\ UNCHANGED <<current, pc, commands, autoQueued>>
        /\ commands[at] \in CommandSet
    BY <1>4, DispatchForms
  <2>2. NoDirect(commands) => NoDirect(commands')
    BY <2>1
  <2>3. ~SkipPrime => commands[at].kind \notin {"direct", "safe"}
    BY <1>0, <2>1 DEF NoDirect
  <2>4. \/ commands[at].kind # "switch" /\ timer' = timer
        \/ \E pid \in Int, direct \in BOOLEAN :
             /\ RequestPolicySwitch(pid, direct)
             /\ direct => SkipPrime
             /\ commands[at].kind = "switch" => pid = commands[at].pid
    BY <1>4, <2>3, DispatchForms
  <2>5. ASSUME NEW d \in Slot, FallbackLastIn(d) PROVE FallbackLastIn(d)'
    <3>1. EndsIn(timer[d], Fallback) /\ ~SkipPrime /\ d # DELAY_STEPS_SWITCH
      BY <1>0, <2>1, <2>5 DEF FallbackLastIn
    <3>2. EndsIn(timer'[d], Fallback)
      BY <2>4, <3>1, RequestKeepsLast
    <3> QED
      BY <3>1, <3>2 DEF FallbackLastIn
  <2>6. ASSUME FallbackToDispatch PROVE FallbackToDispatch' \/ \E d \in Slot : FallbackLastIn(d)'
    <3>1. CASE at < Len(commands)
      BY <1>0, <2>1, <2>6, <3>1 DEF FallbackToDispatch
    <3>2. CASE at = Len(commands)
      <4>1. commands[at].kind = "switch" /\ commands[at].pid = Fallback /\ current # Fallback
        BY <2>6, <3>2 DEF FallbackToDispatch, Switch
      <4>2. RequestPolicySwitch(Fallback, FALSE)
        BY <2>4, <4>1 DEF RequestPolicySwitch
      <4>3. PICK d \in Slot : EndsIn(timer'[d], Fallback) /\ (SkipPrime => d = 1)
        BY <4>1, <4>2, RequestPlacesFallback
      <4>4. at' > Len(commands')
        BY <1>0, <2>1, <3>2
      <4> QED
        BY <2>1, <4>3, <4>4 DEF FallbackLastIn
    <3> QED
      BY <2>1, <3>1, <3>2
  <2>7. autoQueued' => FallbackToDispatch' \/ \E d \in Slot : FallbackLastIn(d)'
    BY <2>1, <2>5, <2>6 DEF LatchInv
  <2> QED
    BY <1>0, <2>2, <2>7 DEF LatchInv, NoDirect
<1>5. CASE FinishStepActions
  <2>1. NoDirect(commands')
    BY <1>5 DEF FinishStepActions, FinishStep, FinishStepHolding, FinishStepLaunching, EndStep, NoDirect
  <2>2. autoQueued' => \E d \in Slot : FallbackLastIn(d)'
    BY <1>5, EndStepLatch
  <2> QED
    BY <2>1, <2>2 DEF LatchInv, NoDirect
<1>6. CASE SelfChecked \/ PrepareReset
  <2>1. autoQueued' = FALSE /\ commands' = commands
    BY <1>6 DEF SelfChecked, PrepareReset, Reset, stepVars
  <2> QED
    BY <1>0, <1>r, <2>1
<1>7. CASE DeadlinePasses \/ UNCHANGED vars
  <2>1. UNCHANGED <<timer, current, autoQueued, pc, at, commands>>
    BY <1>7 DEF DeadlinePasses, vars, managerVars, stepVars
  <2> QED
    BY <2>1 DEF LatchInv, FallbackToDispatch, FallbackLastIn, NoDirect, EndsIn
<1> QED
  BY <1>1, <1>2, <1>3, <1>4, <1>5, <1>6, <1>7 DEF Next, RestOfStep

\* Between steps a set latch has its switch on the way: in the pipelines of
\* LatchConfig no motion's end is lost, for every delay and command set.
THEOREM LatchAlwaysHasSwitch ==
  ASSUME LatchConfig
  PROVE  Spec => []LatchHasSwitch
<1>1. Init => LatchInv
  BY DEF Init, LatchInv, NoDirect
<1>2. TypeOK /\ LatchInv => LatchHasSwitch
  <2> SUFFICES ASSUME TypeOK, LatchInv, autoQueued, pc = "begin"
               PROVE  Fallback \in Scheduled(timer)
    BY DEF LatchHasSwitch
  <2>1. PICK d \in Slot : EndsIn(timer[d], Fallback)
    BY DEF LatchInv, FallbackToDispatch, FallbackLastIn
  <2>2. timer[d] \in Seq(Policy)
    BY DEF TypeOK, ManagerTypeOK
  <2> QED
    BY <2>1, <2>2, NormalisedType DEF EndsIn, Scheduled
<1>3. TypeOK /\ LatchInv /\ [Next]_vars => LatchInv'
  BY NextLatch
<1> QED
  BY <1>1, <1>2, <1>3, TypeCorrect, PTL DEF Spec

-----------------------------------------------------------------------------
(***************************************************************************)
(* The newest request wins                                                 *)
(***************************************************************************)

\* A policy scheduled behind all others is the one to end on.
LEMMA AddEndsOn ==
  ASSUME NEW t \in [Slot -> Seq(Policy)], NEW cur, NEW pid \in Policy, NEW d \in Slot,
         \A e \in Slot : e > d => t[e] = <<>>
  PROVE  EndsOn(AddTask(t, pid, d), cur, pid)
<1> DEFINE u == AddTask(t, pid, d)
<1>1. u[d] = Append(t[d], pid) /\ \A e \in Slot \ {d} : u[e] = t[e]
  BY AddTaskSlots
<1> HIDE DEF u
<1>2. u[d] # <<>> /\ u[d][Len(u[d])] = pid
  <2>1. t[d] \in Seq(Policy) /\ Len(t[d]) \in Nat
    OBVIOUS
  <2>2. Len(u[d]) = Len(t[d]) + 1 /\ u[d][Len(t[d]) + 1] = pid
    BY <1>1, <2>1
  <2> QED
    BY <2>1, <2>2
<1>3. ASSUME NEW e \in Slot, u[e] # <<>>, \A f \in Slot : f > e => u[f] = <<>>
      PROVE  u[e][Len(u[e])] = pid
  <2>1. ~(e > d)
    BY <1>1, <1>3
  <2>2. ~(d > e)
    BY <1>2, <1>3
  <2>3. e = d
    BY <2>1, <2>2 DEF Slot
  <2> QED
    BY <1>2, <2>3
<1> QED
  BY <1>2, <1>3 DEF EndsOn, u

\* A tick does not change what the timer ends on.
LEMMA TickEndsOn ==
  ASSUME NEW t \in [Slot -> Seq(Policy)], NEW cur, NEW pid, EndsOn(t, cur, pid)
  PROVE  EndsOn(Ticked(t), Landed(t, cur), pid)
<1> DEFINE u == Ticked(t)
<1>1. \A d \in Slot : u[d] = IF d < DELAY_STEPS_SWITCH THEN t[d + 1] ELSE <<>>
  BY DEF Ticked
<1> HIDE DEF u
<1>2. \A d \in Slot : d # 1 => d - 1 \in Slot /\ d - 1 < DELAY_STEPS_SWITCH /\ (d - 1) + 1 = d
  BY ConstantFacts DEF Slot
<1>3. ASSUME \A d \in Slot : u[d] = <<>> PROVE Landed(t, cur) = pid
  <2>1. ASSUME NEW d \in Slot, d # 1 PROVE t[d] = <<>>
    <3>1. d - 1 \in Slot /\ u[d - 1] = t[d]
      BY <1>1, <1>2, <2>1
    <3> QED
      BY <1>3, <3>1
  <2>2. CASE t[1] = <<>>
    BY <2>1, <2>2 DEF EndsOn, Landed
  <2>3. CASE t[1] # <<>>
    <3>1. 1 \in Slot /\ \A e \in Slot : e > 1 => t[e] = <<>>
      BY <2>1, ConstantFacts DEF Slot
    <3> QED
      BY <2>3, <3>1 DEF EndsOn, Landed
  <2> QED
    BY <2>2, <2>3
<1>4. ASSUME NEW d \in Slot, u[d] # <<>>, \A e \in Slot : e > d => u[e] = <<>>
      PROVE  u[d][Len(u[d])] = pid
  <2>1. d < DELAY_STEPS_SWITCH /\ u[d] = t[d + 1] /\ d + 1 \in Slot
    BY <1>1, <1>4, ConstantFacts DEF Slot
  <2>2. ASSUME NEW e \in Slot, e > d + 1 PROVE t[e] = <<>>
    <3>1. e # 1 /\ e - 1 > d
      BY <2>2 DEF Slot
    <3>2. e - 1 \in Slot /\ u[e - 1] = t[e]
      BY <1>1, <1>2, <3>1
    <3> QED
      BY <1>4, <3>1, <3>2
  <2> QED
    BY <1>4, <2>1, <2>2 DEF EndsOn
<1> QED
  BY <1>3, <1>4 DEF EndsOn, u

\* An empty timer ends on the current policy.
LEMMA EmptyEndsOn == \A pid : EndsOn(EmptyTimer, pid, pid)
BY DEF EndsOn, EmptyTimer

\* Where nothing is staged on Stand a request schedules its policy, behind all
\* others, or a direct request finds it running already.
LEMMA RequestNewest ==
  ASSUME NewestConfig, TypeOK, NewestInv, NEW pid \in Int, NEW direct \in BOOLEAN,
         ~SkipPrime => ~direct, RequestPolicySwitch(pid, direct)
  PROVE  /\ pending' = NoPolicy
         /\ pid \notin Policy => timer' = timer
         /\ pid \in Policy =>
              \/ SkipPrime /\ pid = current /\ timer' = timer
              \/ SkipPrime /\ timer' = AddTask(timer, pid, 1)
              \/ ~SkipPrime /\ timer' = AddTask(timer, pid, DELAY_STEPS_SWITCH)
<1>0. pending = NoPolicy
  BY DEF NewestInv
<1>1. CASE pid \notin Policy
  BY <1>0, <1>1 DEF RequestPolicySwitch, primeVars
<1>2. CASE pid \in Policy /\ SkipPrime
  BY <1>2, ConstantFacts DEF RequestPolicySwitch, RequestDirect, ClearPrime, SwitchPolicy
<1>3. CASE pid \in Policy /\ ~SkipPrime
  <2>1. ~NeedsPrime(pid)
    BY <1>3 DEF NewestConfig, NeedsPrime
  <2>2. RequestOrdinary(pid)
    BY <1>3, <2>1 DEF RequestPolicySwitch
  <2> QED
    BY <1>0, <1>3, <2>2 DEF RequestOrdinary, SwitchPolicy, primeVars
<1> QED
  BY <1>1, <1>2, <1>3

\* What a dispatched command does: it asks for its policy, or for nothing.
LEMMA DispatchNewest ==
  ASSUME NewestConfig, TypeOK, NewestInv, Dispatch
  PROVE  /\ pending' = NoPolicy
         /\ Requested(commands[at]) \notin Policy => timer' = timer
         /\ Requested(commands[at]) \in Policy =>
              \/ SkipPrime /\ Requested(commands[at]) = current /\ timer' = timer
              \/ SkipPrime /\ timer' = AddTask(timer, Requested(commands[at]), 1)
              \/ ~SkipPrime /\ timer' = AddTask(timer, Requested(commands[at]), DELAY_STEPS_SWITCH)
<1> DEFINE c == commands[at]
<1>1. /\ at \in 1 .. Len(commands) /\ c \in CommandSet /\ c.pid \in Int
      /\ ~SkipPrime => c.kind \notin {"direct", "safe"}
  BY DispatchForms DEF NewestInv, CommandSet
<1>2. pending = NoPolicy
  BY DEF NewestInv
<1>3. CASE DispatchSwitch
  <2>1. c.kind = "switch" /\ RequestPolicySwitch(c.pid, FALSE)
    BY <1>3 DEF DispatchSwitch, Dispatching
  <2>2. Requested(c) = c.pid
    BY <2>1 DEF Requested
  <2> HIDE DEF c
  <2> QED
    BY <1>1, <2>1, <2>2, RequestNewest DEF c
<1>4. CASE DispatchDirect
  <2>1. c.kind = "direct" /\ RequestPolicySwitch(c.pid, TRUE)
    BY <1>4 DEF DispatchDirect, Dispatching
  <2>2. Requested(c) = c.pid /\ SkipPrime
    BY <1>1, <2>1 DEF Requested
  <2> HIDE DEF c
  <2> QED
    BY <1>1, <2>1, <2>2, RequestNewest DEF c
<1>5. CASE DispatchToggle
  <2> DEFINE pid == (current + 1) % NumPolicies
  <2>1. c.kind = "toggle" /\ RequestPolicySwitch(pid, FALSE)
    BY <1>5 DEF DispatchToggle, Dispatching
  <2>2. pid \in Int
    BY ConstantFacts DEF TypeOK, ManagerTypeOK
  <2>3. Requested(c) = pid
    BY <2>1 DEF Requested
  <2> HIDE DEF c, pid
  <2> QED
    BY <2>1, <2>2, <2>3, RequestNewest DEF c
<1>6. CASE DispatchSafeHere
  <2>1. c.kind = "safe" /\ c.pid = current /\ timer' = timer /\ pending' = pending
    BY <1>6 DEF DispatchSafeHere, Dispatching, primeVars
  <2>2. Requested(c) = current /\ current \in Policy /\ SkipPrime
    BY <1>1, <2>1 DEF Requested, TypeOK, ManagerTypeOK
  <2> QED
    BY <1>2, <2>1, <2>2
<1>7. CASE DispatchSafeElsewhere
  <2>1. c.kind = "safe" /\ SkipPrime
    BY <1>1, <1>7 DEF DispatchSafeElsewhere, Dispatching
  <2>2. Requested(c) = c.pid
    BY <2>1 DEF Requested
  <2>3. CASE c.pid < NumPolicies
    <3>1. RequestPolicySwitch(c.pid, TRUE)
      BY <1>7, <2>3 DEF DispatchSafeElsewhere
    <3> HIDE DEF c
    <3> QED
      BY <1>1, <2>1, <2>2, <3>1, RequestNewest DEF c
  <2>4. CASE ~(c.pid < NumPolicies)
    <3>1. timer' = timer /\ pending' = pending
      BY <1>7, <2>4 DEF DispatchSafeElsewhere, primeVars
    <3>2. c.pid \notin Policy
      BY <1>1, <2>4, ConstantFacts DEF Policy
    <3> QED
      BY <1>2, <2>2, <3>1, <3>2
  <2> QED
    BY <2>3, <2>4
<1>8. CASE DispatchOther
  <2>1. c.kind \in {"gesti", "reborn", "motion_reset"} /\ timer' = timer /\ pending' = pending
    BY <1>8 DEF DispatchOther, Dispatching, primeVars
  <2>2. Requested(c) = NoPolicy
    BY <2>1 DEF Requested
  <2> QED
    BY <1>2, <2>1, <2>2, ConstantFacts
<1> QED
  BY <1>3, <1>4, <1>5, <1>6, <1>7, <1>8 DEF Dispatch

\* A dispatched command keeps the invariant.
LEMMA DispatchKeepsNewest ==
  ASSUME NewestConfig, TypeOK, NewestInv, NewestDispatch PROVE NewestInv'
<1> DEFINE pid == Requested(commands[at])
<1>0. timer \in [Slot -> Seq(Policy)] /\ Len(commands) \in Nat
  BY DEF TypeOK, ManagerTypeOK
<1>1. /\ pc = "dispatch" /\ at \in 1 .. Len(commands) /\ at' = at + 1
      /\ current' = current /\ pc' = pc /\ commands' = commands
  BY DispatchForms DEF NewestDispatch
<1>2. newest' = IF pid \in Policy THEN pid ELSE newest
  BY DEF NewestDispatch
<1>3. /\ pending' = NoPolicy
      /\ pid \notin Policy => timer' = timer
      /\ pid \in Policy =>
           \/ SkipPrime /\ pid = current /\ timer' = timer
           \/ SkipPrime /\ timer' = AddTask(timer, pid, 1)
           \/ ~SkipPrime /\ timer' = AddTask(timer, pid, DELAY_STEPS_SWITCH)
  BY DispatchNewest DEF NewestDispatch
\* Behind the step's first command nothing asks for the running policy.
<1>4. SkipPrime /\ at # 1 => pid \in Policy \ {current}
  <2> SUFFICES ASSUME SkipPrime, at # 1 PROVE pid \in Policy \ {current}
    OBVIOUS
  <2>1. at \in 2 .. Len(commands)
    BY <1>0, <1>1
  <2>2. PICK p \in Policy \ {current} : commands[at] = Switch(p)
    BY <1>1, <2>1 DEF NewestInv, DirectInv
  <2>3. pid = p
    BY <2>2 DEF Requested, Switch
  <2> QED
    BY <2>3
<1> HIDE DEF pid
<1>5. EndsOn(timer', current', newest')
  <2>1. CASE pid \notin Policy
    BY <1>1, <1>2, <1>3, <2>1 DEF NewestInv
  <2>2. CASE pid \in Policy /\ SkipPrime /\ pid = current /\ timer' = timer
    <3>1. at = 1
      BY <1>4, <2>2
    <3>2. \A d \in Slot : timer[d] = <<>>
      BY <2>2, <3>1 DEF NewestInv, DirectInv, Slot
    <3> QED
      BY <1>1, <1>2, <2>2, <3>2 DEF EndsOn
  <2>3. CASE pid \in Policy /\ SkipPrime /\ timer' = AddTask(timer, pid, 1)
    <3>1. 1 \in Slot /\ \A e \in Slot : e > 1 => timer[e] = <<>>
      BY <2>3, ConstantFacts DEF NewestInv, DirectInv
    <3> QED
      BY <1>0, <1>2, <2>3, <3>1, AddEndsOn
  <2>4. CASE pid \in Policy /\ ~SkipPrime /\ timer' = AddTask(timer, pid, DELAY_STEPS_SWITCH)
    <3>1. /\ DELAY_STEPS_SWITCH \in Slot
          /\ \A e \in Slot : e > DELAY_STEPS_SWITCH => timer[e] = <<>>
      BY ConstantFacts DEF Slot
    <3> QED
      BY <1>0, <1>2, <2>4, <3>1, AddEndsOn
  <2> QED
    BY <1>3, <2>1, <2>2, <2>3, <2>4
<1>6. SkipPrime => DirectInv'
  <2> SUFFICES ASSUME SkipPrime PROVE DirectInv'
    OBVIOUS
  <2>1. ASSUME NEW d \in Slot, d > 1 PROVE timer'[d] = <<>>
    <3>1. timer[d] = <<>>
      BY <2>1 DEF NewestInv, DirectInv
    <3>2. CASE timer' = timer
      BY <3>1, <3>2
    <3>3. CASE pid \in Policy /\ timer' = AddTask(timer, pid, 1)
      BY <1>0, <2>1, <3>1, <3>3, AddTaskSlots, ConstantFacts
    <3> QED
      BY <1>3, <3>2, <3>3
  <2>2. pc' = "dispatch" /\ at' # 1
    BY <1>1
  <2>3. \A i \in 2 .. Len(commands) : \E p \in Policy \ {current} : commands[i] = Switch(p)
    BY <1>1 DEF NewestInv, DirectInv
  <2> QED
    BY <1>1, <2>1, <2>2, <2>3 DEF DirectInv
<1> QED
  BY <1>1, <1>2, <1>3, <1>5, <1>6 DEF NewestInv

\* The invariant holds at the start, and every step preserves it.
LEMMA InitNewest == NewestInit => NewestInv
<1> SUFFICES ASSUME NewestInit PROVE NewestInv
  OBVIOUS
<1>1. /\ timer = EmptyTimer /\ newest = current /\ pending = NoPolicy /\ commands = <<>>
      /\ pc = "begin" /\ current \in Policy
  BY NormalisedType, ConstantFacts DEF NewestInit, Init, ManagerInit
<1>2. EndsOn(timer, current, newest)
  BY <1>1, EmptyEndsOn
<1>3. DirectInv
  BY <1>1, ConstantFacts DEF DirectInv, EmptyTimer
<1> QED
  BY <1>1, <1>2, <1>3 DEF NewestInv

LEMMA NextNewest ==
  ASSUME NewestConfig, TypeOK, NewestInv, [NewestNext]_<<vars, newest>> PROVE NewestInv'
<1>0. /\ timer \in [Slot -> Seq(Policy)] /\ commands \in Seq(CommandSet)
      /\ current \in Policy /\ EndsOn(timer, current, newest) /\ pending = NoPolicy
      /\ ~SkipPrime => NoDirect(commands)
  BY DEF TypeOK, ManagerTypeOK, NewestInv, NoDirect
<1>c. ~SkipPrime => \A cs \in CommandLists : NoDirect(cs)
  BY CommandListType DEF NewestConfig, NoDirect
<1>l. SkipPrime => \A cs \in CommandLists : Len(cs) <= 1
  <2> SUFFICES ASSUME SkipPrime, NEW cs \in CommandLists PROVE Len(cs) <= 1
    OBVIOUS
  <2>1. PICK n \in 0 .. MaxCommands : cs \in [1 .. n -> Commands]
    BY DEF CommandLists
  <2>2. MaxCommands \in Nat /\ MaxCommands <= 1
    BY PipelineAssumption DEF PipelineAssumption, NewestConfig
  <2> QED
    BY <2>1, <2>2
\* Outside the dispatch the timer of a direct pipeline is empty.
<1>e. ASSUME SkipPrime, pc # "dispatch" PROVE timer = EmptyTimer
  BY <1>0, <1>e DEF NewestInv, DirectInv, EmptyTimer, Slot
<1>1. ASSUME NEW cs \in CommandLists, NewestBegin(cs) PROVE NewestInv'
  <2>1. pc' = "start" /\ commands' = cs
    BY <1>1 DEF NewestBegin, ReadControls, SimReborn
  <2>2. ~SkipPrime => NoDirect(commands')
    BY <1>c, <2>1
  <2>3. CASE ReadControls(cs) /\ newest' = newest
    <3>1. pc = "begin" /\ timer' = timer /\ current' = current /\ pending' = pending
      BY <2>3 DEF ReadControls, managerVars, primeVars
    <3>2. SkipPrime => DirectInv'
      BY <1>e, <1>l, <2>1, <3>1, ConstantFacts DEF DirectInv, EmptyTimer
    <3> QED
      BY <1>0, <2>2, <2>3, <3>1, <3>2 DEF NewestInv, NoDirect
  <2>4. CASE SimReborn(cs) /\ newest' = Walk
    <3>1. timer' = EmptyTimer /\ current' = Walk /\ pending' = NoPolicy /\ Walk \in Policy
      BY <2>4, NormalisedType DEF SimReborn
    <3>2. SkipPrime => DirectInv'
      BY <1>l, <2>1, <3>1, ConstantFacts DEF DirectInv, EmptyTimer
    <3>3. EndsOn(timer', current', newest')
      BY <2>4, <3>1, EmptyEndsOn
    <3> QED
      BY <2>2, <2>4, <3>1, <3>2, <3>3 DEF NewestInv, NoDirect
  <2> QED
    BY <1>1, <2>3, <2>4 DEF NewestBegin
<1>2. CASE StartPostStep /\ newest' = newest
  <2> DEFINE expanded == [i \in 1 .. Len(commands) |-> Expanded(commands[i])]
             added == TimerCommands(commands)
  <2>1. /\ pc = "start" /\ pc' = "arbitrate" /\ timer' = timer /\ current' = current
        /\ pending' = NoPolicy /\ commands' = expanded \o added
    BY <1>0, <1>2 DEF StartPostStep, primeVars
  <2>2. ~SkipPrime => NoDirect(commands')
    BY <1>0, <2>1, ExpandedNoDirect
  <2>3. SkipPrime => DirectInv'
    <3> SUFFICES ASSUME SkipPrime PROVE DirectInv'
      OBVIOUS
    <3>1. Len(expanded) = Len(commands) /\ Len(commands) \in 0 .. 1
      <4>1. Len(commands) \in Nat /\ Len(commands) <= 1
        BY <1>0, <2>1 DEF NewestInv, DirectInv
      <4>2. Len(expanded) = Len(commands)
        BY <4>1
      <4> HIDE DEF expanded
      <4> QED
        BY <4>1, <4>2
    <3>2. added = <<>> \/ (added = <<Switch(Fallback)>> /\ Fallback \in Policy \ {current})
      BY NormalisedType DEF TimerCommands
    <3>3. ASSUME NEW i \in 2 .. Len(commands')
          PROVE  \E p \in Policy \ {current} : commands'[i] = Switch(p)
      <4>1. expanded \in Seq({Expanded(commands[j]) : j \in 1 .. Len(commands)})
        OBVIOUS
      <4> HIDE DEF expanded, added
      <4>2. added = <<Switch(Fallback)>> /\ Fallback \in Policy \ {current}
        BY <2>1, <3>1, <3>2, <3>3, <4>1
      <4>3. i = Len(expanded) + 1
        BY <2>1, <3>1, <3>3, <4>1, <4>2
      <4>4. commands'[i] = Switch(Fallback)
        BY <2>1, <3>1, <4>1, <4>2, <4>3
      <4> QED
        BY <4>2, <4>4
    <3> HIDE DEF expanded, added
    <3> QED
      BY <1>e, <2>1, <3>3, ConstantFacts DEF DirectInv, EmptyTimer
  <2> QED
    BY <1>0, <1>2, <2>1, <2>2, <2>3 DEF NewestInv, NoDirect
<1>3. CASE Arbitrate /\ newest' = newest
  <2>1. /\ pc = "arbitrate" /\ pc' = "dispatch" /\ at' = 1 /\ timer' = timer
        /\ current' = current /\ pending' = pending
    BY <1>3 DEF Arbitrate, ArbitrateMotionDone, ArbitrateNothing, ArbitrateMusicSwitch,
       ArbitrateMusicLoop, StartDispatch, primeVars
  <2>2. commands' = commands \/ \E p \in Policy \ {current} : commands' = Append(commands, Switch(p))
    <3>1. Fallback \in Policy /\ SongPolicies \subseteq Policy
      BY NormalisedType, PipelineAssumption DEF PipelineAssumption
    <3> QED
      BY <1>3, <3>1 DEF Arbitrate, ArbitrateMotionDone, ArbitrateNothing, ArbitrateMusicSwitch,
         ArbitrateMusicLoop, MotionDoneAsks
  <2>3. ~SkipPrime => NoDirect(commands')
    BY <1>0, <2>2, AppendNoDirect
  <2>4. SkipPrime => DirectInv'
    <3> SUFFICES ASSUME SkipPrime PROVE DirectInv'
      OBVIOUS
    <3>1. \A i \in 2 .. Len(commands) : \E p \in Policy \ {current} : commands[i] = Switch(p)
      BY <2>1 DEF NewestInv, DirectInv
    <3>2. \A i \in 2 .. Len(commands') : \E p \in Policy \ {current} : commands'[i] = Switch(p)
      BY <1>0, <2>2, <3>1
    <3> QED
      BY <1>e, <2>1, <3>2, ConstantFacts DEF DirectInv, EmptyTimer
  <2> QED
    BY <1>0, <1>3, <2>1, <2>3, <2>4 DEF NewestInv, NoDirect
<1>4. CASE NewestDispatch
  BY <1>4, DispatchKeepsNewest
<1>5. CASE FinishStepActions /\ newest' = newest
  <2>1. ~Holding
    BY <1>0 DEF Holding
  <2>2. FinishStep
    BY <1>5, <2>1 DEF FinishStepActions, FinishStepHolding, FinishStepLaunching
  <2>3. /\ pc' = "begin" /\ timer' = Ticked(timer) /\ current' = Landed(timer, current)
        /\ pending' = NoPolicy /\ commands' = <<>>
    BY <1>0, <2>2 DEF FinishStep, EndStep, primeVars
  <2>4. EndsOn(timer', current', newest')
    BY <1>0, <1>5, <2>3, TickEndsOn
  <2>5. SkipPrime => DirectInv'
    <3> SUFFICES ASSUME SkipPrime PROVE DirectInv'
      OBVIOUS
    <3>1. \A d \in Slot : timer'[d] = <<>>
      BY <2>3, ConstantFacts DEF NewestInv, DirectInv, Ticked, Slot
    <3> QED
      BY <2>3, <3>1, ConstantFacts DEF DirectInv
  <2> QED
    BY <1>5, <2>3, <2>4, <2>5 DEF NewestInv
<1>6. CASE NewestReset
  <2>1. /\ pc' = pc /\ pc = "begin" /\ timer' = EmptyTimer /\ newest' = current'
        /\ current' \in Policy /\ pending' = NoPolicy /\ commands' = commands
    BY <1>0, <1>6 DEF NewestReset, SelfChecked, PrepareReset, Reset, ClearPrime, stepVars
  <2>2. EndsOn(timer', current', newest')
    BY <2>1, EmptyEndsOn
  <2>3. DirectInv'
    BY <2>1, ConstantFacts DEF DirectInv, EmptyTimer
  <2> QED
    BY <1>0, <2>1, <2>2, <2>3 DEF NewestInv, NoDirect
<1>7. CASE NewestClock \/ UNCHANGED <<vars, newest>>
  <2>1. UNCHANGED <<timer, current, pending, commands, pc, at, newest>>
    BY <1>7 DEF NewestClock, DeadlinePasses, vars, managerVars, stepVars, primeVars
  <2> QED
    BY <1>0, <2>1 DEF NewestInv, DirectInv, EndsOn, NoDirect
<1> QED
  BY <1>1, <1>2, <1>3, <1>4, <1>5, <1>6, <1>7 DEF NewestNext, NewestRest

\* The history takes part in no step: the pipeline behaves as without it.
LEMMA NewestIsHistory ==
  /\ NewestInit => Init
  /\ [NewestNext]_<<vars, newest>> => [Next]_vars
BY DEF NewestInit, NewestNext, NewestBegin, NewestDispatch, NewestRest, NewestReset, NewestClock,
   Next, BeginStep, RestOfStep

\* Once everything has landed the running policy is the one the newest request
\* asked for, a command's or an automatic source's, in every pipeline whose
\* requests all take the same time, however many are on their way at once and
\* whatever order one tick lands them in.
THEOREM NewestRequestIsHonoured ==
  ASSUME NewestConfig PROVE NewestSpec => []NewestRequestWins
<1>1. NewestInit => TypeOK /\ NewestInv
  BY InitTypeOK, InitNewest, NewestIsHistory
<1>2. TypeOK /\ NewestInv /\ [NewestNext]_<<vars, newest>> => (TypeOK /\ NewestInv)'
  BY NextTypeOK, NextNewest, NewestIsHistory
<1>3. NewestInv => NewestRequestWins
  BY DEF NewestInv, NewestRequestWins, Settled, HasPending, EndsOn
<1> QED
  BY <1>1, <1>2, <1>3, PTL DEF NewestSpec
=============================================================================
