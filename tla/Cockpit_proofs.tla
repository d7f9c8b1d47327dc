----------------------------- MODULE Cockpit_proofs -----------------------------
(***************************************************************************)
(* Proofs about the pipeline from its configuration to the motors, about   *)
(* the controllers, and about what the one makes of the other's triggers.  *)
(* For every set of valid configurations the environment holds the gains   *)
(* of the policy that runs, and every motor gets what was written for the  *)
(* joint it drives; the loop over the button events loses an event only    *)
(* right behind one that gave a command; and every run of the two together *)
(* is a run of each, so that what holds of one alone holds of both.        *)
(***************************************************************************)
EXTENDS Cockpit, TLAPS

-----------------------------------------------------------------------------
(***************************************************************************)
(* The pipeline: fitting, merging and sending, then its invariant.         *)
(***************************************************************************)

\* Of a joint that occurs once, Index is its place.
LEMMA IndexIsThePlace ==
  ASSUME NEW names, Distinct(names), NEW n \in DOMAIN names
  PROVE  Index(names[n], names) = n
BY DEF Index, Distinct

\* Index is a place of a name that occurs.
LEMMA IndexIsAPlace ==
  ASSUME NEW names, NEW name \in Names(names)
  PROVE  /\ Index(name, names) \in DOMAIN names
         /\ names[Index(name, names)] = name
BY DEF Index, Names

\* Whatever the two orders, a value fitted onto a joint was written for it.
LEMMA FitKeepsJoints ==
  ASSUME NEW src, NEW tar, NEW data, NEW template,
         OfJoints(src, data), OfJoints(tar, template)
  PROVE  OfJoints(tar, Fit(src, tar, data, template))
<1>1. SUFFICES ASSUME NEW p \in DOMAIN tar
               PROVE  Fit(src, tar, data, template)[p][2] = tar[p]
      BY DEF OfJoints
<1>2. CASE tar[p] \in Names(src)
      BY <1>2, IndexIsAPlace DEF Fit, OfJoints
<1>3. CASE tar[p] \notin Names(src)
      BY <1>3 DEF Fit, OfJoints
<1>4. QED BY <1>2, <1>3

\* What merge_dof_cfgs leaves at a joint.
LEMMA MergedValues ==
  ASSUME NEW base, NEW override, Distinct(override.joint_names),
         NEW k \in DOMAIN base.prop, NEW p \in DOMAIN base.joint_names
  PROVE  LET merged == MergeDof(base, override).prop[k][p]
         IN  /\ \A n \in DOMAIN override.joint_names :
                  k \in DOMAIN override.prop
                    /\ override.joint_names[n] = base.joint_names[p] =>
                    merged = override.prop[k][n]
             /\ k \notin DOMAIN override.prop
                  \/ base.joint_names[p] \notin Names(override.joint_names) =>
                  merged = base.prop[k][p]
<1>1. CASE k \in DOMAIN override.prop
  <2>1. MergeDof(base, override).prop[k] =
          Fit(override.joint_names, base.joint_names,
              override.prop[k], base.prop[k])
        BY <1>1 DEF MergeDof
  <2>2. ASSUME NEW n \in DOMAIN override.joint_names,
               override.joint_names[n] = base.joint_names[p]
        PROVE  MergeDof(base, override).prop[k][p] = override.prop[k][n]
        BY <2>1, <2>2, IndexIsThePlace DEF Fit, Names
  <2>3. base.joint_names[p] \notin Names(override.joint_names) =>
          MergeDof(base, override).prop[k][p] = base.prop[k][p]
        BY <2>1 DEF Fit
  <2>4. QED BY <1>1, <2>2, <2>3
<1>2. CASE k \notin DOMAIN override.prop
      BY <1>2 DEF MergeDof
<1>3. QED BY <1>1, <1>2

\* A merged table is sound at every joint of its base.
LEMMA MergeKeepsJoints ==
  ASSUME NEW base, NEW override, Sound(base), Sound(override),
         NEW k \in DOMAIN base.prop
  PROVE  OfJoints(base.joint_names, MergeDof(base, override).prop[k])
<1>1. OfJoints(base.joint_names, base.prop[k])
      BY DEF Sound
<1>2. CASE k \in DOMAIN override.prop
      BY <1>1, <1>2, FitKeepsJoints DEF MergeDof, Sound
<1>3. CASE k \notin DOMAIN override.prop
      BY <1>1, <1>3 DEF MergeDof
<1>4. QED BY <1>2, <1>3

-----------------------------------------------------------------------------
\* The policy and the mimic policy that is chosen exist.
IdInv ==
  /\ config \in DOMAIN Cfg
  /\ phase # "built" => current \in Ids
  /\ LocoMimic => mimic_idx \in 0 .. Len(cfg.policies) - 2

\* The environment's table is its own with the running policy's merged into it.
TableInv == phase # "built" => dof_cfg = UpdatedDofCfg(current)

\* What the pipeline keeps to send later is of the environment's joints.
KeptInv ==
  phase # "built" => OfJoints(joints, pose) /\ OfJoints(joints, override_dof_pos)

CommissioningInv == IdInv /\ TableInv /\ KeptInv /\ MotorsGetTheirJoint

-----------------------------------------------------------------------------
\* The targets a policy that exists gives.
LEMMA TargetsOfJoints ==
  ASSUME config \in DOMAIN Cfg, NEW id \in Ids
  PROVE  OfJoints(joints, PdTarget(PolicyById(id)))
<1> DEFINE own == PolicyById(id).action_dof
<1>1. OfJoints(own.joint_names, Action(PolicyById(id)))
      BY DEF OfJoints, Action
<1>2. OfJoints(joints, env.dof.prop["default_pos"])
      BY CfgAssumption DEF Valid, Sound, cfg, env, joints
<1>3. QED BY <1>1, <1>2, FitKeepsJoints DEF PdTarget

\* The pose of the locomotion policy.
LEMMA LocoOfJoints ==
  ASSUME config \in DOMAIN Cfg
  PROVE  OfJoints(joints, LocoDofPos)
<1>1. Valid(cfg)
      BY CfgAssumption DEF cfg
<1>2. OfJoints(joints, env.dof.prop["default_pos"])
      BY <1>1 DEF Valid, Sound, env, joints
<1>3. QED BY <1>1, <1>2 DEF Valid, OfJoints, LocoDofPos, env, joints

\* What a step sends.
LEMMA StepOfJoints ==
  ASSUME CommissioningInv, phase # "built"
  PROVE  OfJoints(joints, StepTarget)
<1>1. OfJoints(joints, PdTarget(policy))
      BY TargetsOfJoints DEF CommissioningInv, IdInv, policy
<1>2. OfJoints(joints, override_dof_pos)
      BY DEF CommissioningInv, KeptInv
<1>3. QED BY <1>1, <1>2 DEF OfJoints, StepTarget

\* Targets of the environment's joints reach the motors of these joints.
LEMMA SentToItsMotor ==
  ASSUME CommissioningInv, phase # "built",
         NEW target, OfJoints(joints, target),
         motors' = Sent(target), config' = config
  PROVE  MotorsGetTheirJoint'
<1>1. Valid(cfg)
      BY CfgAssumption DEF CommissioningInv, IdInv, cfg
<1>2. OfJoints(joints, dof_cfg.prop["stiffness"])
  <2>1. Sound(env.dof) /\ Sound(policy.action_dof)
        BY <1>1 DEF CommissioningInv, IdInv, Valid, env, policy, PolicyById, Ids
  <2>2. "stiffness" \in DOMAIN env.dof.prop
        BY <1>1 DEF Valid, env
  <2>3. QED BY <2>1, <2>2, MergeKeepsJoints
            DEF CommissioningInv, TableInv, UpdatedDofCfg, policy, joints
<1>3. SUFFICES ASSUME NEW m \in DOMAIN env.drives, Sent(target)[m].target # <<>>
               PROVE  /\ Sent(target)[m].target[2] = env.drives[m]
                      /\ Sent(target)[m].gain[2] = env.drives[m]
      BY DEF MotorsGetTheirJoint, env, cfg
<1>4. CASE m \in Names(env.joint2motor)
  <2> DEFINE p == Index(m, env.joint2motor)
  <2>1. p \in DOMAIN joints /\ env.joint2motor[p] = m
        BY <1>1, <1>4, IndexIsAPlace DEF Valid, env, joints
  <2>2. env.drives[m] = joints[p]
        BY <1>1, <2>1 DEF Valid, env, joints
  <2>3. Sent(target)[m] =
          [target |-> target[p], gain |-> dof_cfg.prop["stiffness"][p]]
        BY <1>4 DEF Sent
  <2>4. target[p][2] = joints[p] /\ dof_cfg.prop["stiffness"][p][2] = joints[p]
        BY <1>2, <2>1 DEF OfJoints
  <2>5. QED BY <2>2, <2>3, <2>4
<1>5. CASE m \notin Names(env.joint2motor)
  <2>1. Sent(target)[m] = motors[m]
        BY <1>5 DEF Sent
  <2>2. QED BY <1>3, <2>1 DEF CommissioningInv, MotorsGetTheirJoint
<1>6. QED BY <1>4, <1>5

-----------------------------------------------------------------------------
\* Nothing is sent before the constructor's end, and the first mimic policy exists.
LEMMA InitEstablishes == PipelineInit => CommissioningInv
<1>1. SUFFICES ASSUME PipelineInit PROVE CommissioningInv
      OBVIOUS
<1>2. IdInv
  <2>1. config \in DOMAIN Cfg /\ Valid(cfg) /\ phase = "built" /\ mimic_idx = 0
        BY <1>1, CfgAssumption DEF PipelineInit, cfg
  <2>2. LocoMimic => Len(cfg.policies) \in Nat /\ Len(cfg.policies) > 1
        BY <2>1 DEF Valid, LocoMimic
  <2>3. LocoMimic => 0 \in 0 .. Len(cfg.policies) - 2
        BY <2>2
  <2>4. QED BY <2>1, <2>3 DEF IdInv
<1>3. TableInv /\ KeptInv
      BY <1>1 DEF PipelineInit, TableInv, KeptInv
<1>4. MotorsGetTheirJoint
      BY <1>1 DEF PipelineInit, MotorsGetTheirJoint
<1>5. QED BY <1>2, <1>3, <1>4 DEF CommissioningInv

\* The constructor takes the initial policy and its table.
LEMMA ConstructKeeps ==
  ASSUME CommissioningInv, Construct
  PROVE  CommissioningInv'
<1>1. config \in DOMAIN Cfg /\ Valid(cfg)
      BY CfgAssumption DEF CommissioningInv, IdInv, cfg
<1>2. current' = cfg.initial_policy_id /\ current' \in Ids
      BY <1>1 DEF Construct, Valid, Ids
<1>3. IdInv'
      BY <1>2 DEF Construct, CommissioningInv, IdInv, LocoMimic, cfg, Ids
<1>4. TableInv'
      BY DEF Construct, TableInv, UpdatedDofCfg, PolicyById, env, cfg
<1>5. KeptInv'
  <2>1. OfJoints(joints, LocoDofPos)
        BY <1>1, LocoOfJoints
  <2>2. OfJoints(joints, PdTarget(PolicyById(current')))
        BY <1>1, <1>2, TargetsOfJoints
  <2>3. QED BY <2>1, <2>2 DEF Construct, KeptInv, joints, env, cfg
<1>6. MotorsGetTheirJoint'
      BY DEF Construct, CommissioningInv, MotorsGetTheirJoint, env, cfg
<1>7. QED BY <1>3, <1>4, <1>5, <1>6 DEF CommissioningInv

\* What is sent goes to its motor, and nothing else changes.
LEMMA SendingKeeps ==
  ASSUME CommissioningInv, PrepareStep \/ Step
  PROVE  CommissioningInv'
<1>1. phase # "built" /\ config' = config
      BY DEF PrepareStep, Step
<1>2. MotorsGetTheirJoint'
  <2>1. CASE PrepareStep
        BY <1>1, <2>1, SentToItsMotor DEF PrepareStep, CommissioningInv, KeptInv
  <2>2. CASE Step
        BY <1>1, <2>2, SentToItsMotor, StepOfJoints DEF Step
  <2>3. QED BY <2>1, <2>2
<1>3. (IdInv /\ TableInv /\ KeptInv)'
      BY DEF PrepareStep, Step, CommissioningInv, IdInv, TableInv, KeptInv,
             UpdatedDofCfg, PolicyById, LocoMimic, Ids, joints, env, cfg
<1>4. QED BY <1>2, <1>3 DEF CommissioningInv

\* prepare()'s reset is back at the initial policy, with its table.
LEMMA PhaseKeeps ==
  ASSUME CommissioningInv, PrepareReset \/ PrepareDone
  PROVE  CommissioningInv'
<1>1. phase # "built" /\ config' = config
      BY DEF PrepareReset, PrepareDone
<1>2. Valid(cfg)
      BY CfgAssumption DEF CommissioningInv, IdInv, cfg
<1>3. current' \in Ids /\ dof_cfg' = UpdatedDofCfg(current')
      BY <1>1, <1>2 DEF PrepareReset, PrepareDone, ResetPipeline, Valid, Ids,
                        CommissioningInv, IdInv, TableInv
<1>4. IdInv' /\ TableInv'
      BY <1>1, <1>3 DEF PrepareReset, PrepareDone, CommissioningInv, IdInv, TableInv,
                        UpdatedDofCfg, PolicyById, LocoMimic, Ids, env, cfg
<1>5. KeptInv' /\ MotorsGetTheirJoint'
      BY <1>1 DEF PrepareReset, PrepareDone, CommissioningInv, KeptInv,
                  MotorsGetTheirJoint, joints, env, cfg
<1>6. QED BY <1>4, <1>5 DEF CommissioningInv

\* toggle_mimic_policy stays among the mimic policies.
LEMMA ChosenExists ==
  ASSUME NEW len \in Nat \ {0}, len > 1, NEW idx \in 0 .. len - 2,
         NEW delta \in {1, -1}
  PROVE  (idx + (len - 1) + delta) % (len - 1) \in 0 .. len - 2
<1>1. len - 1 \in Nat \ {0} /\ idx + (len - 1) + delta \in Nat
      OBVIOUS
<1>2. \A a \in Nat, b \in Nat \ {0} : a % b \in 0 .. b - 1
      OBVIOUS
<1>3. (idx + (len - 1) + delta) % (len - 1) \in 0 .. (len - 1) - 1
      BY <1>1, <1>2
<1>4. (len - 1) - 1 = len - 2
      OBVIOUS
<1>5. QED BY <1>3, <1>4

\* Every switch takes a policy that exists, its table and a pose of the joints.
LEMMA CarryOutKeeps ==
  ASSUME CommissioningInv, phase # "built", NEW command, CarryOut(command)
  PROVE  /\ current' \in Ids
         /\ dof_cfg' = UpdatedDofCfg(current')
         /\ LocoMimic => mimic_idx' \in 0 .. Len(cfg.policies) - 2
         /\ OfJoints(joints, override_dof_pos')
<1>1. config \in DOMAIN Cfg /\ Valid(cfg)
      BY CfgAssumption DEF CommissioningInv, IdInv, cfg
<1>2. /\ current \in Ids /\ dof_cfg = UpdatedDofCfg(current)
      /\ OfJoints(joints, override_dof_pos)
      /\ LocoMimic => mimic_idx \in 0 .. Len(cfg.policies) - 2
      BY DEF CommissioningInv, IdInv, TableInv, KeptInv
<1>3. Len(cfg.policies) \in Nat \ {0}
      BY <1>1 DEF Valid
<1>4. CASE LocoMimic /\ ToMimic
  <2>1. mimic_idx + 1 \in Ids
        BY <1>2, <1>3, <1>4 DEF Ids
  <2>2. QED BY <1>1, <1>2, <1>4, <2>1, TargetsOfJoints DEF ToMimic, SetPolicy
<1>5. CASE LocoMimic /\ ToLoco
      BY <1>1, <1>2, <1>3, <1>5, LocoOfJoints DEF ToLoco, SetPolicy, Ids
<1>6. ASSUME NEW delta \in {1, -1}, LocoMimic, ChooseMimic(delta)
      PROVE  /\ mimic_idx' \in 0 .. Len(cfg.policies) - 2
             /\ UNCHANGED <<current, dof_cfg, override_dof_pos>>
  <2>1. Len(cfg.policies) > 1 /\ mimic_idx \in 0 .. Len(cfg.policies) - 2
        BY <1>1, <1>2, <1>6 DEF Valid, LocoMimic
  <2>2. (mimic_idx + (Len(cfg.policies) - 1) + delta) % (Len(cfg.policies) - 1)
          \in 0 .. Len(cfg.policies) - 2
        BY <1>3, <2>1, ChosenExists
  <2>3. QED BY <1>6, <2>2 DEF ChooseMimic
<1>7. ASSUME NEW id, SwitchTo(id), ~LocoMimic
      PROVE  /\ current' \in Ids /\ dof_cfg' = UpdatedDofCfg(current')
             /\ UNCHANGED override_dof_pos
      BY <1>7 DEF SwitchTo, SetPolicy
<1>8. QED BY <1>2, <1>4, <1>5, <1>6, <1>7 DEF CarryOut

\* An order keeps the invariant.
LEMMA OrderKeeps ==
  ASSUME CommissioningInv, NEW trigger, NEW command, Order(trigger, command)
  PROVE  CommissioningInv'
<1>1. phase # "built" /\ UNCHANGED <<config, phase, pose, motors>>
      BY DEF Order
<1>2. /\ current' \in Ids /\ dof_cfg' = UpdatedDofCfg(current')
      /\ LocoMimic => mimic_idx' \in 0 .. Len(cfg.policies) - 2
      /\ OfJoints(joints, override_dof_pos')
      BY <1>1, CarryOutKeeps DEF Order
<1>3. IdInv' /\ TableInv'
      BY <1>1, <1>2 DEF CommissioningInv, IdInv, TableInv, UpdatedDofCfg,
                        PolicyById, LocoMimic, Ids, env, cfg
<1>4. KeptInv' /\ MotorsGetTheirJoint'
      BY <1>1, <1>2 DEF CommissioningInv, KeptInv, MotorsGetTheirJoint,
                        joints, env, cfg
<1>5. QED BY <1>3, <1>4 DEF CommissioningInv

\* Every step does.
LEMMA StepKeeps == CommissioningInv /\ [PipelineNext]_pipelineVars => CommissioningInv'
<1>1. SUFFICES ASSUME CommissioningInv, [PipelineNext]_pipelineVars
               PROVE  CommissioningInv'
      OBVIOUS
<1>2. CASE Unattended
      BY <1>1, <1>2, ConstructKeeps, SendingKeeps, PhaseKeeps DEF Unattended
<1>3. CASE Trigger
      BY <1>1, <1>3, OrderKeeps DEF Trigger
<1>4. CASE Hear
      BY <1>1, <1>4, OrderKeeps DEF Hear
<1>5. CASE UNCHANGED pipelineVars
      BY <1>1, <1>5 DEF pipelineVars, CommissioningInv, IdInv, TableInv, KeptInv,
           MotorsGetTheirJoint, UpdatedDofCfg, PolicyById, LocoMimic, Ids,
           joints, env, cfg
<1>6. QED BY <1>1, <1>2, <1>3, <1>4, <1>5 DEF PipelineNext

\* The invariant of every run of a pipeline with valid configurations.
THEOREM CommissioningInvariant == PipelineSpec => []CommissioningInv
<1>1. QED BY InitEstablishes, StepKeeps, PTL DEF PipelineSpec

\* Whatever the configurations and the switches: update_dof_cfg leaves exactly the
\* running policy's properties at its joints and the environment's elsewhere.
THEOREM GainsAreOfTheRunningPolicy == PipelineSpec => []GainsOfTheRunningPolicy
<1>1. CommissioningInv => GainsOfTheRunningPolicy
  <2>1. SUFFICES ASSUME CommissioningInv, phase # "built",
                        NEW k \in DOMAIN env.dof.prop, NEW p \in DOMAIN joints
                 PROVE  LET own == policy.action_dof
                        IN  /\ \A n \in DOMAIN own.joint_names :
                                 k \in DOMAIN own.prop
                                   /\ own.joint_names[n] = joints[p] =>
                                   dof_cfg.prop[k][p] = own.prop[k][n]
                            /\ k \notin DOMAIN own.prop
                                 \/ joints[p] \notin Names(own.joint_names) =>
                                 dof_cfg.prop[k][p] = env.dof.prop[k][p]
        BY DEF GainsOfTheRunningPolicy
  <2>2. dof_cfg = MergeDof(env.dof, policy.action_dof)
        BY <2>1 DEF CommissioningInv, TableInv, UpdatedDofCfg, policy
  <2>3. Distinct(policy.action_dof.joint_names)
        BY <2>1, CfgAssumption
           DEF CommissioningInv, IdInv, Valid, Sound, policy, PolicyById, Ids, cfg
  <2>4. QED BY <2>2, <2>3, MergedValues DEF joints
<1>2. QED BY <1>1, CommissioningInvariant, PTL

\* Whatever the orders of the tables: no motor is sent another joint's value.
THEOREM MotorsAreOfTheirJoint == PipelineSpec => []MotorsGetTheirJoint
<1>1. CommissioningInv => MotorsGetTheirJoint
      BY DEF CommissioningInv
<1>2. QED BY <1>1, CommissioningInvariant, PTL

-----------------------------------------------------------------------------
(***************************************************************************)
(* process_triggers.  What is still in front of the iteration is a         *)
(* stretch of consecutive positions, so the event a removal makes it pass  *)
(* over is the one right behind the event that gave the command.           *)
(***************************************************************************)
InFront == {button_event[i] : i \in index .. Len(button_event)}

LoopType ==
  /\ button_event \in Seq(Nat)
  /\ index \in Nat \ {0}
  /\ down \subseteq Button
  /\ event_queue \in Seq(Event)

Stretch ==
  \A i \in index .. Len(button_event) - 1 :
    button_event[i + 1] = button_event[i] + 1

Accounted ==
  \A n \in 1 .. Len(taken) : n \in looked \/ n - 1 \in fired \/ n \in InFront

LoopInv == LoopType /\ Stretch /\ Accounted

\* The parts of a concatenation are where they were put.
LEMMA Concatenated ==
  ASSUME NEW s1 \in Seq(Nat), NEW s2 \in Seq(Nat)
  PROVE  /\ s1 \o s2 \in Seq(Nat)
         /\ Len(s1 \o s2) = Len(s1) + Len(s2)
         /\ \A k \in 1 .. Len(s2) : (s1 \o s2)[Len(s1) + k] = s2[k]
OBVIOUS

\* What a removal leaves of a sequence.
LEMMA RemovedAt ==
  ASSUME NEW s \in Seq(Nat), NEW i \in 1 .. Len(s)
  PROVE  /\ RemoveAt(s, i) \in Seq(Nat)
         /\ Len(RemoveAt(s, i)) = Len(s) - 1
         /\ \A j \in i .. Len(s) - 1 : RemoveAt(s, i)[j] = s[j + 1]
<1> DEFINE front == SubSeq(s, 1, i - 1)
           back  == SubSeq(s, i + 1, Len(s))
<1>1. front \in Seq(Nat) /\ Len(front) = i - 1
  OBVIOUS
<1>2. back \in Seq(Nat) /\ Len(back) = Len(s) - i
  OBVIOUS
<1>3. ASSUME NEW j \in 1 .. Len(s) - i PROVE back[j] = s[i + j]
  <2>1. i + j \in 1 .. Len(s) /\ (i + 1) + j - 1 = i + j
    OBVIOUS
  <2> QED
    BY <2>1
<1> HIDE DEF front, back
<1>4. /\ front \o back \in Seq(Nat)
      /\ Len(front \o back) = Len(s) - 1
  BY <1>1, <1>2, Concatenated
<1>5. ASSUME NEW j \in i .. Len(s) - 1 PROVE (front \o back)[j] = s[j + 1]
  <2>1. PICK k \in 1 .. Len(s) - i : j = (i - 1) + k /\ i + k = j + 1
    <3>1. j - (i - 1) \in 1 .. Len(s) - i
      OBVIOUS
    <3> QED
      BY <3>1
  <2>2. (front \o back)[Len(front) + k] = back[k]
    <3>1. k \in 1 .. Len(back)
      BY <1>2
    <3> QED
      BY <1>1, <1>2, <3>1, Concatenated
  <2> QED
    BY <1>1, <1>3, <2>1, <2>2
<1> QED
  BY <1>4, <1>5 DEF RemoveAt, front, back

\* The loop's invariant holds at the start.
LEMMA InitLoop == Init => LoopInv
BY DEF Init, LoopInv, LoopType, Stretch, Accounted

\* One turn of the loop preserves it.
LEMMA LookAtLoop == ASSUME LoopInv, LookAt PROVE LoopInv'
<1> DEFINE n == button_event[index]
           e == taken[n]
<1>1. /\ index \in 1 .. Len(button_event) /\ index' = index + 1
      /\ button_event \in Seq(Nat) /\ taken' = taken /\ event_queue' = event_queue
      /\ down' = down /\ looked' = looked \cup {n}
  BY DEF LookAt, Idle, LoopInv, LoopType, deviceVars
<1>2. CASE Fires(e)
  <2>1. button_event' = RemoveAt(button_event, index) /\ fired' = fired \cup {n}
    BY <1>2 DEF LookAt, Remaining
  <2>2. /\ button_event' \in Seq(Nat) /\ Len(button_event') = Len(button_event) - 1
        /\ \A j \in index .. Len(button_event) - 1 :
             button_event'[j] = button_event[j + 1]
    BY <1>1, <2>1, RemovedAt
  <2>3. Stretch'
    <3>1. SUFFICES ASSUME NEW i \in index' .. Len(button_event') - 1
                   PROVE  button_event'[i + 1] = button_event'[i] + 1
      BY DEF Stretch
    <3>2. i \in index .. Len(button_event) - 1 /\ i + 1 \in index .. Len(button_event) - 1
      BY <1>1, <2>2
    <3>3. button_event'[i] = button_event[i + 1]
          /\ button_event'[i + 1] = button_event[(i + 1) + 1]
      BY <2>2, <3>2
    <3>4. button_event[(i + 1) + 1] = button_event[i + 1] + 1
      BY <3>2 DEF LoopInv, Stretch
    <3> QED
      BY <3>3, <3>4
  <2>4. ASSUME NEW q \in InFront PROVE q \in looked' \/ q - 1 \in fired' \/ q \in InFront'
    <3>1. PICK i \in index .. Len(button_event) : q = button_event[i]
      BY DEF InFront
    <3>2. CASE i = index
      BY <1>1, <3>1, <3>2
    <3>3. CASE i = index + 1
      <4>1. q = n + 1 /\ n \in Nat
        BY <1>1, <3>1, <3>3 DEF LoopInv, Stretch
      <4> QED
        BY <2>1, <4>1
    <3>4. CASE i > index + 1
      <4>1. /\ i - 1 \in index' .. Len(button_event')
            /\ i - 1 \in index .. Len(button_event) - 1 /\ (i - 1) + 1 = i
        BY <1>1, <2>2, <3>4
      <4>2. button_event'[i - 1] = q
        BY <2>2, <3>1, <4>1
      <4> QED
        BY <4>1, <4>2 DEF InFront
    <3> QED
      BY <1>1, <3>1, <3>2, <3>3, <3>4
  <2>5. Accounted'
    BY <1>1, <2>1, <2>4 DEF Accounted, LoopInv
  <2> QED
    BY <1>1, <2>2, <2>3, <2>5 DEF LoopInv, LoopType
<1>3. CASE ~Fires(e)
  <2>1. button_event' = button_event /\ fired' = fired
    BY <1>3 DEF LookAt, Remaining
  <2>2. Stretch'
    BY <1>1, <2>1 DEF Stretch, LoopInv
  <2>3. ASSUME NEW q \in InFront PROVE q \in looked' \/ q \in InFront'
    <3>1. PICK i \in index .. Len(button_event) : q = button_event[i]
      BY DEF InFront
    <3>2. CASE i = index
      BY <1>1, <3>1, <3>2
    <3>3. CASE i > index
      BY <1>1, <2>1, <3>1, <3>3 DEF InFront
    <3> QED
      BY <1>1, <3>1, <3>2, <3>3
  <2>4. Accounted'
    BY <1>1, <2>1, <2>3 DEF Accounted, LoopInv
  <2> QED
    BY <1>1, <2>1, <2>2, <2>4 DEF LoopInv, LoopType
<1> QED
  BY <1>2, <1>3

\* Every step of a controller preserves it.
LEMMA NextLoop == ASSUME LoopInv, [Next]_vars PROVE LoopInv'
<1>1. ASSUME NEW b \in Button, NEW pressed \in BOOLEAN, Put(b, pressed) PROVE LoopInv'
  <2>1. event_queue' \in Seq(Event) /\ down' \subseteq Button
    BY <1>1 DEF Put, LoopInv, LoopType, Event
  <2> QED
    BY <1>1, <2>1 DEF Put, stepVars, LoopInv, LoopType, Stretch, Accounted, InFront
<1>2. CASE GetEvents
  <2>1. /\ button_event' = [n \in 1 .. Len(event_queue) |-> n] /\ index' = 1
        /\ taken' = event_queue /\ event_queue' = <<>>
    BY <1>2 DEF GetEvents
  <2>2. Len(event_queue) \in Nat
    BY DEF LoopInv, LoopType
  <2>3. button_event' \in Seq(Nat) /\ Len(button_event') = Len(event_queue)
    BY <2>1, <2>2
  <2>4. Stretch'
    BY <2>1, <2>2, <2>3 DEF Stretch
  <2>5. Accounted'
    BY <2>1, <2>2, <2>3 DEF Accounted, InFront
  <2> QED
    BY <1>2, <2>1, <2>3, <2>4, <2>5 DEF GetEvents, deviceVars, LoopInv, LoopType
<1>3. CASE LookAt
  BY <1>3, LookAtLoop
<1>4. CASE ResetInput
  <2>1. /\ event_queue' = <<>> /\ down' = down /\ button_event' = button_event
        /\ index' = index /\ taken' = taken /\ looked' = looked /\ fired' = fired
    BY <1>4 DEF ResetInput, deviceVars, stepVars
  <2>2. LoopType'
    BY <2>1 DEF LoopInv, LoopType
  <2>3. Stretch' /\ Accounted'
    BY <2>1 DEF LoopInv, Stretch, Accounted, InFront
  <2> QED
    BY <2>2, <2>3 DEF LoopInv
<1>5. CASE UNCHANGED vars
  BY <1>5 DEF vars, deviceVars, stepVars, LoopInv, LoopType, Stretch, Accounted, InFront
<1>6. ASSUME Press \/ Release PROVE LoopInv'
  <2>1. down \subseteq Button
    BY DEF LoopInv, LoopType
  <2>2. PICK b \in Button, pressed \in BOOLEAN : Put(b, pressed)
    BY <1>6, <2>1 DEF Press, Release
  <2> QED
    BY <1>1, <2>2
<1> QED
  BY <1>2, <1>3, <1>4, <1>5, <1>6 DEF Next

\* An event that arrives alone, or behind events without a command, counts: the
\* removal of an event from the list under iteration passes over the one right
\* behind it and no other.
THEOREM OnlyTheEventBehindIsLost == Spec => []LostOnlyBehindACommand
<1>1. Init => LoopInv
  BY InitLoop
<1>2. LoopInv /\ [Next]_vars => LoopInv'
  BY NextLoop
<1>3. LoopInv => LostOnlyBehindACommand
  <2> SUFFICES ASSUME LoopInv, Idle, NEW n \in 1 .. Len(taken), n \notin looked
               PROVE  n - 1 \in fired
    BY DEF LostOnlyBehindACommand
  <2>1. InFront = {}
    BY DEF InFront, Idle, LoopInv, LoopType
  <2> QED
    BY <2>1 DEF LoopInv, Accounted
<1> QED
  BY <1>1, <1>2, <1>3, PTL DEF Spec

\* One turn that loses nothing keeps the modifiers of the controller those that
\* are reported.
LEMMA LookAtHolds ==
  ASSUME HoldsWhatIsReported, LookAt PROVE HoldsWhatIsReported'
<1> DEFINE e == taken[button_event[index]]
           passed == button_event' # button_event /\ index <= Len(button_event')
<1>1. lost' = (lost \/ passed) /\ onhold_buttons' = HeldAfter(e)
  BY DEF LookAt
<1>2. ~passed => reported' = ReportedAfter(e)
  BY DEF LookAt
<1>3. CASE lost \/ passed
  BY <1>1, <1>3 DEF HoldsWhatIsReported
<1>4. CASE ~lost /\ ~passed
  <2>1. onhold_buttons = reported \cap Modifier
    BY <1>4 DEF HoldsWhatIsReported
  <2>2. HeldAfter(e) = ReportedAfter(e) \cap Modifier
    BY <2>1 DEF HeldAfter, ReportedAfter
  <2> QED
    BY <1>1, <1>2, <1>4, <2>2 DEF HoldsWhatIsReported
<1> QED
  BY <1>3, <1>4

\* The modifiers a combination is looked up with are those the device reported,
\* until an event is passed over.
THEOREM HeldAsReported == Spec => []HoldsWhatIsReported
<1>1. Init => HoldsWhatIsReported
  BY DEF Init, HoldsWhatIsReported
<1>2. HoldsWhatIsReported /\ [Next]_vars => HoldsWhatIsReported'
  <2> SUFFICES ASSUME HoldsWhatIsReported, [Next]_vars PROVE HoldsWhatIsReported'
    OBVIOUS
  <2>1. CASE Press \/ Release
    BY <2>1 DEF Press, Release, Put, HoldsWhatIsReported
  <2>2. CASE GetEvents
    BY <2>2 DEF GetEvents, HoldsWhatIsReported
  <2>3. CASE LookAt
    BY <2>3, LookAtHolds
  <2>4. CASE ResetInput
    BY <2>4 DEF ResetInput, HoldsWhatIsReported
  <2>5. CASE UNCHANGED vars
    BY <2>5 DEF vars, HoldsWhatIsReported
  <2> QED
    BY <2>1, <2>2, <2>3, <2>4, <2>5 DEF Next
<1> QED
  BY <1>1, <1>2, PTL DEF Spec

-----------------------------------------------------------------------------
(***************************************************************************)
(* The two together.  Buttons are pressed in the piloted configuration     *)
(* only, so what the loop finds is a trigger of the configuration that     *)
(* runs.                                                                   *)
(***************************************************************************)
PilotInv ==
  /\ config \in DOMAIN Cfg
  /\ config # Piloted => event_queue = <<>> /\ button_event = <<>> /\ index = 1

\* A step of the two is a step, or a stutter, of each.
LEMMA StepOfBoth ==
  ASSUME PilotInv, [CockpitNext]_<<padVars, pipelineVars>>
  PROVE  [Next]_vars /\ [PipelineNext]_pipelineVars /\ PilotInv'
<1> DEFINE Both == [Next]_vars /\ [PipelineNext]_pipelineVars /\ PilotInv'
<1>1. CASE Use
  <2>1. Next /\ UNCHANGED pipelineVars /\ config = Piloted
    BY <1>1 DEF Use, Next
  <2> QED
    BY <2>1 DEF pipelineVars, PilotInv
<1>2. CASE Take
  <2>1. GetEvents /\ UNCHANGED pipelineVars
    BY <1>2 DEF Take
  <2>2. config = Piloted /\ config' = config
    BY <2>1 DEF PilotInv, GetEvents, pipelineVars
  <2> QED
    BY <2>1, <2>2 DEF Next, PilotInv
<1>3. ASSUME ~Idle, LookAt PROVE Next /\ config = Piloted
  BY <1>3 DEF Next, PilotInv, Idle
<1>4. CASE LookOnly
  <2>1. LookAt /\ ~Idle /\ UNCHANGED pipelineVars
    BY <1>4 DEF LookOnly
  <2> QED
    BY <1>3, <2>1 DEF pipelineVars, PilotInv
<1>5. CASE LookAndOrder
  <2>1. LookAt /\ ~Idle /\ Order(TriggerHere, cfg.ctrl[TriggerHere]) /\ Fires(Here)
    BY <1>5 DEF LookAndOrder, Orders
  <2>2. Next /\ config = Piloted /\ config' = config
    BY <1>3, <2>1 DEF Order
  <2>3. TriggerHere \in DOMAIN cfg.ctrl
    BY <2>1, <2>2, CockpitAssumption DEF Fires, TriggerHere, cfg
  <2>4. PipelineNext
    BY <2>1, <2>3 DEF PipelineNext, Trigger
  <2> QED
    BY <2>2, <2>4 DEF PilotInv
<1>6. CASE Start \/ ResetAll
  <2>1. ResetInput /\ (Construct \/ PrepareReset)
    BY <1>6 DEF Start, ResetAll
  <2>2. Next /\ PipelineNext
    BY <2>1 DEF Next, PipelineNext, Unattended
  <2>3. config' = config
    BY <2>1 DEF Construct, PrepareReset
  <2>4. PilotInv'
    BY <2>1, <2>3 DEF PilotInv, ResetInput, stepVars
  <2> QED
    BY <2>2, <2>4
<1>7. CASE Proceed \/ Given
  <2>1. UNCHANGED vars /\ (PrepareStep \/ PrepareDone \/ Step \/ Trigger \/ Hear)
    BY <1>7 DEF Proceed, Given, padVars
  <2>2. PipelineNext
    BY <2>1 DEF PipelineNext, Unattended
  <2>3. config' = config
    BY <2>1 DEF PrepareStep, PrepareDone, Step, Trigger, Hear, Order
  <2>4. PilotInv'
    BY <2>1, <2>3 DEF PilotInv, vars, stepVars
  <2> QED
    BY <2>1, <2>2, <2>4
<1>8. CASE UNCHANGED <<padVars, pipelineVars>>
  BY <1>8 DEF padVars, vars, stepVars, pipelineVars, PilotInv
<1> QED
  BY <1>1, <1>2, <1>4, <1>5, <1>6, <1>7, <1>8 DEF CockpitNext

\* Every run of a controller with its pipeline is a run of the controller and a
\* run of the pipeline: the loop hands on only triggers the configuration has.
THEOREM CockpitIsBoth == CockpitSpec => Spec /\ PipelineSpec
<1>1. CockpitInit => Init /\ PipelineInit /\ PilotInv
  BY DEF CockpitInit, PilotInv, PipelineInit, Init
<1>2. PilotInv /\ [CockpitNext]_<<padVars, pipelineVars>> =>
        [Next]_vars /\ [PipelineNext]_pipelineVars /\ PilotInv'
  BY StepOfBoth
<1> QED
  BY <1>1, <1>2, PTL DEF CockpitSpec, Spec, PipelineSpec

-----------------------------------------------------------------------------
(***************************************************************************)
(* Taking over.  The pose is the one of the policy the pipeline was built  *)
(* with; the reset brings that policy back, and only an order takes it     *)
(* away again.                                                             *)
(***************************************************************************)
InitialPose ==
  IF LocoMimic THEN LocoDofPos ELSE PdTarget(PolicyById(cfg.initial_policy_id))

PoseInv ==
  /\ config \in DOMAIN Cfg
  /\ phase \in {"prepare", "prepared"} => pose = InitialPose
  /\ phase # "built" /\ ~Several => current = cfg.initial_policy_id
  /\ phase = "prepared" /\ asked = Nothing => current = cfg.initial_policy_id

\* The constructor establishes what the pose is to be.
LEMMA ConstructPoses == ASSUME PoseInv, Construct PROVE PoseInv'
<1>1. config' = config /\ current' = cfg.initial_policy_id /\ phase' \in {"run", "prepare"}
  BY DEF Construct
<1>2. pose' = InitialPose
  BY DEF Construct, InitialPose
<1>3. InitialPose' = InitialPose
  BY <1>1 DEF InitialPose, LocoMimic, LocoDofPos, PdTarget, PolicyById, Action, joints,
              env, cfg
<1> QED
  BY <1>1, <1>2, <1>3 DEF PoseInv, Several, cfg

\* An order has a trigger, and is about several policies.
LEMMA OrderPoses ==
  ASSUME PoseInv, NEW trigger, trigger # Nothing, NEW command, Order(trigger, command)
  PROVE  PoseInv'
<1>1. UNCHANGED <<config, phase, pose>> /\ asked' # Nothing /\ Several
  BY DEF Order, CarryOut, LocoMimic, Several
<1>2. InitialPose' = InitialPose
  BY <1>1 DEF InitialPose, LocoMimic, LocoDofPos, PdTarget, PolicyById, Action, joints,
              env, cfg
<1> QED
  BY <1>1, <1>2 DEF PoseInv, Several, cfg, Nothing

\* Every step of a pipeline preserves it.
LEMMA NextPoses == ASSUME PoseInv, [PipelineNext]_pipelineVars PROVE PoseInv'
<1>1. ASSUME config' = config, pose' = pose,
             phase' \in {"prepare", "prepared"} => phase \in {"prepare", "prepared"}
      PROVE  phase' \in {"prepare", "prepared"} => pose' = InitialPose'
  BY <1>1 DEF PoseInv, InitialPose, LocoMimic, LocoDofPos, PdTarget, PolicyById, Action,
              joints, env, cfg
<1>2. CASE Construct
  BY <1>2, ConstructPoses
<1>3. CASE PrepareStep \/ PrepareDone \/ Step
  BY <1>1, <1>3 DEF PrepareStep, PrepareDone, Step, PoseInv, Several, cfg, Nothing
<1>4. CASE PrepareReset
  <2>1. UNCHANGED <<config, pose>> /\ phase = "prepare" /\ phase' = "prepared"
    BY <1>4 DEF PrepareReset
  <2>2. current' = cfg.initial_policy_id
    BY <1>4, <2>1 DEF PrepareReset, ResetPipeline, PoseInv
  <2> QED
    BY <1>1, <2>1, <2>2 DEF PoseInv, Several, cfg
<1>5. CASE Trigger
  <2>1. PICK t \in DOMAIN cfg.ctrl : Order(t, cfg.ctrl[t])
    BY <1>5 DEF Trigger
  <2>2. t # Nothing
    BY <2>1, TriggerAssumption DEF PoseInv, cfg
  <2> QED
    BY <2>1, <2>2, OrderPoses
<1>6. CASE Hear
  <2>1. PICK song : Order(Heard(song), <<"[POLICY_SWITCH]", PolicyOf(cfg.songs, song)>>)
    BY <1>6 DEF Hear
  <2>2. Heard(song) # Nothing
    <3>1. Heard(song).held = {"song"} /\ Nothing.held = {}
      BY DEF Heard, Nothing
    <3> QED
      BY <3>1
  <2> QED
    BY <2>1, <2>2, OrderPoses
<1>7. CASE UNCHANGED pipelineVars
  BY <1>1, <1>7 DEF pipelineVars, PoseInv, Several, cfg, Nothing
<1> QED
  BY <1>2, <1>3, <1>4, <1>5, <1>6, <1>7 DEF PipelineNext, Unattended

\* prepare() hands over from the pose of the policy that runs: its reset, and not
\* what was asked for before it, decides which policy that is.
THEOREM PreparedForItsPolicy == PipelineSpec => []TakesOverFromItsPose
<1>1. PipelineInit => PoseInv
  BY DEF PipelineInit, PoseInv
<1>2. PoseInv /\ [PipelineNext]_pipelineVars => PoseInv'
  BY NextPoses
<1>3. PoseInv => TakesOverFromItsPose
  BY DEF PoseInv, TakesOverFromItsPose, InitialPose, policy
<1> QED
  BY <1>1, <1>2, <1>3, PTL DEF PipelineSpec

-----------------------------------------------------------------------------
\* Every joint's motor is sent that joint's target.
LEMMA SentToMotorOf ==
  ASSUME config \in DOMAIN Cfg, NEW target, NEW p \in DOMAIN joints
  PROVE  Sent(target)[env.joint2motor[p]].target = target[p]
<1> DEFINE m == env.joint2motor[p]
<1>1. Valid(cfg)
  BY CfgAssumption DEF cfg
<1>2. /\ DOMAIN env.joint2motor = DOMAIN joints
      /\ m \in DOMAIN env.drives
      /\ \A q \in DOMAIN joints : env.drives[env.joint2motor[q]] = joints[q]
      /\ Distinct(joints)
  BY <1>1 DEF Valid, Sound, env, joints
<1>3. m \in Names(env.joint2motor)
  BY <1>2 DEF Names
<1>4. Index(m, env.joint2motor) = p
  <2>1. Index(m, env.joint2motor) \in DOMAIN joints
        /\ env.joint2motor[Index(m, env.joint2motor)] = m
    BY <1>2, <1>3, IndexIsAPlace
  <2>2. joints[Index(m, env.joint2motor)] = joints[p]
    BY <1>2, <2>1
  <2> QED
    BY <1>2, <2>1, <2>2 DEF Distinct
<1> QED
  BY <1>2, <1>3, <1>4 DEF Sent

\* However a mimic policy left the override, in locomotion no joint below the
\* upper body is sent anything but the locomotion policy's own target.
THEOREM LegsAreThePolicys ==
  ASSUME OverridesUpperBody
  PROVE  PipelineSpec => LegsStayWithThePolicy
<1>1. CommissioningInv /\ [PipelineNext]_pipelineVars =>
        [phase = "run" /\ motors' # motors /\ LocoMimic /\ current = 0 =>
           \A p \in DOMAIN joints :
             ~OfUpperBody(joints[p]) =>
               motors'[env.joint2motor[p]].target = PdTarget(policy)[p]]_pipelineVars
  <2> SUFFICES ASSUME CommissioningInv, [PipelineNext]_pipelineVars, phase = "run",
                      motors' # motors, NEW p \in DOMAIN joints, ~OfUpperBody(joints[p])
               PROVE  motors'[env.joint2motor[p]].target = PdTarget(policy)[p]
    OBVIOUS
  <2>1. Step
    BY DEF PipelineNext, Unattended, Trigger, Hear, Order, Construct, PrepareStep,
           PrepareReset, PrepareDone, pipelineVars
  <2>2. config \in DOMAIN Cfg
    BY DEF CommissioningInv, IdInv
  <2>3. motors'[env.joint2motor[p]].target = StepTarget[p]
    BY <2>1, <2>2, SentToMotorOf DEF Step
  <2>4. p \notin cfg.override
    BY <2>2 DEF OverridesUpperBody, joints, env, cfg
  <2>5. StepTarget[p] = PdTarget(policy)[p]
    BY <2>4 DEF StepTarget
  <2> QED
    BY <2>3, <2>5
<1> QED
  BY <1>1, CommissioningInvariant, PTL DEF PipelineSpec, LegsStayWithThePolicy

-----------------------------------------------------------------------------
(***************************************************************************)
(* Promises.  What an order has started runs until the next one: the tables *)
(* decide alone, whatever ran before and however it was switched.          *)
(***************************************************************************)
LegendInv ==
  /\ config \in DOMAIN Cfg
  /\ phase = "built" => asked = Nothing
  /\ OrdersKeepTheirPromise

\* An order of the legend starts the policy the legend names.
LEMMA OrderPromises ==
  ASSUME LegendsAreOfTheLists, LegendInv, NEW trigger, NEW command,
         Order(trigger, command),
         trigger \in DOMAIN cfg.legend =>
           /\ command[1] = "[POLICY_SWITCH]"
           /\ command[2] \in Ids => PolicyById(command[2]).model = cfg.legend[trigger]
  PROVE  LegendInv'
<1>1. UNCHANGED <<config, phase>> /\ asked' = trigger /\ phase # "built" /\ cfg' = cfg
  BY DEF Order, cfg
<1>2. CASE trigger \notin DOMAIN cfg.legend
  BY <1>1, <1>2 DEF LegendInv, OrdersKeepTheirPromise
<1>3. CASE trigger \in DOMAIN cfg.legend
  <2>1. ~LocoMimic
    BY <1>3 DEF LegendsAreOfTheLists, LegendInv, LocoMimic, cfg
  <2>2. command[2] \in Ids /\ current' = command[2]
    BY <1>3, <2>1 DEF Order, CarryOut, SwitchTo, SetPolicy
  <2>3. policy' = PolicyById(command[2])
    BY <1>1, <2>2 DEF policy, PolicyById
  <2> QED
    BY <1>1, <1>3, <2>2, <2>3 DEF LegendInv, OrdersKeepTheirPromise
<1> QED
  BY <1>2, <1>3

\* Every step of a pipeline preserves it.
LEMMA NextPromises ==
  ASSUME LegendsAreOfTheLists, LegendInv, [PipelineNext]_pipelineVars PROVE LegendInv'
<1>1. Nothing \notin DOMAIN cfg.legend
  BY DEF LegendsAreOfTheLists, LegendInv, cfg
<1>2. CASE Construct
  BY <1>1, <1>2 DEF Construct, LegendInv, OrdersKeepTheirPromise, cfg
<1>3. CASE PrepareStep \/ PrepareDone \/ Step \/ UNCHANGED pipelineVars
  <2>1. UNCHANGED <<config, current, asked>> /\ (phase' = "built" => phase = "built")
    BY <1>3 DEF PrepareStep, PrepareDone, Step, pipelineVars
  <2> QED
    BY <2>1 DEF LegendInv, OrdersKeepTheirPromise, policy, PolicyById, cfg
<1>4. CASE PrepareReset
  BY <1>1, <1>4 DEF PrepareReset, ResetPipeline, LegendInv, OrdersKeepTheirPromise, cfg
<1>5. CASE Trigger
  <2>1. PICK t \in DOMAIN cfg.ctrl : Order(t, cfg.ctrl[t])
    BY <1>5 DEF Trigger
  <2>2. t \in DOMAIN cfg.legend =>
          /\ cfg.ctrl[t][1] = "[POLICY_SWITCH]"
          /\ cfg.ctrl[t][2] \in Ids => PolicyById(cfg.ctrl[t][2]).model = cfg.legend[t]
    BY DEF LegendsAreOfTheLists, LegendInv, cfg, Ids, PolicyById
  <2> QED
    BY <2>1, <2>2, OrderPromises
<1>6. CASE Hear
  <2>1. PICK n \in DOMAIN cfg.songs :
          Order(Heard(cfg.songs[n][1]),
                <<"[POLICY_SWITCH]", PolicyOf(cfg.songs, cfg.songs[n][1])>>)
    BY <1>6 DEF Hear
  <2> DEFINE song == cfg.songs[n][1]
             id   == PolicyOf(cfg.songs, song)
  <2>2. Heard(song) \in DOMAIN cfg.legend =>
          (id \in Ids => PolicyById(id).model = cfg.legend[Heard(song)])
    BY DEF LegendsAreOfTheLists, LegendInv, cfg, Ids, PolicyById
  <2> HIDE DEF id, song
  <2>3. /\ <<"[POLICY_SWITCH]", id>>[1] = "[POLICY_SWITCH]"
        /\ <<"[POLICY_SWITCH]", id>>[2] = id
    OBVIOUS
  <2>4. Order(Heard(song), <<"[POLICY_SWITCH]", id>>)
    BY <2>1 DEF id, song
  <2> QED
    BY <2>2, <2>3, <2>4, OrderPromises
<1> QED
  BY <1>2, <1>3, <1>4, <1>5, <1>6 DEF PipelineNext, Unattended

\* A key, a button or a song starts the policy its legend names, and that one runs
\* until the next order, in every configuration whose lists agree with its legend.
THEOREM OrdersAreKept ==
  ASSUME LegendsAreOfTheLists PROVE PipelineSpec => []OrdersKeepTheirPromise
<1>1. PipelineInit => LegendInv
  BY DEF PipelineInit, LegendInv, LegendsAreOfTheLists, OrdersKeepTheirPromise, cfg
<1>2. LegendInv /\ [PipelineNext]_pipelineVars => LegendInv'
  BY NextPromises
<1>3. LegendInv => OrdersKeepTheirPromise
  BY DEF LegendInv
<1> QED
  BY <1>1, <1>2, <1>3, PTL DEF PipelineSpec

-----------------------------------------------------------------------------
\* Under its keys and buttons, pressed and released in any order, a pipeline keeps
\* what was proved of it alone.
THEOREM CockpitKeepsPromises ==
  CockpitSpec => /\ []LostOnlyBehindACommand
                 /\ []HoldsWhatIsReported
                 /\ []GainsOfTheRunningPolicy
                 /\ []MotorsGetTheirJoint
                 /\ []TakesOverFromItsPose
                 /\ (OverridesUpperBody => LegsStayWithThePolicy)
                 /\ (LegendsAreOfTheLists => []OrdersKeepTheirPromise)
<1>1. OverridesUpperBody => (PipelineSpec => LegsStayWithThePolicy)
  BY LegsAreThePolicys
<1>2. LegendsAreOfTheLists => (PipelineSpec => []OrdersKeepTheirPromise)
  BY OrdersAreKept
<1> QED
  BY <1>1, <1>2, CockpitIsBoth, OnlyTheEventBehindIsLost, HeldAsReported,
     GainsAreOfTheRunningPolicy, MotorsAreOfTheirJoint, PreparedForItsPolicy, PTL
=============================================================================
