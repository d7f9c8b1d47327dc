----------------------------- MODULE Commissioning -----------------------------
(***************************************************************************)
(* A pipeline from its configuration to the motors: the environment takes  *)
(* over the joint properties of the policy that runs, the policy's targets *)
(* are fitted onto the environment's joints, and each goes to the motor of *)
(* its joint.  On a robot, prepare() first moves it to the pose the first  *)
(* policy starts from.                                                     *)
(*                                                                         *)
(* An order is carried out in one step here; its delay, the Stand before a *)
(* dance and the interpolation are MultiPolicyPipeline's and               *)
(* LocoMimicPipeline's.                                                    *)
(***************************************************************************)
EXTENDS DofAdapter, Integers

CONSTANTS
  Cfg     \* the configurations, by name

\* What the configurations' validators and the adapters' assertions require, and
\* that the tables themselves are right.
Valid(c) ==
  LET names == c.env.dof.joint_names
  IN  /\ Len(c.policies) \in Nat \ {0}
      /\ c.initial_policy_id \in 0 .. Len(c.policies) - 1
      /\ c.pipeline = "RlLocoMimicPipeline" => Len(c.policies) > 1
      /\ Sound(c.env.dof)
      /\ {"default_pos", "stiffness"} \subseteq DOMAIN c.env.dof.prop
      /\ \A id \in 0 .. Len(c.policies) - 1 :
           LET p == c.policies[id + 1]
           IN  /\ Sound(p.action_dof)
               /\ Fits(p.action_dof.joint_names, names)
               /\ Fits(names, p.obs_dof.joint_names)
      /\ DOMAIN c.env.joint2motor = DOMAIN names
      /\ \A p \in DOMAIN names :
           /\ c.env.joint2motor[p] \in DOMAIN c.env.drives
           /\ c.env.drives[c.env.joint2motor[p]] = names[p]
      /\ LET lower == Len(names) - Len(c.upper_dof)
         IN  \A p \in DOMAIN names :
               p > lower => c.upper_dof[p - lower][2] = names[p]

ASSUME CfgAssumption == \A c \in DOMAIN Cfg : Valid(Cfg[c])

VARIABLES
  config,            \* the configuration started with
  phase,             \* "built", "prepare", "prepared" (after its reset) or "run"
  current,           \* policy_manager.current_policy_id
  dof_cfg,           \* the environment's joint properties
  mimic_idx,         \* policy_mimic_idx
  override_dof_pos,  \* loco-mimic: the pose laid over the upper body
  pose,              \* prepare: desired_motor_angle
  motors,            \* motor -> the value and the gain it was last sent
  asked              \* history: the trigger carried out last since reset()

pipelineVars == <<config, phase, current, dof_cfg, mimic_idx, override_dof_pos,
                  pose, motors, asked>>

cfg    == Cfg[config]
env    == cfg.env
joints == env.dof.joint_names
Ids    == 0 .. Len(cfg.policies) - 1

PolicyById(id) == cfg.policies[id + 1]
policy         == PolicyById(current)

\* No trigger.
Nothing == [held |-> {}, button |-> ""]

\* Every button, and so every trigger of a configuration, has a name.
ASSUME TriggerAssumption == \A c \in DOMAIN Cfg : Nothing \notin DOMAIN Cfg[c].ctrl

\* A song is a trigger of its own.
Heard(song) == [held |-> {"song"}, button |-> song]

LocoMimic == cfg.pipeline = "RlLocoMimicPipeline"
Several   == cfg.pipeline # "RlPipeline"

-----------------------------------------------------------------------------
\* What the policy's network and its first frame give, one value per joint of
\* its own.
Action(p) == [n \in DOMAIN p.action_dof.joint_names |->
                <<p.model, p.action_dof.joint_names[n]>>]

\* PolicyWrapper: the joints the policy does not move keep the pose of the
\* environment's own table, taken before any policy's was merged into it.
PdTarget(p) ==
  Fit(p.action_dof.joint_names, joints, Action(p), env.dof.prop["default_pos"])

\* update_dof_cfg.  Mutants: what was there is the base; values in order.
UpdateOverCurrent(id) == MergeDof(dof_cfg, PolicyById(id).action_dof)

UpdatedDofCfg(id) == MergeDof(env.dof, PolicyById(id).action_dof)

\* loco_dof_pos: the defaults with the upper body's own at the end.
LocoDofPos ==
  LET lower == Len(joints) - Len(cfg.upper_dof)
  IN  [p \in DOMAIN joints |->
         IF p > lower THEN cfg.upper_dof[p - lower]
         ELSE env.dof.prop["default_pos"][p]]

\* RlLocoMimicPipeline.step: locomotion's targets, the override laid over them.
StepTarget ==
  [p \in DOMAIN joints |->
     IF LocoMimic /\ current = 0 /\ p \in cfg.override
     THEN override_dof_pos[p] ELSE PdTarget(policy)[p]]

\* Mutant: joint p is taken to be motor p - 1.
SentDirectly(target) ==
  [m \in DOMAIN env.drives |->
     IF m + 1 \in DOMAIN joints
     THEN [target |-> target[m + 1], gain |-> dof_cfg.prop["stiffness"][m + 1]]
     ELSE motors[m]]

\* The environment's step: joint p's target and gain go to its motor.
Sent(target) ==
  [m \in DOMAIN env.drives |->
     IF m \in Names(env.joint2motor)
     THEN LET p == Index(m, env.joint2motor)
          IN  [target |-> target[p], gain |-> dof_cfg.prop["stiffness"][p]]
     ELSE motors[m]]

-----------------------------------------------------------------------------
\* The rest of the constructor, up to its reset().
Construct ==
  /\ phase = "built"
  /\ current' = cfg.initial_policy_id
  /\ dof_cfg' = UpdatedDofCfg(current')
  /\ phase' = IF env.is_sim THEN "run" ELSE "prepare"
  /\ pose' = IF LocoMimic THEN LocoDofPos ELSE PdTarget(PolicyById(current'))
  /\ override_dof_pos' = LocoDofPos
  /\ UNCHANGED <<config, mimic_idx, motors, asked>>

\* prepare() sends its own pose, mixed with where the joints are; the pose is the
\* one that was asked for before its loop.
PrepareStep ==
  /\ phase \in {"prepare", "prepared"}
  /\ motors' = Sent(pose)
  /\ UNCHANGED <<config, phase, current, dof_cfg, mimic_idx, override_dof_pos,
                 pose, asked>>

\* Mutant: the pipeline's reset() leaves the policy that is current.
ResetInPlace ==
  /\ asked' = Nothing
  /\ UNCHANGED <<current, dof_cfg>>

\* reset() of the pipelines with several policies.
ResetPipeline ==
  /\ asked' = Nothing
  /\ IF Several
     THEN /\ current' = cfg.initial_policy_id
          /\ dof_cfg' = UpdatedDofCfg(cfg.initial_policy_id)
     ELSE UNCHANGED <<current, dof_cfg>>

\* prepare() resets the pipeline when nine tenths of its steps are over.
PrepareReset ==
  /\ phase = "prepare"
  /\ phase' = "prepared"
  /\ ResetPipeline
  /\ UNCHANGED <<config, mimic_idx, override_dof_pos, pose, motors>>

PrepareDone ==
  /\ phase = "prepared"
  /\ phase' = "run"
  /\ UNCHANGED <<config, current, dof_cfg, mimic_idx, override_dof_pos, pose,
                 motors, asked>>

Step ==
  /\ phase = "run"
  /\ motors' = Sent(StepTarget)
  /\ UNCHANGED <<config, phase, current, dof_cfg, mimic_idx, override_dof_pos,
                 pose, asked>>

\* set_policy
SetPolicy(id) ==
  /\ current' = id
  /\ dof_cfg' = UpdatedDofCfg(id)

\* switch_to_mimic ends with the override at the pose the mimic policy starts
\* from, switch_to_loco at locomotion's own.
ToMimic ==
  /\ current = 0
  /\ SetPolicy(mimic_idx + 1)
  /\ override_dof_pos' = PdTarget(PolicyById(mimic_idx + 1))
  /\ UNCHANGED mimic_idx

ToLoco ==
  /\ current # 0
  /\ SetPolicy(0)
  /\ override_dof_pos' = LocoDofPos
  /\ UNCHANGED mimic_idx

\* toggle_mimic_policy, in locomotion only.
ChooseMimic(delta) ==
  /\ current = 0
  /\ LET num == Len(cfg.policies) - 1
     IN  mimic_idx' = (mimic_idx + num + delta) % num
  /\ UNCHANGED <<current, dof_cfg, override_dof_pos>>

SwitchTo(id) ==
  /\ id \in Ids
  /\ SetPolicy(id)
  /\ UNCHANGED <<mimic_idx, override_dof_pos>>

\* What the pipeline makes of a command about its policies.
CarryOut(command) ==
  \/ /\ LocoMimic
     /\ \/ command = <<"[POLICY_MIMIC]">> /\ ToMimic
        \/ command = <<"[POLICY_LOCO]">> /\ ToLoco
        \/ command = <<"[POLICY_NEXT]">> /\ ChooseMimic(1)
        \/ command = <<"[POLICY_LAST]">> /\ ChooseMimic(-1)
  \/ /\ Several /\ ~LocoMimic
     /\ \/ command[1] = "[POLICY_SWITCH]" /\ SwitchTo(command[2])
        \/ /\ command[1] = "[POLICY_TOGGLE]"
           /\ SwitchTo((current + 1) % Len(cfg.policies))

AboutPolicies(command) ==
  command[1] \in {"[POLICY_MIMIC]", "[POLICY_LOCO]", "[POLICY_NEXT]",
                  "[POLICY_LAST]", "[POLICY_SWITCH]", "[POLICY_TOGGLE]"}

Order(trigger, command) ==
  /\ phase # "built"
  /\ CarryOut(command)
  /\ asked' = trigger
  /\ UNCHANGED <<config, phase, pose, motors>>

Trigger == \E t \in DOMAIN cfg.ctrl : Order(t, cfg.ctrl[t])

\* _resolve_policy_id: the first key of song_to_policy that is part of the song's
\* name decides; "salsa" is part of "salsa4".
Matches(songs, song) ==
  {n \in DOMAIN songs :
     \/ songs[n][1] = song
     \/ songs[n][1] = "salsa" /\ song = "salsa4"}

\* Mutant: the last.
PolicyOfLast(songs, song) ==
  songs[CHOOSE n \in Matches(songs, song) : \A m \in Matches(songs, song) : m <= n][2]

PolicyOf(songs, song) ==
  songs[CHOOSE n \in Matches(songs, song) : \A m \in Matches(songs, song) : n <= m][2]

Hear ==
  \E n \in DOMAIN cfg.songs :
    LET song == cfg.songs[n][1]
    IN  Order(Heard(song), <<"[POLICY_SWITCH]", PolicyOf(cfg.songs, song)>>)

-----------------------------------------------------------------------------
PipelineInit ==
  /\ config \in DOMAIN Cfg
  /\ phase = "built"
  /\ current = 0
  /\ dof_cfg = env.dof
  /\ mimic_idx = 0
  /\ override_dof_pos = env.dof.prop["default_pos"]
  /\ pose = env.dof.prop["default_pos"]
  /\ motors = [m \in DOMAIN env.drives |-> [target |-> <<>>, gain |-> <<>>]]
  /\ asked = Nothing

Unattended ==
  Construct \/ PrepareStep \/ PrepareReset \/ PrepareDone \/ Step

PipelineNext == Unattended \/ Trigger \/ Hear

PipelineSpec == PipelineInit /\ [][PipelineNext]_pipelineVars

-----------------------------------------------------------------------------
\* However the policies were switched, the environment holds for every joint the
\* running policy's property where the policy gives one for that joint, and its
\* own otherwise: nothing of a policy that ran before, nothing of another joint.
GainsOfTheRunningPolicy ==
  phase # "built" =>
    \A k \in DOMAIN env.dof.prop, p \in DOMAIN joints :
      LET own == policy.action_dof
      IN  /\ \A n \in DOMAIN own.joint_names :
               k \in DOMAIN own.prop /\ own.joint_names[n] = joints[p] =>
                 dof_cfg.prop[k][p] = own.prop[k][n]
          /\ k \notin DOMAIN own.prop \/ joints[p] \notin Names(own.joint_names) =>
               dof_cfg.prop[k][p] = env.dof.prop[k][p]

\* Every motor is sent a target and a gain that were written for the joint it
\* drives, whatever the order in which policy, environment and robot count their
\* joints.
MotorsGetTheirJoint ==
  \A m \in DOMAIN env.drives :
    motors[m].target # <<>> =>
      /\ motors[m].target[2] = env.drives[m]
      /\ motors[m].gain[2] = env.drives[m]

\* "Upper body", without the waist's roll and pitch.
OfUpperBody(joint) ==
  \/ joint = <<"waist", "yaw">>
  \/ joint[2] \in {"shoulder_pitch", "shoulder_roll", "shoulder_yaw", "elbow",
                   "wrist_roll", "wrist_pitch", "wrist_yaw"}

\* Where an override may lie: the configurations that have one name the joints by
\* their number, counted from the list's end ("no waist roll and pitch").
OverridesUpperBody ==
  \A c \in DOMAIN Cfg :
    \A p \in DOMAIN Cfg[c].env.dof.joint_names :
      p \in Cfg[c].override =>
        OfUpperBody(Cfg[c].env.dof.joint_names[p])

\* The override of the loco-mimic pipeline is for the waist's yaw and the arms: in
\* locomotion every other joint is sent the locomotion policy's own target, also
\* right after a mimic policy's pose was laid over the upper body.
LegsStayWithThePolicy ==
  [][phase = "run" /\ motors' # motors /\ LocoMimic /\ current = 0 =>
       \A p \in DOMAIN joints :
         ~OfUpperBody(joints[p]) =>
           motors'[env.joint2motor[p]].target = PdTarget(policy)[p]]_pipelineVars

\* After prepare()'s reset, until an order is carried out, the pose the robot is
\* moved to is the one its running policy starts from.
TakesOverFromItsPose ==
  phase = "prepared" /\ asked = Nothing =>
    pose = IF LocoMimic THEN LocoDofPos ELSE PdTarget(policy)

\* The configurations whose lists agree with their legend: each trigger of the
\* legend gives a number, and the policy of that number is the one it names.
LegendsAreOfTheLists ==
  \A c \in DOMAIN Cfg :
    LET Starts(id, model) ==
          id \in 0 .. Len(Cfg[c].policies) - 1 => Cfg[c].policies[id + 1].model = model
    IN  \A t \in DOMAIN Cfg[c].legend :
          /\ t # Nothing /\ Cfg[c].pipeline # "RlLocoMimicPipeline"
          /\ t \in DOMAIN Cfg[c].ctrl =>
               /\ Cfg[c].ctrl[t][1] = "[POLICY_SWITCH]"
               /\ Starts(Cfg[c].ctrl[t][2], Cfg[c].legend[t])
          /\ \A n \in DOMAIN Cfg[c].songs :
               LET song == Cfg[c].songs[n][1]
               IN  t = Heard(song) => Starts(PolicyOf(Cfg[c].songs, song), Cfg[c].legend[t])

\* A key, a button or a song starts the policy that the overlay, the docstring or
\* its name says it starts, however the lists of policies were put together.
OrdersKeepTheirPromise ==
  asked \in DOMAIN cfg.legend => policy.model = cfg.legend[asked]
=============================================================================
