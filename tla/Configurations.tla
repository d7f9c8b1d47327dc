----------------------------- MODULE Configurations -----------------------------
(***************************************************************************)
(* The configurations of robojudo.config: which environment, controllers   *)
(* and policies a pipeline is built from, and what a key, a button or a    *)
(* song is said to start.  Python's inheritance is EXCEPT; of a policy's   *)
(* configuration the model it loads and its joints are kept.               *)
(***************************************************************************)
EXTENDS JointTables

-----------------------------------------------------------------------------
(* Environments *)

Numbered(names) == [p \in DOMAIN names |-> p - 1]

\* The joint behind each motor of a model or robot whose motors are in the
\* order of names.
MotorsOf(names) == [m \in {p - 1 : p \in DOMAIN names} |-> names[m + 1]]

\* joint2motor_idx = None: joint j is motor j.
Env(dof, is_sim) ==
  [dof |-> dof, is_sim |-> is_sim,
   joint2motor |-> Numbered(dof.joint_names),
   drives |-> MotorsOf(dof.joint_names)]

MujocoEnvCfg(dof)  == Env(dof, TRUE)
UnitreeEnvCfg(dof) == Env(dof, FALSE)

G1MujocoEnvCfg    == MujocoEnvCfg(G1_29DoF)
G1_23MujocoEnvCfg == MujocoEnvCfg(G1_23DoF)
G1_12MujocoEnvCfg == MujocoEnvCfg(G1_12DoF)
G1RealEnvCfg      == UnitreeEnvCfg(G1_29DoF)
H1MujocoEnvCfg    == MujocoEnvCfg(H1DoF)

H1Joint2Motor ==
  <<7, 3, 4, 5, 10, 8, 0, 1, 2, 11, 6, 16, 17, 18, 19, 12, 13, 14, 15>>

\* Motors of the H1 as its SDK numbers them; motor 9 is not used.
H1Motors ==
  LET legs == << <<"right", "hip_roll">>, <<"right", "hip_pitch">>,
                 <<"right", "knee">>, <<"left", "hip_roll">>,
                 <<"left", "hip_pitch">>, <<"left", "knee">>,
                 <<"waist", "torso">>, <<"left", "hip_yaw">>,
                 <<"right", "hip_yaw">>, <<"none", "none">>,
                 <<"left", "ankle">>, <<"right", "ankle">> >>
  IN  MotorsOf(legs \o On("right", ArmParts) \o On("left", ArmParts))

H1RealEnvCfg ==
  [UnitreeEnvCfg(H1DoF) EXCEPT !.joint2motor = H1Joint2Motor, !.drives = H1Motors]

-----------------------------------------------------------------------------
(* Policies *)

Policy(type, model, obs_dof, action_dof) ==
  [type |-> type, model |-> model, obs_dof |-> obs_dof, action_dof |-> action_dof]

UnitreePolicyCfg(name, dof)       == Policy("UnitreePolicy", name, dof, dof)
UnitreeWoGaitPolicyCfg(name, dof) == Policy("UnitreeWoGaitPolicy", name, dof, dof)
SmoothPolicyCfg(name, dof)        == Policy("SmoothPolicy", name, dof, dof)
H2HPolicyCfg(name, dof)           == Policy("H2HStudentPolicy", name, dof, dof)
AMOPolicyCfg(name, obs, dof)      == Policy("AMOPolicy", name, obs, dof)
AsapPolicyCfg(name, dof)          == Policy("AsapPolicy", name, dof, dof)
AsapLocoPolicyCfg(name, obs, dof) == Policy("AsapLocoPolicy", name, obs, dof)
KungfuBotGeneralPolicyCfg(name, dof) ==
  Policy("KungfuBotGeneralPolicy", name, dof, dof)
TwistPolicyCfg(name, dof)         == Policy("TwistPolicy", name, dof, dof)

\* use_modelmeta_config: the joints are those of the model's metadata.
BeyondMimicPolicyCfg(policy_name, use_modelmeta_config, override) ==
  LET dof == IF use_modelmeta_config THEN ModelMeta(policy_name) ELSE override
  IN  Policy("BeyondMimicPolicy", policy_name, dof, dof)

G1UnitreePolicyCfg       == UnitreePolicyCfg("policy_lstm_1", G1UnitreeDoF)
G1UnitreeWoGaitPolicyCfg ==
  UnitreeWoGaitPolicyCfg("policy_wo_gait", G1UnitreeWoGaitDoF)
G1AmoPolicyCfg    == AMOPolicyCfg("amo_jit", G1AmoDoF, G1AmoLowerDoF)
G1SmoothPolicyCfg == SmoothPolicyCfg("for_test-2000-jit", G1SmoothDoF)
G1H2HPolicyCfg    == H2HPolicyCfg("h2h", G1_21_H2HDoF)
G1TwistPolicyCfg  == TwistPolicyCfg("twist_general_motion_tracker", G1TwistDoF)
G1AsapPolicyCfg(policy_name) == AsapPolicyCfg(policy_name, G1_23AsapDoF)
G1AsapLocoPolicyCfg  == AsapLocoPolicyCfg("dec_loco", G1_29AsapDoF, G1_12AsapDoF)
G1KungfuBotPolicyCfg == AsapPolicyCfg("kongfu", G1_23KongfuBotDoF)
G1KungfuBotGeneralPolicyCfg ==
  KungfuBotGeneralPolicyCfg("horse_test_43000", G1_23KongfuGBotGeneralDoF)
G1BeyondMimicPolicyCfg(policy_name, use_modelmeta_config) ==
  BeyondMimicPolicyCfg(policy_name, use_modelmeta_config, G1BeyondMimicDoF)
ProtoMotionsTrackerPolicyCfg ==
  Policy("ProtoMotionsTrackerPolicy", "unified_pipeline", TrackerMeta, TrackerMeta)
H1UnitreePolicyCfg == UnitreePolicyCfg("motion", H1UnitreeDoF)
H1SmoothPolicyCfg  == SmoothPolicyCfg("train_default-14000-jit", H1SmoothDoF)
H1H2HPolicyCfg     == H2HPolicyCfg("h2h_release", H1H2HDoF)

Dance(name)   == G1BeyondMimicPolicyCfg(name, TRUE)
Dances(names) == [n \in DOMAIN names |-> Dance(names[n])]

-----------------------------------------------------------------------------
(* Controllers: the commands of a keyboard's keys or a pad's buttons *)

Key(k)     == [held |-> {}, button |-> k]
With(m, b) == [held |-> {m}, button |-> b]

Switch(id) == <<"[POLICY_SWITCH]", id>>
Command(c) == <<c>>

\* Keys in a row that ask for the policies from first on.
Row(keys, first) ==
  [t \in {Key(keys[n]) : n \in DOMAIN keys} |->
     Switch(first + Index(t.button, keys) - 1)]

KeyboardTriggers ==
  Key("esc") :> Command("[SHUTDOWN]") @@ Key("r") :> Command("[SIM_REBORN]") @@
  Key("<") :> Command("[MOTION_FADE_IN]") @@
  Key(">") :> Command("[MOTION_FADE_OUT]") @@
  Key("|") :> Command("[MOTION_RESET]") @@
  Key("{") :> Command("[MOTION_LOAD_PREV]") @@
  Key("}") :> Command("[MOTION_LOAD_NEXT]")

\* The joystick's and the Unitree remote's.
PadTriggers ==
  Key("A") :> Command("[SHUTDOWN]") @@ Key("X") :> Command("[MOTION_FADE_IN]") @@
  Key("B") :> Command("[MOTION_FADE_OUT]") @@ Key("Y") :> Command("[MOTION_RESET]")

\* Controller.__init__: triggers_extra is laid over triggers.
KeyboardCtrl(extra) == extra @@ KeyboardTriggers
PadCtrl(extra)      == extra @@ PadTriggers

NoCtrl == <<>>

-----------------------------------------------------------------------------
(* What every configuration has; the fields are the pipelines'. *)

RlPipelineCfg(env, ctrl, policy) ==
  [pipeline |-> "RlPipeline", env |-> env, ctrl |-> ctrl,
   policies |-> <<policy>>, initial_policy_id |-> 0, upper_dof |-> <<>>,
   override |-> {}, songs |-> <<>>, legend |-> <<>>]

RlMultiPolicyPipelineCfg(env, ctrl, policies) ==
  [RlPipelineCfg(env, ctrl, policies[1]) EXCEPT
     !.pipeline = "RlMultiPolicyPipeline", !.policies = policies]

\* The override's indices count from the end of the environment's joints.
FromTheEnd(env, indices) ==
  {Len(env.dof.joint_names) + 1 - i : i \in indices}

RlLocoMimicPipelineCfg(env, ctrl, loco, mimics) ==
  [RlPipelineCfg(env, ctrl, loco) EXCEPT
     !.pipeline = "RlLocoMimicPipeline", !.policies = <<loco>> \o mimics]

\* Mutant: the waist's yaw is taken to be one joint further.
UpperByOne(env) == FromTheEnd(env, {16} \cup 1 .. 14)

\* Waist yaw and arms, without waist roll and pitch.
UpperOverride(env) == FromTheEnd(env, {17} \cup 1 .. 14)

G1RlLocoMimicPipelineCfg(env, ctrl, loco, mimics) ==
  [RlLocoMimicPipelineCfg(env, ctrl, loco, mimics) EXCEPT
     !.upper_dof = [n \in DOMAIN G1Upper |-> <<"upper_dof_pos_default", G1Upper[n]>>],
     !.override = UpperOverride(env)]

-----------------------------------------------------------------------------
(* g1_cfg.py *)

g1 == RlPipelineCfg(G1MujocoEnvCfg, PadCtrl(NoCtrl), G1UnitreePolicyCfg)

\* "You can modify to play with other policies": those no configuration has, in
\* the smaller environments that g1 names in comments.
g1_with(env, policy) == RlPipelineCfg(env, PadCtrl(NoCtrl), policy)

g1_real == [g1 EXCEPT !.env = G1RealEnvCfg]

g1_switch ==
  RlMultiPolicyPipelineCfg(G1MujocoEnvCfg,
    PadCtrl(With("RB", "Down") :> Switch(0) @@ With("RB", "Up") :> Switch(1)),
    <<G1UnitreePolicyCfg, G1AmoPolicyCfg>>)

g1_locomimic ==
  RlLocoMimicPipelineCfg(G1MujocoEnvCfg,
    KeyboardCtrl(Key("]") :> Command("[POLICY_LOCO]") @@
                 Key("[") :> Command("[POLICY_MIMIC]")) @@
    PadCtrl(With("RB", "Down") :> Command("[POLICY_LOCO]") @@
            With("RB", "Up") :> Command("[POLICY_MIMIC]")),
    G1UnitreePolicyCfg, <<G1AsapPolicyCfg("CR7_level1")>>)

g1_h2h == RlPipelineCfg(G1MujocoEnvCfg, KeyboardCtrl(NoCtrl), G1H2HPolicyCfg)

g1_beyondmimic ==
  RlPipelineCfg(G1MujocoEnvCfg, KeyboardCtrl(NoCtrl),
                Dance("Jump_wose"))

g1_beyondmimic_with_ctrl ==
  [g1_beyondmimic EXCEPT !.policies = Dances(<<"Dance_wose">>)]

g1_asap ==
  RlPipelineCfg(G1MujocoEnvCfg,
    Key("r") :> Command("[SIM_REBORN]") @@ Key("o") :> Command("[SHUTDOWN]") @@
    Key("|") :> Command("[MOTION_RESET]"),
    G1AsapPolicyCfg("CR7_level1"))

g1_asap_loco ==
  RlPipelineCfg(G1MujocoEnvCfg,
    Key("i") :> Command("[SIM_REBORN]") @@ Key("o") :> Command("[SHUTDOWN]"),
    G1AsapLocoPolicyCfg)

g1_kungfubot2 ==
  RlPipelineCfg(G1MujocoEnvCfg, KeyboardCtrl(NoCtrl), G1KungfuBotGeneralPolicyCfg)

g1_twist == RlPipelineCfg(G1MujocoEnvCfg, NoCtrl, G1TwistPolicyCfg)

\* The digits, then the same keys with shift.
DigitKeys  == <<"1", "2", "3", "4", "5", "6", "7", "8", "9">>
ShiftKeys  == <<"!", "@", "#", "$", "%", "^", "&", "*", "(">>
ToggleKey  == Key("tab") :> Command("[POLICY_TOGGLE]")
DancePad   == With("RB", "Down") :> Switch(0) @@ With("RB", "Left") :> Switch(1) @@
              With("RB", "Up") :> Switch(2) @@ With("RB", "Right") :> Switch(3)

\* Mutant: a dance is put into the list before the others.
SwitchDancesShifted ==
  <<"Salsa_4", "bts_2_0_tracking_2", "bts_dynamite_tracking", "easy_sample",
    "Swim_tracking", "thriller", "salsa_tracking", "gdance",
    "thriller_locked_waist">>

SwitchDances ==
  <<"bts_2_0_tracking_2", "bts_dynamite_tracking", "easy_sample",
    "Swim_tracking", "thriller", "salsa_tracking", "gdance", "Salsa_4",
    "thriller_locked_waist">>

\* mujoco_overlay_legend: "w Walk | s Stand | 1 bts2 | 2 dynamite | ..."
SwitchLegend ==
  Key("w") :> "policy_lstm_1" @@ Key("s") :> "policy_wo_gait" @@
  Key("1") :> "bts_2_0_tracking_2" @@ Key("2") :> "bts_dynamite_tracking" @@
  Key("3") :> "easy_sample" @@ Key("4") :> "Swim_tracking" @@
  Key("5") :> "thriller" @@ Key("6") :> "salsa_tracking" @@
  Key("7") :> "gdance" @@ Key("8") :> "Salsa_4" @@
  Key("9") :> "thriller_locked_waist"

g1_switch_beyondmimic ==
  [RlMultiPolicyPipelineCfg(G1MujocoEnvCfg,
     KeyboardCtrl(ToggleKey @@ Row(<<"w", "s">>, 0) @@ Row(DigitKeys, 2) @@
                  Row(ShiftKeys, 2)) @@ PadCtrl(DancePad),
     <<G1UnitreePolicyCfg, G1UnitreeWoGaitPolicyCfg>> \o Dances(SwitchDances))
   EXCEPT !.legend = SwitchLegend]

SafeLegend ==
  Key("w") :> "policy_lstm_1" @@ Key("s") :> "policy_wo_gait" @@
  Key("1") :> "g1_29dof_gesti_10k" @@ Key("2") :> "g1_29dof_67_10k" @@
  Key("3") :> "salsa_tracking" @@ Key("4") :> "thriller" @@
  Key("5") :> "g1_29dof_67_safe" @@ Key("6") :> "g1_29dof_gesti_safe"

g1_switch_beyondmimic_gesti_safe ==
  [RlMultiPolicyPipelineCfg(G1MujocoEnvCfg,
     KeyboardCtrl(ToggleKey @@ Row(<<"w", "s">>, 0) @@
                  Key("i") :> Command("[SAFE_SNAPSHOT_SAVE]") @@
                  Row(<<"1", "2", "3", "4", "5", "6">>, 2) @@
                  Row(<<"g", "h">>, 6)) @@ PadCtrl(DancePad),
     <<G1UnitreePolicyCfg, G1UnitreeWoGaitPolicyCfg>> \o
     Dances(<<"g1_29dof_gesti_10k", "g1_29dof_67_10k", "salsa_tracking",
              "thriller", "g1_29dof_67_safe", "g1_29dof_gesti_safe">>))
   EXCEPT !.legend = SafeLegend]

\* song_to_policy, in its order: the first key a song's name contains decides.
SongToPolicy ==
  << <<"dynamite", 3>>, <<"swim", 5>>, <<"salsa4", 9>>, <<"salsa", 7>>,
     <<"bts", 2>>, <<"thriller", 6>>, <<"gdance", 8>> >>

\* The songs' dances.
SongLegend ==
  LET Heard(song) == [held |-> {"song"}, button |-> song]
  IN  Heard("dynamite") :> "bts_dynamite_tracking" @@
      Heard("swim") :> "Swim_tracking" @@ Heard("salsa4") :> "Salsa_4" @@
      Heard("salsa") :> "salsa_tracking" @@ Heard("bts") :> "bts_2_0_tracking_2" @@
      Heard("thriller") :> "thriller" @@ Heard("gdance") :> "gdance"

g1_shazam_beyondmimic ==
  [g1_switch_beyondmimic EXCEPT !.songs = SongToPolicy,
                                !.legend = SongLegend @@ SwitchLegend]

\* The HUD's legend is still the inherited one, of other policies: it is not
\* taken as a promise.
g1_shazam_remote_listener ==
  RlMultiPolicyPipelineCfg(G1MujocoEnvCfg,
    KeyboardCtrl(ToggleKey @@ Key("w") :> Switch(0) @@ Key("s") :> Switch(0) @@
                 Row(<<"2", "3", "4">>, 2) @@ Row(<<"@", "#", "$">>, 2)) @@
    PadCtrl(With("RB", "Down") :> Switch(0) @@ With("RB", "Up") :> Switch(2) @@
            With("RB", "Right") :> Switch(3)),
    <<G1UnitreeWoGaitPolicyCfg, G1UnitreeWoGaitPolicyCfg>> \o
    Dances(<<"salsa_tracking", "bts_dynamite_tracking", "thriller">>))

\* Its one controller is the socket to the listener.
g1_shazam_remote_listener_headless ==
  [g1_shazam_remote_listener EXCEPT !.ctrl = NoCtrl]

g1_protomotions_tracker ==
  RlPipelineCfg(G1MujocoEnvCfg, KeyboardCtrl(NoCtrl), ProtoMotionsTrackerPolicyCfg)

g1_protomotions_tracker_real ==
  [g1_protomotions_tracker EXCEPT !.env = G1RealEnvCfg, !.ctrl = PadCtrl(NoCtrl)]

-----------------------------------------------------------------------------
(* g1_loco_mimic_cfg.py and g1_custom_cfg.py *)

LocoMimicKeys ==
  Key("i") :> Command("[SIM_REBORN]") @@ Key("o") :> Command("[SHUTDOWN]") @@
  Key("l") :> Command("[POLICY_LOCO]") @@ Key("m") :> Command("[POLICY_MIMIC]") @@
  Key("n") :> Command("[POLICY_NEXT]") @@ Key("b") :> Command("[POLICY_LAST]")

LocoMimicPad ==
  Key("A") :> Command("[SHUTDOWN]") @@ Key("Select") :> Command("[POLICY_LOCO]") @@
  Key("Start") :> Command("[POLICY_MIMIC]") @@
  Key("R1") :> Command("[POLICY_NEXT]") @@ Key("L1") :> Command("[POLICY_LAST]")

g1_locomimic_beyondmimic ==
  G1RlLocoMimicPipelineCfg(G1MujocoEnvCfg, LocoMimicKeys, G1AmoPolicyCfg,
    Dances(<<"Dance_wose", "Violin", "Waltz", "RaiseHandSideWalk">>))

g1_locomimic_asap ==
  G1RlLocoMimicPipelineCfg(G1MujocoEnvCfg, LocoMimicKeys, G1AsapLocoPolicyCfg,
    <<G1AsapPolicyCfg("CR7_level1"), G1AsapPolicyCfg("robomimic"),
      G1KungfuBotPolicyCfg>>)

g1_locomimic_beyondmimic_real ==
  [g1_locomimic_beyondmimic EXCEPT !.env = G1RealEnvCfg, !.ctrl = LocoMimicPad]

g1_locomimic_asap_real ==
  [g1_locomimic_asap EXCEPT !.env = G1RealEnvCfg, !.ctrl = LocoMimicPad]

\* The mimic policies are those of asap.yaml.
g1_locomimic_asap_full ==
  LET mimics == <<"APT_level1", "CR7_level1", "jump_forward_level1",
                  "kick_level1", "Kobe_level1", "lebron_level1",
                  "side_jump_level1">>
  IN  G1RlLocoMimicPipelineCfg(G1MujocoEnvCfg, LocoMimicKeys, G1AsapLocoPolicyCfg,
        [n \in DOMAIN mimics |-> G1AsapPolicyCfg(mimics[n])])

g1_dev == RlPipelineCfg(G1_23MujocoEnvCfg, KeyboardCtrl(NoCtrl), G1UnitreePolicyCfg)

\* The docstring: "X -> gesti, Up -> salsa, ..."
GestiLegend ==
  Key("X") :> "g1_29dof_gesti" @@ Key("Up") :> "salsa_tracking" @@
  Key("Left") :> "bts_dynamite_tracking" @@ Key("Right") :> "thriller" @@
  Key("Down") :> "g1_29dof_67_10k" @@ Key("L1") :> "Violin" @@
  Key("B") :> "policy_wo_gait"

\* The remote has no "V": that key is a second name for Left's policy.
g1_gesti_multi_real ==
  [RlMultiPolicyPipelineCfg(G1RealEnvCfg,
     Key("A") :> Command("[SHUTDOWN]") @@ Key("Y") :> Command("[MOTION_RESET]") @@
     Row(<<"B", "X", "Up", "Left", "Right", "Down", "L1">>, 0) @@
     Key("V") :> Switch(3),
     <<G1UnitreeWoGaitPolicyCfg>> \o
     Dances(<<"g1_29dof_gesti", "salsa_tracking", "bts_dynamite_tracking",
              "thriller", "g1_29dof_67_10k", "Violin">>))
   EXCEPT !.legend = GestiLegend]

-----------------------------------------------------------------------------
(* h1_cfg.py and h1_custom_cfg.py *)

h1 ==
  RlPipelineCfg(H1MujocoEnvCfg, PadCtrl(NoCtrl) @@ KeyboardCtrl(NoCtrl),
                H1UnitreePolicyCfg)

h1_real == [h1 EXCEPT !.env = H1RealEnvCfg, !.ctrl = PadCtrl(NoCtrl)]

\* "L1" is the Unitree remote's name: no press of the joystick makes this
\* trigger, the tab key does what it is for.
h1_switch ==
  RlMultiPolicyPipelineCfg(H1MujocoEnvCfg,
    KeyboardCtrl(ToggleKey) @@
    PadCtrl(With("L1", "Y") :> Command("[POLICY_TOGGLE]")),
    <<H1UnitreePolicyCfg, H1SmoothPolicyCfg>>)

h1_h2h == RlPipelineCfg(H1MujocoEnvCfg, KeyboardCtrl(NoCtrl), H1H2HPolicyCfg)

h1_dev ==
  RlPipelineCfg(H1MujocoEnvCfg, PadCtrl(NoCtrl) @@ KeyboardCtrl(NoCtrl),
                H1SmoothPolicyCfg)

-----------------------------------------------------------------------------
\* cfg_registry: what run_pipeline.py can be started with.
cfg_registry ==
  "g1" :> g1 @@ "g1_real" :> g1_real @@ "g1_switch" :> g1_switch @@
  "g1_locomimic" :> g1_locomimic @@ "g1_h2h" :> g1_h2h @@
  "g1_beyondmimic" :> g1_beyondmimic @@
  "g1_beyondmimic_with_ctrl" :> g1_beyondmimic_with_ctrl @@
  "g1_asap" :> g1_asap @@ "g1_asap_loco" :> g1_asap_loco @@
  "g1_kungfubot2" :> g1_kungfubot2 @@ "g1_twist" :> g1_twist @@
  "g1_switch_beyondmimic" :> g1_switch_beyondmimic @@
  "g1_switch_beyondmimic_gesti_safe" :> g1_switch_beyondmimic_gesti_safe @@
  "g1_shazam_beyondmimic" :> g1_shazam_beyondmimic @@
  "g1_shazam_remote_listener" :> g1_shazam_remote_listener @@
  "g1_shazam_remote_listener_headless" :> g1_shazam_remote_listener_headless @@
  "g1_protomotions_tracker" :> g1_protomotions_tracker @@
  "g1_protomotions_tracker_real" :> g1_protomotions_tracker_real @@
  "g1_locomimic_beyondmimic" :> g1_locomimic_beyondmimic @@
  "g1_locomimic_asap" :> g1_locomimic_asap @@
  "g1_locomimic_beyondmimic_real" :> g1_locomimic_beyondmimic_real @@
  "g1_locomimic_asap_real" :> g1_locomimic_asap_real @@
  "g1_locomimic_asap_full" :> g1_locomimic_asap_full @@ "g1_dev" :> g1_dev @@
  "g1_gesti_multi_real" :> g1_gesti_multi_real @@ "h1" :> h1 @@
  "h1_real" :> h1_real @@ "h1_switch" :> h1_switch @@ "h1_h2h" :> h1_h2h @@
  "h1_dev" :> h1_dev @@
  "g1, 12 joints, smooth" :> g1_with(G1_12MujocoEnvCfg, G1SmoothPolicyCfg) @@
  "g1, 12 joints, no gait" :>
    g1_with(G1_12MujocoEnvCfg, G1UnitreeWoGaitPolicyCfg) @@
  "g1, 23 joints, no metadata" :>
    g1_with(G1_23MujocoEnvCfg, G1BeyondMimicPolicyCfg("Jump_wose", FALSE))
=============================================================================
