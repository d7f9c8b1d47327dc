------------------------------ MODULE JointTables ------------------------------
(***************************************************************************)
(* The joint tables of the shipped configurations.  A value is known by    *)
(* the table that gives it and the joint it is written for, so that a      *)
(* value at another joint, or of another table, is seen.                   *)
(***************************************************************************)
EXTENDS DofAdapter, TLC

On(side, parts) == [n \in DOMAIN parts |-> <<side, parts[n]>>]

Gains    == {"default_pos", "stiffness", "damping"}
Limited  == Gains \cup {"torque_limits"}
Complete == Limited \cup {"position_limits"}

Values(table, names, props) ==
  [k \in props |-> [n \in DOMAIN names |-> <<table, names[n]>>]]

\* A table of class DoFConfig.
Table(table, names, props) ==
  [joint_names |-> names, prop |-> Values(table, names, props)]

\* A table that redefines properties of another.
Redefine(base, table, props) ==
  [base EXCEPT !.prop = Values(table, base.joint_names, props) @@ @]

-----------------------------------------------------------------------------
(* Unitree G1 *)
LegParts   == <<"hip_pitch", "hip_roll", "hip_yaw", "knee",
                "ankle_pitch", "ankle_roll">>
ArmParts   == <<"shoulder_pitch", "shoulder_roll", "shoulder_yaw", "elbow">>
WristParts == <<"wrist_roll", "wrist_pitch", "wrist_yaw">>

G1Legs  == On("left", LegParts) \o On("right", LegParts)
Waist   == On("waist", <<"yaw", "roll", "pitch">>)
Arms    == On("left", ArmParts) \o On("right", ArmParts)
G1Upper == Waist \o On("left", ArmParts \o WristParts)
                 \o On("right", ArmParts \o WristParts)

G1_29DoF == Table("G1_29DoF", G1Legs \o G1Upper, Complete)

G1_23DoF == Pick(G1_29DoF,
  G1Legs \o On("waist", <<"yaw">>) \o On("left", ArmParts \o <<"wrist_roll">>)
         \o On("right", ArmParts \o <<"wrist_roll">>))

G1_12DoF == Pick(G1_29DoF, G1Legs)

G1UnitreeDoF == Table("G1UnitreeDoF", G1Legs, Limited)

\* The order of Isaac Lab: level by level from the pelvis, left before right.
LevelByLevel ==
  << <<"left", "hip_pitch">>, <<"right", "hip_pitch">>, <<"waist", "yaw">>,
     <<"left", "hip_roll">>, <<"right", "hip_roll">>, <<"waist", "roll">>,
     <<"left", "hip_yaw">>, <<"right", "hip_yaw">>, <<"waist", "pitch">>,
     <<"left", "knee">>, <<"right", "knee">>,
     <<"left", "shoulder_pitch">>, <<"right", "shoulder_pitch">>,
     <<"left", "ankle_pitch">>, <<"right", "ankle_pitch">>,
     <<"left", "shoulder_roll">>, <<"right", "shoulder_roll">>,
     <<"left", "ankle_roll">>, <<"right", "ankle_roll">>,
     <<"left", "shoulder_yaw">>, <<"right", "shoulder_yaw">>,
     <<"left", "elbow">>, <<"right", "elbow">>,
     <<"left", "wrist_roll">>, <<"right", "wrist_roll">>,
     <<"left", "wrist_pitch">>, <<"right", "wrist_pitch">>,
     <<"left", "wrist_yaw">>, <<"right", "wrist_yaw">> >>

G1UnitreeWoGaitDoF == Table("G1UnitreeWoGaitDoF", LevelByLevel, Gains)

G1BeyondMimicDoF == Table("G1BeyondMimicDoF", LevelByLevel, Gains)

\* The table in a BeyondMimic model's metadata.
ModelMeta(policy_name) == Table(policy_name, LevelByLevel, Gains)

G1AmoDoF == Table("G1AmoDoF", G1Legs \o Waist \o Arms, Limited)

G1AmoLowerDoF == Pick(G1AmoDoF, G1Legs \o Waist)

G1_29AsapDoF == Table("G1_29AsapDoF", G1Legs \o G1Upper, Complete)

G1_23AsapDoF == Pick(G1_29AsapDoF, G1Legs \o Waist \o Arms)

G1_12AsapDoF == Pick(G1_29AsapDoF, G1Legs)

G1_29KongfuBotDoF == Redefine(G1_29AsapDoF, "G1_29KongfuBotDoF", Gains)

G1_23KongfuBotDoF == Pick(G1_29KongfuBotDoF, G1Legs \o Waist \o Arms)

G1_23KongfuGBotGeneralDoF ==
  Table("G1_23KongfuGBotGeneralDoF", G1Legs \o Waist \o Arms, Gains)

G1_21_H2HDoF ==
  Table("G1_21_H2HDoF", G1Legs \o On("waist", <<"yaw">>) \o Arms, Gains)

G1SmoothDoF ==
  Table("G1SmoothDoF", G1Legs \o On("waist", <<"yaw">>) \o Arms, Limited)

G1TwistDoF == Table("G1TwistDoF", G1Legs \o Waist \o Arms, Limited)

\* The table in the metadata beside a tracker's model; the limits are optional.
TrackerMeta == Table("unified_pipeline", G1Legs \o G1Upper, Limited)

-----------------------------------------------------------------------------
(* Unitree H1 *)
H1LegParts == <<"hip_yaw", "hip_roll", "hip_pitch", "knee", "ankle">>
H1Legs     == On("left", H1LegParts) \o On("right", H1LegParts)
H1Joints   == H1Legs \o On("waist", <<"torso">>) \o Arms

H1DoF == Table("H1DoF", H1Joints, Complete)

H1UnitreeDoF == Table("H1UnitreeDoF", H1Legs, Gains)

H1SmoothDoF == Table("H1SmoothDoF", H1Joints, Limited)

H1H2HDoF == Table("H1H2HDoF", H1Joints, Gains)
=============================================================================
