-------------------------------- MODULE Cockpit --------------------------------
(***************************************************************************)
(* A robot's controller and its pipeline: what the loop over the button    *)
(* events makes of a step's presses is what the pipeline carries out.      *)
(*                                                                         *)
(* The loop runs in one configuration, Piloted; in the others a trigger is *)
(* given as such.                                                          *)
(***************************************************************************)
EXTENDS ControllerInput, Commissioning

CONSTANT
  Piloted   \* the configuration whose buttons are pressed one by one

\* The pressed combinations with a command are those of its controller.
ASSUME CockpitAssumption ==
  Piloted \in DOMAIN Cfg /\ Triggers \subseteq DOMAIN Cfg[Piloted].ctrl

padVars == vars

\* The controllers exist, and their threads run, before the constructor's end.
Use ==
  /\ config = Piloted
  /\ Press \/ Release
  /\ UNCHANGED pipelineVars

\* get_ctrl_data, once a step.
Take ==
  /\ phase # "built"
  /\ GetEvents
  /\ UNCHANGED pipelineVars

\* The event the loop is at, and the trigger it makes with what is held.
Here        == taken[button_event[index]]
TriggerHere == [held |-> onhold_buttons, button |-> Here.button]

Orders == Fires(Here) /\ AboutPolicies(cfg.ctrl[TriggerHere])

LookOnly     == ~Idle /\ ~Orders /\ LookAt /\ UNCHANGED pipelineVars
LookAndOrder ==
  ~Idle /\ Orders /\ LookAt /\ Order(TriggerHere, cfg.ctrl[TriggerHere])

\* reset() drains the controllers' queues too.
Start        == Construct /\ ResetInput
ResetAll     == PrepareReset /\ ResetInput

Proceed ==
  /\ Idle
  /\ PrepareStep \/ PrepareDone \/ Step
  /\ UNCHANGED padVars

Given ==
  /\ config # Piloted
  /\ Trigger \/ Hear
  /\ UNCHANGED padVars

CockpitInit == Init /\ PipelineInit

CockpitNext ==
  Use \/ Take \/ LookOnly \/ LookAndOrder \/ Start \/ ResetAll \/ Proceed \/ Given

CockpitSpec == CockpitInit /\ [][CockpitNext]_<<padVars, pipelineVars>>
=============================================================================
