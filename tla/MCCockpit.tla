------------------------------- MODULE MCCockpit -------------------------------
(***************************************************************************)
(* Cockpit with every shipped configuration, and the buttons of g1_switch: *)
(* its modifier, the two that name a policy with it and two that have      *)
(* commands of their own.                                                  *)
(***************************************************************************)
EXTENDS Cockpit

Shipped == INSTANCE Configurations

Registry   == Shipped!cfg_registry
Modifiers  == {"RB"}
Buttons    == Modifiers \cup {"Up", "Down", "X"}
\* The triggers of the piloted configuration that these buttons can make.
PadButtons ==
  {t \in DOMAIN Registry[Piloted].ctrl :
     t.held \subseteq Modifiers /\ t.button \in Buttons}
=============================================================================
