------------------------------- MODULE MotorLink -------------------------------
(***************************************************************************)
(* What an environment of the real robot promises of the motor commands it *)
(* publishes, whatever its threads do in between: until the stop, whole    *)
(* commands of the pipeline; once the stop is given, the damping command,  *)
(* save for at most one command that was already on its way.  Active,      *)
(* Damped and NoCommand are told apart by the modules that instantiate it. *)
(***************************************************************************)
CONSTANTS
  Active,     \* commands that drive the robot
  Damped,     \* the command of the stop
  NoCommand   \* nothing published yet

VARIABLES
  link,  \* running, stopping (one command still on its way) or stopped
  wire   \* the command published last

linkVars == <<link, wire>>

Init == link = "running" /\ wire = NoCommand

Publish ==
  /\ link = "running"
  /\ wire' \in Active
  /\ UNCHANGED link

Stop ==
  /\ link = "running"
  /\ link' \in {"stopping", "stopped"}
  /\ UNCHANGED wire

PublishLate ==
  /\ link = "stopping"
  /\ wire' \in Active
  /\ link' = "stopped"

PublishDamped ==
  /\ link # "running"
  /\ wire' = Damped
  /\ UNCHANGED link

Next == Publish \/ Stop \/ PublishLate \/ PublishDamped

Spec == Init /\ [][Next]_linkVars

\* Once stopped, the damping command is published in the end, and for good.
FairSpec == Spec /\ WF_linkVars(PublishLate) /\ WF_linkVars(PublishDamped)
=============================================================================
