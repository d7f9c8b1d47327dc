------------------------------ MODULE UnitreeEnv ------------------------------
(***************************************************************************)
(* The Python environment of the real robot.  Its pipeline thread and its  *)
(* recurrent "control" thread share one low_cmd object with no lock: the   *)
(* pipeline overwrites it field by field, and both put a checksum in it    *)
(* and publish it.  The robot drops a message whose checksum is not that   *)
(* of its content, so a torn command is accepted when the checksum was     *)
(* taken of the torn content.                                              *)
(*                                                                         *)
(* low_cmd is a row of cells, two per motor in the order control_joints    *)
(* writes them: its target, then its gains.  A cell holds the number of    *)
(* the command it was written for.                                         *)
(***************************************************************************)
EXTENDS Naturals

CONSTANTS
  NumDofs,  \* motors
  MaxSteps  \* bound: commands of the pipeline

ASSUME EnvAssumption == NumDofs \in Nat \ {0} /\ MaxSteps \in Nat

VARIABLES
  pc,        \* where each thread is
  number,    \* number of the newest command
  at,        \* cell the pipeline writes next
  enabled,   \* UnitreeEnv.enabled
  low_cmd,   \* the shared command
  crc,       \* the content low_cmd.crc was computed of
  accepted   \* the message the robot accepted last

envVars == <<number, at, enabled, low_cmd>>
vars == <<pc, envVars, crc, accepted>>

Thread == {"pipeline", "control"}
Cell   == 1 .. 2 * NumDofs

\* The number of the command of shutdown(), however often it is given.
Damping == MaxSteps + 1

-----------------------------------------------------------------------------
(***************************************************************************)
(* send_cmd                                                                *)
(***************************************************************************)
Checksum(t) ==
  /\ pc[t] = "checksum"
  /\ crc' = low_cmd
  /\ pc' = [pc EXCEPT ![t] = "write"]
  /\ UNCHANGED <<envVars, accepted>>

\* The pipeline thread leaves shutdown() with the environment disabled.
Write(t) ==
  /\ pc[t] = "write"
  /\ accepted' = IF crc = low_cmd THEN low_cmd ELSE accepted
  /\ pc' = [pc EXCEPT ![t] = IF t = "control" THEN "checksum" ELSE "idle"]
  /\ enabled' = (enabled /\ ~(t = "pipeline" /\ number = Damping))
  /\ UNCHANGED <<number, at, low_cmd, crc>>

-----------------------------------------------------------------------------
(***************************************************************************)
(* step() and shutdown() of the pipeline thread                            *)
(***************************************************************************)
Fill(n) ==
  /\ pc["pipeline"] = "idle"
  /\ number' = n
  /\ at' = 1
  /\ pc' = [pc EXCEPT !["pipeline"] = "fill"]
  /\ UNCHANGED <<enabled, low_cmd, crc, accepted>>

\* Mutant: a disabled environment goes on commanding.
ControlUnchecked == number # MaxSteps /\ Fill((number + 1) % Damping)

\* control_joints: a disabled environment commands nothing.
ControlJoints == enabled /\ number < MaxSteps /\ Fill(number + 1)

\* [SHUTDOWN] or a fall, any number of times.
SetDampingMode == Fill(Damping)

\* Mutant: the loop ends one motor early.
LastCellEarly == 2 * NumDofs - 2

LastCell == 2 * NumDofs

WriteCell ==
  /\ pc["pipeline"] = "fill"
  /\ at <= LastCell
  /\ low_cmd' = [low_cmd EXCEPT ![at] = number]
  /\ at' = at + 1
  /\ UNCHANGED <<pc, number, enabled, crc, accepted>>

Filled ==
  /\ pc["pipeline"] = "fill"
  /\ at > LastCell
  /\ pc' = [pc EXCEPT !["pipeline"] = "checksum"]
  /\ UNCHANGED <<envVars, crc, accepted>>

-----------------------------------------------------------------------------
Init ==
  /\ pc = [t \in Thread |-> IF t = "control" THEN "checksum" ELSE "idle"]
  /\ number = 0
  /\ at = 1
  /\ enabled = TRUE
  /\ low_cmd = [c \in Cell |-> 0]
  /\ crc = low_cmd
  /\ accepted = low_cmd

Send == \E t \in Thread : Checksum(t) \/ Write(t)

Next == ControlJoints \/ SetDampingMode \/ WriteCell \/ Filled \/ Send

Spec == Init /\ [][Next]_vars

\* Both threads run on; nothing is assumed of what the pipeline asks for.
Fairness ==
  /\ WF_vars(WriteCell \/ Filled \/ Checksum("pipeline") \/ Write("pipeline"))
  /\ WF_vars(Checksum("control") \/ Write("control"))

FairSpec == Spec /\ Fairness

-----------------------------------------------------------------------------
\* Types of the variables.
TypeOK ==
  /\ pc \in [Thread -> {"idle", "fill", "checksum", "write"}]
  /\ pc["control"] \in {"checksum", "write"}
  /\ number \in 0 .. Damping
  /\ at \in 1 .. 2 * NumDofs + 1
  /\ enabled \in BOOLEAN
  /\ {low_cmd, crc, accepted} \subseteq [Cell -> 0 .. Damping]

\* A message is the newest of two consecutive commands on its first cells and
\* the one before it on the others.
Torn(message) ==
  \E old, new \in 0 .. Damping, k \in Cell :
    /\ new \in {old, old + 1, Damping}
    /\ \A c \in Cell : message[c] = IF c <= k THEN new ELSE old

Damped(message) == \A c \in Cell : message[c] = Damping

\* The robot may accept a torn command, even one motor's target under the gains
\* of the command before (control_joints and send_cmd share low_cmd unlocked),
\* but it never mixes more than two commands, and those are consecutive.
TearsAreNeighbours == Torn(accepted)

\* Why a shutdown holds: what is published after a command has been filled in is
\* all of that command, and a disabled environment has been filled with damping.
FilledInv ==
  /\ pc["pipeline"] = "fill" => \A c \in Cell : c < at => low_cmd[c] = number
  /\ pc["pipeline"] \in {"checksum", "write"} => \A c \in Cell : low_cmd[c] = number
  /\ ~enabled => number = Damping /\ Damped(low_cmd)

\* Once shutdown() has returned the robot accepts nothing but its command,
\* though the control thread goes on publishing the same object.
DampedAfterShutdown ==
  [][~enabled /\ accepted' # accepted => Damped(accepted')]_vars

\* And in the end that is the command it goes by, for good.
StaysDamped == number = Damping ~> []Damped(accepted)
=============================================================================
