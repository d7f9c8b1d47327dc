--------------------------- MODULE UnitreeController ---------------------------
(***************************************************************************)
(* The real robot's environment: UnitreeCppEnv and the C++ controller      *)
(* under it.  Two threads publish motor commands, both by taking the       *)
(* command in motor_command_buffer_ and writing it to the bus: the         *)
(* pipeline thread after every command it sets, and the recurrent writer   *)
(* thread, which repeats the last one.  The buffer has a lock; taking and  *)
(* writing are two steps, and nothing orders the two threads' writes.      *)
(*                                                                         *)
(* A command is a target with the gains it was set with.  The targets      *)
(* told apart are whose policy computed them, the blend of prepare(), and  *)
(* the zeros of shutdown().                                                *)
(***************************************************************************)
CONSTANTS
  Policy,        \* policies of the pipeline
  Initial,       \* the one it starts with
  Blend,         \* target of prepare()
  Zeros,         \* target of shutdown()
  DampingGains,  \* gains of shutdown()
  NoCommand      \* an empty buffer

ASSUME ControllerAssumption ==
  /\ Initial \in Policy
  /\ Blend \notin Policy
  /\ Zeros \notin Policy \cup {Blend}
  /\ DampingGains \notin Policy
  /\ NoCommand \notin [target : Policy \cup {Blend, Zeros},
                       gains : Policy \cup {DampingGains}]

VARIABLES
  phase,    \* prepare(), the run loop, or the end of the program
  pc,       \* where the pipeline thread is
  current,  \* the policy whose DoF configuration the environment has
  enabled,  \* UnitreeCppEnv.enabled
  gains,    \* stiffness_ and damping_
  buffer,   \* motor_command_buffer_
  taken,    \* the command each thread has taken and not yet written
  wire      \* the command published last

loopVars   == <<phase, pc, current>>
motorVars  == <<enabled, gains>>
vars == <<loopVars, motorVars, buffer, taken, wire>>

Thread  == {"pipeline", "writer"}
Command == [target : Policy \cup {Blend, Zeros}, gains : Policy \cup {DampingGains}]

\* The robot is told to damp: no stiffness, towards no target.
StopCommand == [target |-> Zeros, gains |-> DampingGains]

-----------------------------------------------------------------------------
(***************************************************************************)
(* UnitreeController                                                       *)
(***************************************************************************)

\* step(): the gains are captured with the target, under the buffer's lock.
SetCommand(command) ==
  /\ buffer' = command
  /\ pc' = "take"
  /\ UNCHANGED <<taken, wire>>

\* LowCommandWriter, called by the pipeline thread at the end of step().
PipelineTakes ==
  /\ pc = "take"
  /\ taken' = [taken EXCEPT !["pipeline"] = buffer]
  /\ pc' = "write"
  /\ UNCHANGED <<phase, current, motorVars, buffer, wire>>

PipelineWrites ==
  /\ pc = "write"
  /\ wire' = taken["pipeline"]
  /\ taken' = [taken EXCEPT !["pipeline"] = NoCommand]
  /\ pc' = "post"
  /\ UNCHANGED <<phase, current, motorVars, buffer>>

\* LowCommandWriter, run by the recurrent thread: nothing is written while the
\* buffer is empty.
WriterTakes ==
  /\ taken["writer"] = NoCommand
  /\ buffer # NoCommand
  /\ taken' = [taken EXCEPT !["writer"] = buffer]
  /\ UNCHANGED <<loopVars, motorVars, buffer, wire>>

WriterWrites ==
  /\ taken["writer"] # NoCommand
  /\ wire' = taken["writer"]
  /\ taken' = [taken EXCEPT !["writer"] = NoCommand]
  /\ UNCHANGED <<loopVars, motorVars, buffer>>

-----------------------------------------------------------------------------
(***************************************************************************)
(* UnitreeCppEnv, as the pipeline drives it                                *)
(***************************************************************************)
Target == IF phase = "prepare" THEN Blend ELSE current

\* Mutant: a command is set whether or not the environment is enabled.
IssueWhileDisabled ==
  /\ pc = "issue"
  /\ SetCommand([target |-> Target, gains |-> gains])
  /\ UNCHANGED <<phase, current, motorVars>>

\* env.step() of a step of the run loop, or of prepare() after its dry step.
Issue ==
  /\ pc = "issue"
  /\ enabled
  /\ SetCommand([target |-> Target, gains |-> gains])
  /\ UNCHANGED <<phase, current, motorVars>>

IssueNothing ==
  /\ pc = "issue"
  /\ ~enabled
  /\ pc' = "post"
  /\ UNCHANGED <<phase, current, motorVars, buffer, taken, wire>>

NextStep ==
  /\ pc = "post"
  /\ phase # "exit"
  /\ pc' = "issue"
  /\ phase' \in IF phase = "prepare" THEN {"prepare", "run"} ELSE {phase}
  /\ UNCHANGED <<current, motorVars, buffer, taken, wire>>

\* Mutant: the gains stay those of the policy before.
GainsKept(pid) == gains

\* set_gains() of the environment does nothing once it is shut down.
GainsFor(pid) == IF enabled THEN pid ELSE gains

\* A policy becomes the current one: its tick of the timer, or a reset().
SetPolicy(pid) ==
  /\ pc = "post"
  /\ phase # "exit"
  /\ current' = pid
  /\ gains' = GainsFor(pid)
  /\ UNCHANGED <<phase, pc, enabled, buffer, taken, wire>>

\* Mutants: shutdown() of unitree_cpp 1.0.1, which kept the policy's gains; a
\* shutdown() that leaves the environment enabled.
ShutdownKeepsGains(last) ==
  /\ pc = "post"
  /\ phase # "exit"
  /\ last => phase = "run"
  /\ enabled' = FALSE
  /\ pc' = "stop"
  /\ phase' = IF last THEN "exit" ELSE phase
  /\ UNCHANGED <<gains, current, buffer, taken, wire>>

ShutdownStaysEnabled(last) ==
  /\ pc = "post"
  /\ phase # "exit"
  /\ last => phase = "run"
  /\ gains' = DampingGains
  /\ pc' = "stop"
  /\ phase' = IF last THEN "exit" ELSE phase
  /\ UNCHANGED <<enabled, current, buffer, taken, wire>>

\* [SHUTDOWN], a fall seen by safety_check(), or, ending the program, a frame
\* that took far too long.
Shutdown(last) ==
  /\ pc = "post"
  /\ phase # "exit"
  /\ last => phase = "run"
  /\ enabled' = FALSE
  /\ gains' = DampingGains
  /\ pc' = "stop"
  /\ phase' = IF last THEN "exit" ELSE phase
  /\ UNCHANGED <<current, buffer, taken, wire>>

StopStep ==
  /\ pc = "stop"
  /\ SetCommand([target |-> Zeros, gains |-> gains])
  /\ UNCHANGED <<phase, current, motorVars>>

\* Ctrl+C, or an exception in a step: the loop ends with nothing said to the
\* controller, whose writer goes on until the process is gone.
Interrupted ==
  /\ pc \in {"issue", "post"}
  /\ pc' = "dead"
  /\ UNCHANGED <<phase, current, motorVars, buffer, taken, wire>>

-----------------------------------------------------------------------------
Init ==
  /\ phase = "prepare"
  /\ pc = "issue"
  /\ current = Initial
  /\ enabled = TRUE
  /\ gains = Initial
  /\ buffer = NoCommand
  /\ taken = [t \in Thread |-> NoCommand]
  /\ wire = NoCommand

Pipeline ==
  \/ Issue
  \/ IssueNothing
  \/ PipelineTakes
  \/ PipelineWrites
  \/ NextStep
  \/ \E pid \in Policy : SetPolicy(pid)
  \/ \E last \in BOOLEAN : Shutdown(last)
  \/ StopStep
  \/ Interrupted

Writer == WriterTakes \/ WriterWrites

Next == Pipeline \/ Writer

Spec == Init /\ [][Next]_vars

\* The recurrent thread runs every control_dt, and the stop that shutdown()
\* began is carried through; nothing is assumed of the step loop.
Fairness ==
  /\ WF_vars(Writer)
  /\ WF_vars(StopStep \/ PipelineTakes \/ PipelineWrites)

FairSpec == Spec /\ Fairness

-----------------------------------------------------------------------------
\* Types of the variables.
TypeOK ==
  /\ phase \in {"prepare", "run", "exit"}
  /\ pc \in {"issue", "take", "write", "post", "stop", "dead"}
  /\ current \in Policy
  /\ enabled \in BOOLEAN
  /\ gains \in Policy \cup {DampingGains}
  /\ buffer \in Command \cup {NoCommand}
  /\ taken \in [Thread -> Command \cup {NoCommand}]
  /\ wire \in Command \cup {NoCommand}

Matched(command) ==
  command # NoCommand /\ command.target \in Policy => command.gains = command.target

\* A policy's targets are published with its own gains, though switches change
\* the gains while the writer thread goes on repeating earlier commands.
GainsMatchTarget == Matched(wire)

\* Why it holds, and why the stop sticks.
ControllerInv ==
  /\ enabled => gains = current
  /\ Matched(buffer)
  /\ \A t \in Thread : Matched(taken[t])
  /\ Matched(wire)
  /\ buffer = StopCommand => ~enabled
  /\ \A t \in Thread : taken[t] = StopCommand => buffer = StopCommand
  /\ pc = "write" => taken["pipeline"] = buffer
  /\ pc \in {"take", "write"} => buffer # NoCommand
  /\ pc # "write" => taken["pipeline"] = NoCommand
  /\ pc = "stop" => ~enabled /\ gains = DampingGains

\* The stop the pipeline has given to the controller.
Stopped == buffer = StopCommand

link == IF ~Stopped THEN "running"
        ELSE IF taken["writer"] \in {NoCommand, StopCommand} THEN "stopped"
        ELSE "stopping"

Promised == INSTANCE MotorLink WITH Active <- Command \ {StopCommand},
                                    Damped <- StopCommand

\* The controller keeps the promises of MotorLink: after the stop at most one
\* command that was already taken is still written.
ImplementsMotorLink == Promised!Spec

\* After a shutdown the robot is, in the end and for good, commanded to damp.
\* (unitree_cpp 1.0.2: "shutdown as damping mode".)
StaysDamped == pc = "stop" ~> [](wire = StopCommand)
=============================================================================
