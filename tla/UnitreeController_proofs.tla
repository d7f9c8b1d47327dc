------------------------ MODULE UnitreeController_proofs ------------------------
(***************************************************************************)
(* Proofs that, for every set of policies, the C++ controller publishes a  *)
(* policy's targets with that policy's gains, keeps the promises of        *)
(* MotorLink, and damps in the end when it is shut down.  ControllerInv is *)
(* the inductive invariant they rest on.                                   *)
(***************************************************************************)
EXTENDS UnitreeController, TLAPS

Inv == TypeOK /\ ControllerInv

\* The commands the pipeline sets while enabled are matched, and differ from
\* the stop's and from the empty buffer.
LEMMA Commands ==
  ASSUME NEW t \in Policy \cup {Blend}, NEW g \in Policy
  PROVE  /\ [target |-> t, gains |-> g] \in Command \ {StopCommand}
         /\ StopCommand \in Command
         /\ NoCommand \notin Command
         /\ StopCommand # NoCommand
BY ControllerAssumption DEF Command, StopCommand

\* The invariant holds at the start.
LEMMA InitInv == Init => Inv
BY ControllerAssumption DEF Init, Inv, TypeOK, ControllerInv, Matched, Command,
       StopCommand, Thread

\* Every step preserves it.
LEMMA NextInv == ASSUME Inv, [Next]_vars PROVE Inv'
<1> USE DEF Inv, TypeOK, ControllerInv, loopVars, motorVars
<1>0. StopCommand \in Command /\ NoCommand \notin Command /\ Matched(StopCommand)
      /\ StopCommand.target = Zeros /\ Matched(NoCommand)
  BY ControllerAssumption DEF Command, StopCommand, Matched
<1>1. CASE Issue
  <2> DEFINE c == [target |-> Target, gains |-> gains]
  <2>1. gains = current /\ Target \in Policy \cup {Blend} /\ Target \in {current, Blend}
    BY <1>1 DEF Issue, Target
  <2>2. c \in Command /\ c # StopCommand /\ c # NoCommand
    BY <2>1, Commands
  <2>3. Matched(c)
    BY <2>1, ControllerAssumption DEF Matched
  <2> QED
    BY <1>0, <1>1, <2>2, <2>3 DEF Issue, SetCommand, Matched
<1>2. CASE IssueNothing
  BY <1>2 DEF IssueNothing, Matched
<1>3. CASE PipelineTakes
  BY <1>3 DEF PipelineTakes, Matched, Thread
<1>4. CASE PipelineWrites
  BY <1>0, <1>4 DEF PipelineWrites, Matched, Thread
<1>5. CASE NextStep
  BY <1>5 DEF NextStep, Matched
<1>6. ASSUME NEW pid \in Policy, SetPolicy(pid) PROVE Inv'
  BY <1>6 DEF SetPolicy, GainsFor, Matched
<1>7. ASSUME NEW last \in BOOLEAN, Shutdown(last) PROVE Inv'
  BY <1>7 DEF Shutdown, Matched
<1>8. CASE StopStep
  <2>1. [target |-> Zeros, gains |-> gains] = StopCommand
    BY <1>8 DEF StopStep, StopCommand
  <2> QED
    BY <1>0, <1>8, <2>1 DEF StopStep, SetCommand, Matched
<1>9. CASE Interrupted
  BY <1>9 DEF Interrupted, Matched
<1>10. CASE WriterTakes
  BY <1>10 DEF WriterTakes, Matched, Thread
<1>11. CASE WriterWrites
  BY <1>0, <1>11 DEF WriterWrites, Matched, Thread
<1>12. CASE UNCHANGED vars
  BY <1>12 DEF vars, Matched
<1> QED
  BY <1>1, <1>2, <1>3, <1>4, <1>5, <1>6, <1>7, <1>8, <1>9, <1>10, <1>11, <1>12
     DEF Next, Pipeline, Writer

\* The variables keep their types and the invariant holds, for every set of
\* policies.
THEOREM ControllerCorrect == Spec => [](TypeOK /\ ControllerInv)
<1>1. Init => Inv
  BY InitInv
<1>2. Inv /\ [Next]_vars => Inv'
  BY NextInv
<1> QED
  BY <1>1, <1>2, PTL DEF Spec, Inv

\* A policy's targets are always published with its own gains.
THEOREM GainsCorrect == Spec => []GainsMatchTarget
<1>1. TypeOK /\ ControllerInv => GainsMatchTarget
  BY DEF ControllerInv, GainsMatchTarget
<1> QED
  BY <1>1, ControllerCorrect, PTL

-----------------------------------------------------------------------------
\* A command taken before the stop is one of the pipeline's.
LEMMA ActiveCommand ==
  ASSUME NEW c \in Command, c # StopCommand
  PROVE  c \in Command \ {StopCommand}
OBVIOUS

\* Every step of the controller is a step of MotorLink, or changes neither the
\* bus nor what may still be written to it.
LEMMA LinkStep ==
  ASSUME TypeOK, ControllerInv, [Next]_vars
  PROVE  [Promised!Next]_(Promised!linkVars)
<1> USE DEF Stopped, link, Promised!linkVars
<1> DEFINE Stutters == UNCHANGED <<link, wire>>
<1>0. StopCommand \in Command /\ NoCommand \notin Command /\ NoCommand # StopCommand
  BY ControllerAssumption DEF Command, StopCommand
<1>1. CASE Issue
  <2> DEFINE c == [target |-> Target, gains |-> gains]
  <2>1. c # StopCommand
    BY <1>1, Commands DEF Issue, Target, TypeOK, ControllerInv
  <2>2. ~Stopped /\ ~Stopped'
    BY <1>1, <2>1 DEF Issue, SetCommand, ControllerInv
  <2> QED
    BY <1>1, <2>2 DEF Issue, SetCommand
<1>2. CASE StopStep
  <2>1. Stopped' /\ UNCHANGED <<taken, wire>>
    BY <1>2 DEF StopStep, SetCommand, StopCommand, ControllerInv
  <2>2. CASE Stopped
    BY <2>1, <2>2
  <2>3. CASE ~Stopped
    BY <2>1, <2>3 DEF Promised!Next, Promised!Stop
  <2> QED
    BY <2>2, <2>3
<1>3. CASE PipelineWrites
  <2>1. wire' = buffer /\ buffer \in Command /\ UNCHANGED buffer
    BY <1>3 DEF PipelineWrites, TypeOK, ControllerInv
  <2>2. taken'["writer"] = taken["writer"]
    BY <1>3 DEF PipelineWrites, TypeOK, Thread
  <2>3. UNCHANGED link
    BY <2>1, <2>2
  <2>4. CASE Stopped
    BY <2>1, <2>3, <2>4 DEF Promised!Next, Promised!PublishDamped
  <2>5. CASE ~Stopped
    BY <2>1, <2>3, <2>5 DEF Promised!Next, Promised!Publish
  <2> QED
    BY <2>4, <2>5
<1>4. CASE WriterWrites
  <2>1. taken["writer"] \in Command /\ wire' = taken["writer"] /\ UNCHANGED buffer
    BY <1>4 DEF WriterWrites, TypeOK, Thread
  <2>2. taken'["writer"] = NoCommand
    BY <1>4 DEF WriterWrites, TypeOK, Thread
  <2>3. CASE ~Stopped
    <3>1. taken["writer"] # StopCommand
      BY <2>3 DEF ControllerInv, Thread
    <3> QED
      BY <2>1, <2>2, <2>3, <3>1 DEF Promised!Next, Promised!Publish
  <2>4. CASE Stopped /\ taken["writer"] = StopCommand
    BY <2>1, <2>2, <2>4 DEF Promised!Next, Promised!PublishDamped
  <2>5. CASE Stopped /\ taken["writer"] # StopCommand
    BY <1>0, <2>1, <2>2, <2>5 DEF Promised!Next, Promised!PublishLate
  <2> QED
    BY <2>3, <2>4, <2>5
<1>5. CASE WriterTakes
  BY <1>5 DEF WriterTakes, TypeOK, Thread
<1>6. CASE PipelineTakes
  BY <1>6 DEF PipelineTakes, TypeOK, Thread
<1>7. CASE IssueNothing \/ NextStep \/ Interrupted
  BY <1>7 DEF IssueNothing, NextStep, Interrupted
<1>8. CASE \E pid \in Policy : SetPolicy(pid)
  BY <1>8 DEF SetPolicy
<1>9. CASE \E last \in BOOLEAN : Shutdown(last)
  BY <1>9 DEF Shutdown
<1>10. CASE UNCHANGED vars
  BY <1>10 DEF vars
<1> QED
  BY <1>1, <1>2, <1>3, <1>4, <1>5, <1>6, <1>7, <1>8, <1>9, <1>10
     DEF Next, Pipeline, Writer

\* The controller implements MotorLink: once the stop is given, nothing but the
\* damping command is published, save for one command already on its way.
THEOREM ControllerImplementsMotorLink == Spec => ImplementsMotorLink
<1>1. Init => Promised!Init
  BY ControllerAssumption DEF Init, Promised!Init, link, Stopped, StopCommand
<1>2. TypeOK /\ ControllerInv /\ [Next]_vars => [Promised!Next]_(Promised!linkVars)
  BY LinkStep
<1> QED
  BY <1>1, <1>2, ControllerCorrect, PTL DEF Spec, ImplementsMotorLink, Promised!Spec

-----------------------------------------------------------------------------
\* ENABLED of the two fair actions, where their threads stand at them: the writer
\* has a command to take or to write, the pipeline one to stop with or to publish.
StepsAreTaken ==
  /\ buffer # NoCommand \/ taken["writer"] # NoCommand => ENABLED <<Writer>>_vars
  /\ pc \in {"stop", "take", "write"} =>
       ENABLED <<StopStep \/ PipelineTakes \/ PipelineWrites>>_vars

\* The writer holds nothing older than the stop; it holds the stop; it wrote it.
Flushed == Stopped /\ taken["writer"] \in {NoCommand, StopCommand}
DampingNext == Flushed /\ taken["writer"] = StopCommand
Damps == Flushed /\ wire = StopCommand

\* From the stop on: each of these lasts, or gives way to the next one, and the
\* writer's next step leads there.
LEMMA AfterStop ==
  ASSUME Inv, [Next]_vars
  PROVE  /\ pc = "stop" => (pc = "stop" \/ Stopped)'
         /\ pc = "stop" /\ StopStep => Stopped'
         /\ Stopped => Stopped'
         /\ Flushed => Flushed'
         /\ Stopped /\ Writer => Flushed'
         /\ Flushed /\ Writer => (DampingNext \/ Damps)'
         /\ DampingNext => (DampingNext \/ Damps)'
         /\ DampingNext /\ Writer => Damps'
         /\ Damps => Damps'
<1> USE DEF Inv, TypeOK, ControllerInv, loopVars, motorVars, Stopped, Flushed, DampingNext, Damps
<1>0. StopCommand \in Command /\ NoCommand \notin Command /\ NoCommand # StopCommand
  BY ControllerAssumption DEF Command, StopCommand
<1>w. Writer => taken' # taken
  BY <1>0 DEF Writer, WriterTakes, WriterWrites, Thread
<1>1. CASE Issue
  <2> DEFINE c == [target |-> Target, gains |-> gains]
  <2>1. c # StopCommand
    BY <1>1, Commands DEF Issue, Target
  <2>2. ~Stopped /\ ~Stopped' /\ pc # "stop" /\ ~Writer
    BY <1>0, <1>1, <2>1 DEF Issue, SetCommand, Writer, WriterTakes, WriterWrites
  <2> QED
    BY <1>1, <2>2 DEF Issue, SetCommand, StopStep
<1>2. CASE IssueNothing
  BY <1>0, <1>2 DEF IssueNothing, Writer, WriterTakes, WriterWrites, StopStep, SetCommand
<1>3. CASE PipelineTakes
  BY <1>0, <1>3 DEF PipelineTakes, Thread, Writer, WriterTakes, WriterWrites, StopStep, SetCommand
<1>4. CASE PipelineWrites
  BY <1>0, <1>4 DEF PipelineWrites, Thread, Writer, WriterTakes, WriterWrites, StopStep, SetCommand
<1>5. CASE NextStep
  BY <1>0, <1>5 DEF NextStep, Writer, WriterTakes, WriterWrites, StopStep, SetCommand
<1>6. CASE Interrupted
  BY <1>0, <1>6 DEF Interrupted, Writer, WriterTakes, WriterWrites, StopStep, SetCommand
<1>7. CASE WriterTakes
  BY <1>0, <1>7 DEF WriterTakes, Thread, Writer, WriterTakes, WriterWrites, StopStep, SetCommand
<1>8. CASE WriterWrites
  BY <1>0, <1>8 DEF WriterWrites, Thread, Writer, WriterTakes, WriterWrites, StopStep, SetCommand
<1>9. CASE UNCHANGED vars
  BY <1>0, <1>w, <1>9 DEF vars, StopStep, SetCommand
<1>10. CASE StopStep
  BY <1>0, <1>10 DEF StopStep, StopCommand, SetCommand, Writer, WriterTakes, WriterWrites
<1>11. CASE \E pid \in Policy : SetPolicy(pid)
  BY <1>0, <1>w, <1>11 DEF SetPolicy, StopStep, SetCommand
<1>12. CASE \E last \in BOOLEAN : Shutdown(last)
  BY <1>0, <1>12 DEF Shutdown, Writer, WriterTakes, WriterWrites, StopStep, SetCommand
<1> QED
  BY <1>1, <1>2, <1>3, <1>4, <1>5, <1>6, <1>7, <1>8, <1>9, <1>10, <1>11, <1>12 DEF Next, Pipeline, Writer

\* A shutdown damps, and for good: for every set of policies, whatever the two
\* threads had taken when it came, if both go on and the fair steps can be taken
\* where their threads stand at them (StepsAreTaken).
THEOREM ShutdownDamps == FairSpec /\ []StepsAreTaken => StaysDamped
<1>1. Spec => []Inv
  BY ControllerCorrect DEF Inv
<1>2. Inv /\ [Next]_vars /\ pc = "stop" => (pc = "stop" \/ Stopped)'
  BY AfterStop
<1>3. Inv /\ [Next]_vars /\ pc = "stop" /\ <<StopStep \/ PipelineTakes \/ PipelineWrites>>_vars => Stopped'
  BY AfterStop DEF PipelineTakes, PipelineWrites
<1>4. Inv /\ [Next]_vars /\ Stopped => Stopped'
  BY AfterStop
<1>5. Inv /\ [Next]_vars /\ Stopped /\ <<Writer>>_vars => Flushed'
  BY AfterStop
<1>6. Inv /\ [Next]_vars /\ Flushed => Flushed'
  BY AfterStop
<1>7. Inv /\ [Next]_vars /\ Flushed /\ <<Writer>>_vars => (DampingNext \/ Damps)'
  BY AfterStop
<1>8. Inv /\ [Next]_vars /\ DampingNext => (DampingNext \/ Damps)'
  BY AfterStop
<1>9. Inv /\ [Next]_vars /\ DampingNext /\ <<Writer>>_vars => Damps'
  BY AfterStop
<1>10. Inv /\ [Next]_vars /\ Damps => Damps'
  BY AfterStop
<1>11. Damps => wire = StopCommand
  BY DEF Damps
<1>12. Stopped /\ StepsAreTaken => ENABLED <<Writer>>_vars
  BY ControllerAssumption DEF Stopped, StopCommand, Command, StepsAreTaken
<1>13. pc = "stop" /\ StepsAreTaken => ENABLED <<StopStep \/ PipelineTakes \/ PipelineWrites>>_vars
  BY DEF StepsAreTaken
<1>14. Flushed => Stopped
  BY DEF Flushed
<1>15. DampingNext => Flushed
  BY DEF DampingNext
<1>16. FairSpec /\ []StepsAreTaken => [](pc = "stop" => <>Stopped)
  BY <1>1, <1>2, <1>3, <1>13, PTL DEF FairSpec, Fairness, Spec
<1>17. FairSpec /\ []StepsAreTaken => [](Stopped => <>[]Damps)
  BY <1>1, <1>4, <1>5, <1>6, <1>7, <1>8, <1>9, <1>10, <1>12, <1>14, <1>15, PTL DEF FairSpec, Fairness, Spec
<1> QED
  BY <1>11, <1>16, <1>17, PTL DEF StaysDamped
=============================================================================
