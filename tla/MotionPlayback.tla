--------------------------- MODULE MotionPlayback ---------------------------
(***************************************************************************)
(* Where the robot's reference motion comes from, by configuration: the    *)
(* policy itself (or BeyondMimicCtrl beside it), a motion library          *)
(* (MotionCtrl and its kin), or a Redis stream.  A pipeline has one of     *)
(* them; the others do not move.                                           *)
(***************************************************************************)
EXTENDS MotionPlayers, MotionCtrl, TwistRedisCtrl

VARIABLE source  \* "policy", "library" or "redis"
vars == <<source, playerVars, ctrlVars, redisVars>>

Init ==
  /\ source \in {"policy", "library", "redis"}
  /\ PlayersInit /\ CtrlInit /\ RedisInit
  \* one configuration of what is not used
  /\ source # "policy" => motion = CHOOSE m \in Motions : TRUE
  /\ source # "library" => ratio = 0 /\ ~lookAhead

Next ==
  /\ UNCHANGED source
  /\ \/ source = "policy" /\ PlayersNext /\ UNCHANGED <<ctrlVars, redisVars>>
     \/ source = "library" /\ CtrlNext /\ UNCHANGED <<playerVars, redisVars>>
     \/ source = "redis" /\ RedisNext /\ UNCHANGED <<playerVars, ctrlVars>>

LibraryStep ==
  source = "library" /\ PipelineStep /\ UNCHANGED <<source, lookAhead, playerVars, redisVars>>
\* The step that ends the list of a step's commands.
LibraryStepOver ==
  source = "library" /\ StepOver /\ UNCHANGED <<source, lookAhead, playerVars, redisVars>>

\* The pipeline's loop goes on whatever the commands are, threads and timers get
\* their turn.
Fairness ==
  /\ WF_vars(source = "policy" /\ PolicyStep(<<>>) /\ UNCHANGED <<source, ctrlVars, redisVars>>)
  /\ WF_vars(LibraryStep) /\ SF_vars(LibraryStepOver)
  /\ \A l \in Loads :
       WF_vars(source = "library" /\ LoaderTurn(l) /\ UNCHANGED <<source, lookAhead, playerVars, redisVars>>)
  /\ \A c \in Fades :
       WF_vars(source = "library" /\ FadeTurn(c) /\ UNCHANGED <<source, lookAhead, playerVars, redisVars>>)
  \* a pipeline that resets its controllers steps again before the next reset
  /\ SF_vars(source = "redis" /\ buffer # <<>> /\ GetReference /\ UNCHANGED <<source, playerVars, ctrlVars>>)
  /\ WF_vars(source = "redis" /\ Connected /\ UNCHANGED <<source, playerVars, ctrlVars>>)
  /\ SF_vars(source = "redis" /\ Poll /\ UNCHANGED <<source, playerVars, ctrlVars>>)

Spec == Init /\ [][Next]_vars /\ Fairness
=============================================================================
