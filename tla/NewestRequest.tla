---------------------------- MODULE NewestRequest ----------------------------
(***************************************************************************)
(* MultiPolicyPipeline with a history: the policy the newest command asked *)
(* for.  Requests land ten steps or one step after they are dispatched,    *)
(* several of them may be on their way at once and land in one tick; the   *)
(* property says where the robot ends up.                                  *)
(***************************************************************************)
EXTENDS MultiPolicyPipeline

VARIABLE newest  \* the policy asked for last, by a command or by a reset

\* The policy a command asks for when it is dispatched; an id that names no
\* policy asks for nothing.
Requested(c) ==
  IF c.kind = "toggle" THEN (current + 1) % NumPolicies
  ELSE IF c.kind \in {"switch", "direct", "safe"} THEN c.pid
  ELSE NoPolicy

NewestInit == Init /\ newest = current

\* [SIM_REBORN] asks for walking and cancels what was asked for before.
NewestBegin(cs) ==
  \/ ReadControls(cs) /\ UNCHANGED newest
  \/ SimReborn(cs) /\ newest' = Walk

NewestDispatch ==
  /\ Dispatch
  /\ newest' = IF Requested(commands[at]) \in Policy THEN Requested(commands[at]) ELSE newest

\* The gesture timer and the automatic sources ask through commands of the step.
NewestRest == (StartPostStep \/ Arbitrate \/ FinishStepActions) /\ UNCHANGED newest

NewestReset == (SelfChecked \/ PrepareReset) /\ newest' = current'

NewestClock == DeadlinePasses /\ UNCHANGED newest

NewestNext ==
  \/ \E cs \in CommandLists : NewestBegin(cs)
  \/ NewestDispatch
  \/ NewestRest
  \/ NewestReset
  \/ NewestClock

NewestSpec == NewestInit /\ [][NewestNext]_<<vars, newest>>

-----------------------------------------------------------------------------
\* Nothing is in flight: no switch scheduled, no dance waiting on Stand.
Settled == pc = "begin" /\ ~HasPending(timer) /\ pending = NoPolicy

\* Commands are always honoured by the dispatcher (the comment on the order of
\* the automatic sources): once everything has landed, the running policy is
\* the one the newest request asked for.
NewestRequestWins == Settled => current = newest

\* The pipelines NewestRequestWins is about, those in which all requests take the
\* same time.  Either each is direct, and no command of a step that asks for the
\* running policy can follow one that asks for another; or none is, and
\* no dance is staged on Stand.
NewestConfig ==
  \/ SkipPrime /\ MaxCommands <= 1
  \/ /\ ~SkipPrime
     /\ Mimic = {} \/ StandId = NoPolicy
     /\ \A c \in Commands : c.kind \notin {"direct", "safe"}

\* Why it holds.  What the timer will end on, whatever order it lands in.
EndsOn(t, cur, pid) ==
  /\ (\A d \in Slot : t[d] = <<>>) => cur = pid
  /\ \A d \in Slot :
       t[d] # <<>> /\ (\A e \in Slot : e > d => t[e] = <<>>) => t[d][Len(t[d])] = pid

\* Where all is direct, every switch lands in the tick of its own step, and what the
\* gesture timer and the automatic sources add to a step's one command asks
\* for another policy than the running one.
DirectInv ==
  /\ \A d \in Slot : d > 1 => timer[d] = <<>>
  /\ pc # "dispatch" \/ at = 1 => timer[1] = <<>>
  /\ pc = "start" => Len(commands) <= 1
  /\ pc \in {"arbitrate", "dispatch"} =>
       \A i \in 2 .. Len(commands) : \E pid \in Policy \ {current} : commands[i] = Switch(pid)

NewestInv ==
  /\ newest \in Policy
  /\ pending = NoPolicy
  /\ EndsOn(timer, current, newest)
  /\ IF SkipPrime THEN DirectInv
     ELSE \A i \in 1 .. Len(commands) : commands[i].kind \notin {"direct", "safe"}
=============================================================================
