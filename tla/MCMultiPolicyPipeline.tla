----------------------- MODULE MCMultiPolicyPipeline -----------------------
(***************************************************************************)
(* Instances of MultiPolicyPipeline for TLC, one per shipped family of     *)
(* configurations, with a bound on the commands of a behaviour.            *)
(***************************************************************************)
EXTENDS NewestRequest

CONSTANTS
  MaxIssued  \* bound: commands the controllers report in one behaviour

ASSUME MaxIssued \in Nat

VARIABLE issued  \* commands reported so far

mcVars == <<vars, newest, issued>>

-----------------------------------------------------------------------------
(***************************************************************************)
(* Command sets                                                            *)
(***************************************************************************)
Cmd(kind, pid) == [kind |-> kind, pid |-> pid]

Switches(S) == {Cmd("switch", p) : p \in S}
Directs(S)  == {Cmd("direct", p) : p \in S}
Safes(S)    == {Cmd("safe", p) : p \in S}
Others(S)   == {Cmd(k, NoPolicy) : k \in S}

\* g1_gesti_multi_real: 0 Stand (fallback), 1 the gesture, 2 a dance.
RealCommands == Switches({0, 1, 2}) \cup Others({"gesti", "motion_reset"})
RealMimic    == {1, 2}
RealWoGait   == {0}

\* g1_switch_beyondmimic: 0 Walk (fallback), 1 Stand, 2 and 3 dances.
SimCommands     == Switches({0, 1, 2, 3}) \cup Others({"toggle", "reborn"})
SimMimic        == {2, 3}
SimWoGait       == {1}
DanceAndWalk    == Switches({0, 2})

\* g1_switch_beyondmimic_gesti_safe: no prime, SAFE windows on the dances.
SafeCommands == Switches({0, 2, 4}) \cup Directs({1}) \cup Safes({2, 3})
                  \cup {Cmd("token", 3)} \cup Others({"motion_reset"})

-----------------------------------------------------------------------------
MCInit == NewestInit /\ issued = 0

MCBegin == \E cs \in CommandLists :
  /\ issued + Len(cs) <= MaxIssued
  /\ NewestBegin(cs)
  /\ issued' = issued + Len(cs)

MCRest == (NewestDispatch \/ NewestRest) /\ UNCHANGED issued

MCReset == NewestReset /\ UNCHANGED issued

MCClock == NewestClock /\ UNCHANGED issued

MCNext == MCBegin \/ MCRest \/ MCReset \/ MCClock

MCSpec == MCInit /\ [][MCNext]_mcVars

\* As Fairness: the bound on the commands never keeps a step from beginning, and
\* the resets need no fairness.
MCFairSpec == MCSpec /\ WF_mcVars(MCBegin \/ MCRest) /\ WF_mcVars(MCClock)

=============================================================================
