------------------------ MODULE MCShazamArbitration ------------------------
(***************************************************************************)
(* Instances of ShazamArbitration for TLC: g1_shazam_beyondmimic (0 Walk,  *)
(* 1 Stand, 2 and 3 dances, no Stand prime) and the same with the prime,   *)
(* with a bound on the commands of a behaviour.                            *)
(***************************************************************************)
EXTENDS ShazamArbitration

CONSTANTS
  MaxIssued  \* bound: commands the controllers report in one behaviour

ASSUME MaxIssued \in Nat

VARIABLES
  issued  \* commands reported so far

mcVars == <<allVars, issued>>

-----------------------------------------------------------------------------
Cmd(kind, pid) == [kind |-> kind, pid |-> pid]

UserCommands == {Cmd("switch", 1), Cmd("switch", 3), Cmd("reborn", NoPolicy)}
DanceCommand == {Cmd("switch", 3)}
Nothing      == {}

Dances    == {2, 3}
Dance     == {2}
Stand     == {1}

\* Each song its dance; "salsa" may also be without one, by a wrong rule.
PlainRules == [s \in {"bts", "salsa"} |-> IF s = "bts" THEN {2} ELSE {3}]
WrongRules == [s \in {"bts", "salsa"} |-> IF s = "bts" THEN {2} ELSE {3, 9}]
TwoSongs   == {"bts", "salsa"}

TwoChunks   == {1, 2}
ThreeChunks == {1, 2, 3}

-----------------------------------------------------------------------------
MCInit == ShazamInit /\ issued = 0

MCBegin == \E cs \in CommandLists :
  /\ issued + Len(cs) <= MaxIssued
  /\ ShazamRead(cs) \/ ShazamReborn(cs)
  /\ issued' = issued + Len(cs)

MCLoop ==
  /\ ShazamStartPostStep \/ ArbitrationStep \/ ShazamRestOfStep
  /\ UNCHANGED issued

MCReset == ShazamReset /\ UNCHANGED issued

MCClock == (QueueClock \/ LastGrowsOld) /\ UNCHANGED issued

MCSources == (Watcher \/ SegmentElapses) /\ UNCHANGED issued

MCNext == MCBegin \/ MCLoop \/ MCReset \/ MCClock \/ MCSources

MCSpec == MCInit /\ [][MCNext]_mcVars

\* The step loop goes on and time passes; no chunk or command has to come.
MCFairSpec == MCSpec /\ WF_mcVars(MCBegin \/ MCLoop) /\ WF_mcVars(MCClock)
=============================================================================
