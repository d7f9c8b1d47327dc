---------------------------- MODULE PolicyManager ----------------------------
(***************************************************************************)
(* The PolicyManager of the multi-policy pipeline and the StepTimer it     *)
(* owns: which policy drives the robot, the switches that are scheduled    *)
(* but have not landed, and the policies being warmed up meanwhile.        *)
(*                                                                         *)
(* The StepTimer keeps one list of (delay, task) pairs in insertion order. *)
(* Every task is `set_policy(pid)' and every tick takes one off each       *)
(* delay, so the list is kept here split by remaining delay: timer[d] is   *)
(* the sequence of policies that land in d ticks, oldest request first.    *)
(* The order of two tasks matters only when they land in the same tick.    *)
(***************************************************************************)
EXTENDS Integers, Sequences

CONSTANTS
  NumPolicies,        \* number of entries of cfg.policies
  DELAY_STEPS_SWITCH  \* steps between an ordinary request and its landing

ASSUME PolicyManagerAssumption ==
  /\ NumPolicies \in Nat \ {0}
  /\ DELAY_STEPS_SWITCH \in Nat \ {0}

DELAY_STEPS_SWITCH_FAST == 1

VARIABLES
  current,  \* _current_policy_id
  timer,    \* timer._tasks, by remaining delay
  warmup,   \* warmup_policy_indices
  done      \* policies whose flag_motion_done is set

managerVars == <<current, timer, warmup, done>>

Policy   == 0 .. NumPolicies - 1
NoPolicy == NumPolicies  \* None: an id no policy has

Slot == 1 .. DELAY_STEPS_SWITCH

-----------------------------------------------------------------------------
(***************************************************************************)
(* StepTimer                                                               *)
(***************************************************************************)
EmptyTimer == [d \in Slot |-> <<>>]

AddTask(t, pid, delay) == [t EXCEPT ![delay] = Append(@, pid)]

HasPending(t) == \E d \in Slot : t[d] # <<>>

\* Mutant: only the last task of a tick takes its policy off the warmup set.
DueLast(t) == IF t[1] = <<>> THEN {} ELSE {t[1][Len(t[1])]}

\* A tick runs the tasks of slot 1, in order, and moves every other slot down.
Due(t) == {t[1][i] : i \in 1 .. Len(t[1])}

Ticked(t) == [d \in Slot |-> IF d < DELAY_STEPS_SWITCH THEN t[d + 1] ELSE <<>>]

\* The policies some scheduled task will land on.
Scheduled(t) == {p \in Policy : \E d \in Slot : \E i \in 1 .. Len(t[d]) : t[d][i] = p}

-----------------------------------------------------------------------------
(***************************************************************************)
(* PolicyManager                                                           *)
(***************************************************************************)

\* Mutant: the first task of a tick decides.
LandedFirst(t, cur) == IF t[1] = <<>> THEN cur ELSE t[1][1]

\* set_policy overwrites the current policy, so of the tasks a tick runs the
\* last one decides what the step ends on.
Landed(t, cur) == IF t[1] = <<>> THEN cur ELSE t[1][Len(t[1])]

\* The policy is reset when the switch is requested, not when it lands.
SwitchPolicy(pid, delay) ==
  /\ timer' = AddTask(timer, pid, delay)
  /\ warmup' = warmup \cup {pid}
  /\ done' = done \ {pid}

ManagerInit(pid) ==
  /\ current = pid
  /\ timer = EmptyTimer
  /\ done = {}

ManagerTypeOK ==
  /\ current \in Policy
  /\ timer \in [Slot -> Seq(Policy)]
  /\ warmup \in SUBSET Policy
  /\ done \in SUBSET Policy
=============================================================================
