---------------------------- MODULE ControllerInput ----------------------------
(***************************************************************************)
(* A button controller (JoystickCtrl, or KeyboardCtrl without modifiers):  *)
(* the device's thread puts every press and release in event_queue, and    *)
(* once a step the pipeline thread takes all of them and looks at them     *)
(* one after another for commands.                                         *)
(*                                                                         *)
(* process_triggers removes an event that gave a command from the list it  *)
(* is iterating over, so the event behind it moves to the place already    *)
(* looked at and is passed over.                                           *)
(***************************************************************************)
EXTENDS Naturals, Sequences, SequencesExt

CONSTANTS
  Button,     \* buttons or keys of the device
  Modifier,   \* combination_init_buttons
  Triggers,   \* combinations with a command
  OnRelease,  \* commands are given on release (the keyboard), not on press
  QueueSize,  \* maxsize of event_queue
  MaxEvents   \* bound: presses and releases of a behaviour

ASSUME InputAssumption ==
  /\ Modifier \subseteq Button
  /\ Triggers \subseteq [held : SUBSET Modifier, button : Button]
  /\ OnRelease \in BOOLEAN
  /\ QueueSize \in Nat \ {0}
  /\ MaxEvents \in Nat

VARIABLES
  down,            \* buttons that are down
  events,          \* presses and releases so far
  event_queue,     \* events not taken yet
  taken,           \* the events the step has taken
  button_event,    \* positions in taken of the events still in the list
  index,           \* the iteration's index into button_event
  onhold_buttons,  \* modifiers held, as the controller knows
  fired,           \* positions of the events that gave a command
  looked,          \* history: positions of the events looked at
  reported,        \* history: buttons down by the events taken since reset()
  lost             \* history: some event was passed over since reset()

deviceVars == <<down, events>>
stepVars   == <<taken, button_event, index, fired, looked>>
vars == <<deviceVars, event_queue, stepVars, onhold_buttons, reported, lost>>

Event == [button : Button, pressed : BOOLEAN]

-----------------------------------------------------------------------------
\* The device's thread waits while the queue is full.
Put(button, pressed) ==
  /\ events < MaxEvents
  /\ events' = events + 1
  /\ Len(event_queue) < QueueSize
  /\ event_queue' = Append(event_queue, [button |-> button, pressed |-> pressed])
  /\ down' = IF pressed THEN down \cup {button} ELSE down \ {button}
  /\ UNCHANGED <<stepVars, onhold_buttons, reported, lost>>

Press   == \E b \in Button \ down : Put(b, TRUE)
Release == \E b \in down : Put(b, FALSE)

Idle == index > Len(button_event)

\* get_events: whatever is queued.
GetEvents ==
  /\ Idle
  /\ event_queue # <<>>
  /\ taken' = event_queue
  /\ event_queue' = <<>>
  /\ button_event' = [n \in 1 .. Len(event_queue) |-> n]
  /\ index' = 1
  /\ fired' = {}
  /\ looked' = {}
  /\ UNCHANGED <<deviceVars, onhold_buttons, reported, lost>>

\* Mutant: a released modifier is still on hold.
HeldForGood(e) ==
  IF e.button \notin Modifier THEN onhold_buttons
  ELSE onhold_buttons \cup {e.button}

HeldAfter(e) ==
  IF e.button \notin Modifier THEN onhold_buttons
  ELSE IF e.pressed THEN onhold_buttons \cup {e.button}
  ELSE onhold_buttons \ {e.button}

Fires(e) ==
  /\ e.button \notin Modifier
  /\ e.pressed # OnRelease
  /\ [held |-> onhold_buttons, button |-> e.button] \in Triggers

\* Mutant: every event looked at is removed.
Consumed(e) == RemoveAt(button_event, index)

\* The list the iteration goes on over.
Remaining(e) ==
  IF Fires(e) THEN RemoveAt(button_event, index) ELSE button_event

ReportedAfter(e) ==
  IF e.pressed THEN reported \cup {e.button} ELSE reported \ {e.button}

\* One turn of the loop of process_triggers.  The history also follows the
\* event that this turn makes the loop pass over.
LookAt ==
  /\ ~Idle
  /\ LET n == button_event[index]
         e == taken[n]
         passed == button_event' # button_event /\ index <= Len(button_event')
         behind == taken[button_event'[index]]
     IN  /\ onhold_buttons' = HeldAfter(e)
         /\ button_event' = Remaining(e)
         /\ fired' = IF Fires(e) THEN fired \cup {n} ELSE fired
         /\ looked' = looked \cup {n}
         /\ lost' = (lost \/ passed)
         /\ reported' = IF ~passed THEN ReportedAfter(e)
                        ELSE IF behind.pressed
                        THEN ReportedAfter(e) \cup {behind.button}
                        ELSE ReportedAfter(e) \ {behind.button}
  /\ index' = index + 1
  /\ UNCHANGED <<deviceVars, event_queue, taken>>

\* reset(), between two steps.
ResetInput ==
  /\ Idle
  /\ onhold_buttons' = {}
  /\ event_queue' = <<>>
  /\ reported' = {}
  /\ lost' = FALSE
  /\ UNCHANGED <<deviceVars, stepVars>>

-----------------------------------------------------------------------------
Init ==
  /\ down = {}
  /\ events = 0
  /\ event_queue = <<>>
  /\ taken = <<>>
  /\ button_event = <<>>
  /\ index = 1
  /\ onhold_buttons = {}
  /\ fired = {}
  /\ looked = {}
  /\ reported = {}
  /\ lost = FALSE

Next == Press \/ Release \/ GetEvents \/ LookAt \/ ResetInput

Spec == Init /\ [][Next]_vars

-----------------------------------------------------------------------------
\* The loop of process_triggers loses an event only when the event right before
\* it in the same step gave a command: an event that arrives alone, or behind
\* events without a command, always counts.
LostOnlyBehindACommand ==
  Idle => \A n \in 1 .. Len(taken) : n \notin looked => n - 1 \in fired

\* As long as none is lost, the modifiers the controller holds are those that
\* the events it has taken leave down.
HoldsWhatIsReported == ~lost => onhold_buttons = reported \cap Modifier
=============================================================================
