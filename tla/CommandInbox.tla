---------------------------- MODULE CommandInbox ----------------------------
(***************************************************************************)
(* What both TCP controllers of the robot keep behind their lock: a        *)
(* bounded deque of command lines.  The socket thread appends to it, the   *)
(* pipeline's step takes all of it, the pipeline's reset forgets it, and   *)
(* it does not outlive the robot's program.                                *)
(***************************************************************************)
EXTENDS Naturals, Sequences

CONSTANTS
  Line,         \* the command lines there are
  QueueMaxlen   \* queue_maxlen

ASSUME InboxAssumption == QueueMaxlen \in Nat \ {0}

VARIABLES
  up,     \* the robot's program runs
  inbox,  \* _queue
  taken   \* what process_triggers() gave the pipeline last

inboxVars == <<up, inbox, taken>>

\* A full deque drops its oldest line.
Enqueued(q, line) ==
  Append(IF Len(q) = QueueMaxlen THEN Tail(q) ELSE q, line)

\* _consume_line(), _enqueue(): a line of the socket reaches the deque.
Enqueue(line) ==
  /\ inbox' = Enqueued(inbox, line)
  /\ UNCHANGED <<up, taken>>

\* The pipeline's step asks the controller for its commands.
ProcessTriggers ==
  /\ up
  /\ taken' = inbox
  /\ inbox' = <<>>
  /\ UNCHANGED up

\* The pipeline is reset.
ClearInbox ==
  /\ up
  /\ inbox' = <<>>
  /\ UNCHANGED <<up, taken>>

\* The robot's program ends, whatever it was doing, and starts again.
InboxLost ==
  /\ up
  /\ up' = FALSE
  /\ inbox' = <<>>
  /\ taken' = <<>>

InboxBack ==
  /\ ~up
  /\ up' = TRUE
  /\ UNCHANGED <<inbox, taken>>

InboxInit ==
  /\ up = TRUE
  /\ inbox = <<>>
  /\ taken = <<>>
=============================================================================
