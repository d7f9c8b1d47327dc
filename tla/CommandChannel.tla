--------------------------- MODULE CommandChannel ---------------------------
(***************************************************************************)
(* What the two links promise between them: the lines of a sender reach    *)
(* the robot's deque in the order they were sent and none of them twice,   *)
(* nothing else reaches it, and while the robot's program runs a line is   *)
(* lost only to a connection that the robot has left, one line to each.    *)
(*                                                                         *)
(* Where the robot serves, a connection comes up with a line, and the      *)
(* robot leaves it only after it has read that line: no two lines of a     *)
(* sender are lost in a row.  Where the robot connects, it may leave many  *)
(* connections before a line is sent, and each of them then takes one.     *)
(***************************************************************************)
EXTENDS CommandInbox

CONSTANT Sender

VARIABLES
  serves,  \* whether the robot serves (it never changes)
  saying,  \* of each sender, the line it is sending: a sequence of one or none
  flight,  \* of each sender, the lines on their way
  link,    \* its connection at the robot: "none", "open", or found "silent"
  left,    \* the connections the robot has left and the sender has not noticed
  gone     \* the senders that have ended

channelVars == <<inboxVars, serves, saying, flight, link, left, gone>>

Init ==
  /\ InboxInit
  /\ serves \in BOOLEAN
  /\ saying = [s \in Sender |-> <<>>]
  /\ flight = [s \in Sender |-> <<>>]
  /\ link = [s \in Sender |-> "none"]
  /\ left = [s \in Sender |-> 0]
  /\ gone = {}

-----------------------------------------------------------------------------
(***************************************************************************)
(* A line                                                                  *)
(***************************************************************************)

Say(s) ==
  /\ s \notin gone /\ saying[s] = <<>>
  /\ \E line \in Line : saying' = [saying EXCEPT ![s] = <<line>>]
  /\ UNCHANGED <<inboxVars, serves, flight, link, left, gone>>

\* It is on its way, once every connection that was left has taken its line.
Send(s) ==
  /\ saying[s] # <<>> /\ left[s] = 0
  /\ serves \/ link[s] = "open"
  /\ flight' = [flight EXCEPT ![s] = Append(@, saying[s][1])]
  /\ link' = [link EXCEPT ![s] = IF @ = "none" THEN "open" ELSE @]
  /\ saying' = [saying EXCEPT ![s] = <<>>]
  /\ UNCHANGED <<inboxVars, serves, left, gone>>

\* A connection that was left takes it.
Swallow(s) ==
  /\ saying[s] # <<>> /\ left[s] > 0
  /\ left' = [left EXCEPT ![s] = @ - 1]
  /\ saying' = [saying EXCEPT ![s] = <<>>]
  /\ UNCHANGED <<inboxVars, serves, flight, link, gone>>

\* There is nobody to send it to.
Refuse(s) ==
  /\ serves /\ ~up
  /\ saying[s] # <<>> /\ left[s] = 0
  /\ saying' = [saying EXCEPT ![s] = <<>>]
  /\ UNCHANGED <<inboxVars, serves, flight, link, left, gone>>

Deliver(s) ==
  /\ flight[s] # <<>>
  /\ Enqueue(Head(flight[s]))
  /\ flight' = [flight EXCEPT ![s] = Tail(@)]
  /\ UNCHANGED <<serves, saying, link, left, gone>>

-----------------------------------------------------------------------------
(***************************************************************************)
(* A connection                                                            *)
(***************************************************************************)

\* The robot connects.
Connect(s) ==
  /\ ~serves /\ up
  /\ s \notin gone /\ link[s] = "none"
  /\ link' = [link EXCEPT ![s] = "open"]
  /\ UNCHANGED <<inboxVars, serves, saying, flight, left, gone>>

\* The serving robot has read everything, and waited in vain for more.
FindSilent(s) ==
  /\ serves
  /\ link[s] = "open" /\ flight[s] = <<>>
  /\ link' = [link EXCEPT ![s] = "silent"]
  /\ UNCHANGED <<inboxVars, serves, saying, flight, left, gone>>

\* The robot leaves a silent connection: a line that came since is lost, or
\* else the next one will be, if there is one.
Abandon(s) ==
  /\ IF serves THEN link[s] = "silent" /\ Len(flight[s]) <= 1 /\ left[s] = 0
     ELSE link[s] = "open" /\ flight[s] = <<>>
  /\ link' = [link EXCEPT ![s] = "none"]
  /\ flight' = [flight EXCEPT ![s] = <<>>]
  /\ left' = [left EXCEPT ![s] = IF flight[s] = <<>> /\ s \notin gone THEN @ + 1 ELSE @]
  /\ UNCHANGED <<inboxVars, serves, saying, gone>>

\* A connection is done with: its sender has closed it.
Finish(s) ==
  /\ link[s] = "open" /\ flight[s] = <<>>
  /\ link' = [link EXCEPT ![s] = "none"]
  /\ UNCHANGED <<inboxVars, serves, saying, flight, left, gone>>

\* A sender ends: between two lines, or because the robot cannot be reached.
Leave(s) ==
  /\ saying[s] = <<>> \/ ~up
  /\ gone' = gone \cup {s}
  /\ saying' = [saying EXCEPT ![s] = <<>>]
  /\ left' = [left EXCEPT ![s] = 0]
  /\ UNCHANGED <<inboxVars, serves, flight, link>>

-----------------------------------------------------------------------------
(***************************************************************************)
(* The robot                                                               *)
(***************************************************************************)

Robot ==
  /\ ProcessTriggers \/ ClearInbox \/ InboxBack
  /\ UNCHANGED <<serves, saying, flight, link, left, gone>>

\* Its program ends, and every connection with it.
Crash ==
  /\ InboxLost
  /\ flight' = [s \in Sender |-> <<>>]
  /\ link' = [s \in Sender |-> "none"]
  /\ left' \in [Sender -> Nat]
  /\ \A s \in Sender :
       \/ left'[s] = left[s]
       \/ link[s] # "none" /\ s \notin gone /\ left'[s] = left[s] + 1
  /\ UNCHANGED <<serves, saying, gone>>

Next ==
  \/ \E s \in Sender :
       \/ Say(s) \/ Send(s) \/ Swallow(s) \/ Refuse(s) \/ Deliver(s)
       \/ Connect(s) \/ FindSilent(s) \/ Abandon(s) \/ Finish(s) \/ Leave(s)
  \/ Robot \/ Crash

Spec == Init /\ [][Next]_channelVars
=============================================================================
