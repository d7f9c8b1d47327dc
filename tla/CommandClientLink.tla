------------------------- MODULE CommandClientLink -------------------------
(***************************************************************************)
(* The PC serves (--tcp-mode server): the listener accepts one connection  *)
(* when it has a line to send, and MusicCommandSocketClientCtrl on the     *)
(* robot connects to it and reads.  A read that is silent for              *)
(* connect_timeout_s raises, upon which the robot closes its socket and    *)
(* connects again; the first read of a connection is forgiven one such     *)
(* silence.                                                                *)
(*                                                                         *)
(* The PC learns that the robot has left a connection as any sender does:  *)
(* the first sendall() succeeds into the void, the next one raises.  Lines *)
(* the robot wrote (SUBSCRIBE) are never read.                             *)
(***************************************************************************)
EXTENDS CommandInbox

CONSTANTS
  RecvTimeout,  \* connect_timeout_s, in chunks of the listener
  Backlog       \* connections that may wait for the PC's accept()

VARIABLES
  cli,      \* _client_loop(): "away", or reading: "first" or "loop"
  idle,     \* chunks the read in progress has been waiting
  wire,     \* lines sent on the robot's connection and not read yet
  pcSock,   \* client_sock: "none", "live", "left" by the robot, or "reset";
            \* "closed" once the listener has ended
  pending   \* connections not accepted yet, oldest first: "live" or "left"

clientVars == <<cli, idle, wire, pcSock, pending>>

ClientInit ==
  /\ cli = "away"
  /\ idle = 0
  /\ wire = <<>>
  /\ pcSock = "none"
  /\ pending = <<>>

-----------------------------------------------------------------------------
(***************************************************************************)
(* The robot's thread                                                      *)
(***************************************************************************)

\* Somebody listens, and has room for one more connection.
CanConnect == up /\ pcSock # "closed" /\ Len(pending) < Backlog

Connect ==
  /\ cli = "away"
  /\ CanConnect
  /\ cli' = "first"
  /\ idle' = 0
  /\ pending' = Append(pending, "live")
  /\ UNCHANGED <<wire, pcSock, inboxVars>>

\* A line is read, through _consume_buffer().
RecvLine ==
  /\ cli # "away"
  /\ wire # <<>>
  /\ Enqueue(Head(wire))
  /\ wire' = Tail(wire)
  /\ cli' = "loop"
  /\ idle' = 0
  /\ UNCHANGED <<pcSock, pending>>

Silent == wire = <<>> /\ idle >= RecvTimeout

\* The first recv() of a connection: its timeout is swallowed.
FirstRecvTimesOut ==
  /\ cli = "first"
  /\ Silent
  /\ cli' = "loop"
  /\ idle' = 0
  /\ UNCHANGED <<wire, pcSock, pending, inboxVars>>

\* The robot's end of its connection is closed, accepted or not: by its thread,
\* or because its program ends.
LeaveConnection ==
  /\ cli' = "away"
  /\ idle' = 0
  /\ wire' = <<>>
  /\ pcSock' = IF pcSock = "live" THEN "left" ELSE pcSock
  /\ pending' = [i \in DOMAIN pending |-> "left"]

RecvTimesOut_Client ==
  /\ cli = "loop"
  /\ Silent
  /\ LeaveConnection
  /\ UNCHANGED inboxVars

\* recv() returns nothing: the listener has ended.
ServerGone ==
  /\ cli # "away"
  /\ wire = <<>>
  /\ pcSock = "closed"
  /\ LeaveConnection
  /\ UNCHANGED inboxVars

ClientStep ==
  Connect \/ RecvLine \/ FirstRecvTimesOut \/ RecvTimesOut_Client \/ ServerGone

\* A silence the robot has to act upon, or a connection it has to make.
ClientDue ==
  \/ wire # <<>>
  \/ cli # "away" /\ (idle >= RecvTimeout \/ pcSock = "closed")
  \/ cli = "away" /\ CanConnect

ClientWaits ==
  /\ idle' = IF cli = "away" THEN 0 ELSE idle + 1
  /\ UNCHANGED <<cli, wire, pcSock, pending>>

-----------------------------------------------------------------------------
(***************************************************************************)
(* The PC                                                                  *)
(***************************************************************************)

\* _ensure_client(): there is no socket, or the last sendall() raised.
AcceptClient ==
  /\ pcSock \in {"none", "reset"}
  /\ pending # <<>>
  /\ pcSock' = Head(pending)
  /\ pending' = Tail(pending)
  /\ UNCHANGED <<cli, idle, wire, inboxVars>>

\* Mutant: the OSError of a connection the robot has left goes unnoticed.
SendAcceptedDeaf(line) ==
  /\ \/ /\ pcSock = "live"
        /\ wire' = Append(wire, line)
     \/ /\ pcSock = "left"
        /\ UNCHANGED wire
  /\ UNCHANGED <<cli, idle, pcSock, pending, inboxVars>>

\* sendall() on the accepted socket: onto the wire, or lost.
SendAccepted(line) ==
  /\ \/ /\ pcSock = "live"
        /\ wire' = Append(wire, line)
        /\ UNCHANGED pcSock
     \/ /\ pcSock = "left"
        /\ pcSock' = "reset"
        /\ UNCHANGED wire
  /\ UNCHANGED <<cli, idle, pending, inboxVars>>

\* GestureTcpServer.close(), after the seconds the listener leaves the robot to
\* read the last line.
CloseServer ==
  /\ wire = <<>>
  /\ pcSock' = "closed"
  /\ pending' = <<>>
  /\ UNCHANGED <<cli, idle, wire, inboxVars>>
=============================================================================
