------------------------- MODULE CommandServerLink -------------------------
(***************************************************************************)
(* The robot serves: MusicCommandSocketCtrl listens, the listeners on the  *)
(* PC connect (--tcp-mode client).  Its thread serves one connection at a  *)
(* time, in the order they came, until the peer closes it or has been      *)
(* silent for two seconds.                                                 *)
(*                                                                         *)
(* The server closes a silent connection without a word.  The sender's     *)
(* next sendall() succeeds into the void and brings back a reset, and only *)
(* the one after that raises the OSError upon which send_line() connects   *)
(* again.  That is the operating systems' part of sendall(); the senders'  *)
(* part is to look at nothing but that error.                              *)
(***************************************************************************)
EXTENDS CommandInbox

CONSTANT Sender

VARIABLES
  serving,  \* what _server_loop() does: "accept", "recv" or "close"
  conns,    \* connections at the robot, oldest first: sender, unread lines,
            \* and whether the sender has closed its end
  sock      \* a sender's socket: "none", "live", "dropped" by the server, or
            \* "reset", which it notices at its next sendall()

serverVars == <<serving, conns, sock>>

Connection == [from : Sender, data : Seq(Line), eof : BOOLEAN]

ServerInit ==
  /\ serving = "accept"
  /\ conns = <<>>
  /\ sock = [s \in Sender |-> "none"]

-----------------------------------------------------------------------------
(***************************************************************************)
(* The robot's thread                                                      *)
(***************************************************************************)

Accept ==
  /\ up
  /\ serving = "accept"
  /\ conns # <<>>
  /\ serving' = "recv"
  /\ UNCHANGED <<conns, sock, inboxVars>>

\* A line of the served connection goes to the deque.
ConsumeLine ==
  /\ serving = "recv"
  /\ Head(conns).data # <<>>
  /\ Enqueue(Head(Head(conns).data))
  /\ conns' = [conns EXCEPT ![1].data = Tail(@)]
  /\ UNCHANGED <<serving, sock>>

\* recv() has nothing left: the peer has closed.
EndOfStream ==
  /\ serving = "recv"
  /\ Head(conns).data = <<>>
  /\ Head(conns).eof
  /\ serving' = "accept"
  /\ conns' = Tail(conns)
  /\ UNCHANGED <<sock, inboxVars>>

\* recv() gives up after two silent seconds; the connection is closed next.
RecvTimesOut ==
  /\ serving = "recv"
  /\ Head(conns).data = <<>>
  /\ ~Head(conns).eof
  /\ serving' = "close"
  /\ UNCHANGED <<conns, sock, inboxVars>>

\* Mutant: a dropped connection swallows whatever is written to it.
AfterCloseMute(conn) ==
  IF conn.eof THEN sock[conn.from] ELSE "dropped"

\* What the sender of a connection the robot closes is left with: a line that
\* came since the robot last looked is answered by a reset.
AfterClose(conn) ==
  IF conn.eof THEN sock[conn.from]
  ELSE IF conn.data = <<>> THEN "dropped"
  ELSE "reset"

CloseConn ==
  /\ serving = "close"
  /\ serving' = "accept"
  /\ sock' = [sock EXCEPT ![Head(conns).from] = AfterClose(Head(conns))]
  /\ conns' = Tail(conns)
  /\ UNCHANGED inboxVars

\* The robot's program ends: its connections are closed.
ServerDrops ==
  /\ serving' = "accept"
  /\ sock' = [s \in Sender |->
                IF sock[s] # "live" THEN sock[s]
                ELSE IF \E i \in DOMAIN conns :
                          conns[i].from = s /\ ~conns[i].eof /\ conns[i].data # <<>>
                THEN "reset" ELSE "dropped"]
  /\ conns' = <<>>

ServerStep == Accept \/ ConsumeLine \/ EndOfStream \/ RecvTimesOut \/ CloseConn

-----------------------------------------------------------------------------
(***************************************************************************)
(* The senders                                                             *)
(***************************************************************************)

\* The connection a live socket is the other end of.
OpenConn(s) == CHOOSE i \in DOMAIN conns : conns[i].from = s /\ ~conns[i].eof

\* Mutant: the OSError of a socket the robot has closed goes unnoticed.
SendOnDeaf(s, line) ==
  \/ /\ sock[s] = "live"
     /\ conns' = [conns EXCEPT ![OpenConn(s)].data = Append(@, line)]
     /\ UNCHANGED sock
  \/ /\ sock[s] = "dropped"
     /\ UNCHANGED <<conns, sock>>

\* sendall() on the socket there is: into the connection, or lost.
SendOn(s, line) ==
  \/ /\ sock[s] = "live"
     /\ conns' = [conns EXCEPT ![OpenConn(s)].data = Append(@, line)]
     /\ UNCHANGED sock
  \/ /\ sock[s] = "dropped"
     /\ sock' = [sock EXCEPT ![s] = "reset"]
     /\ UNCHANGED conns

\* There is no socket, or sendall() raises: connect and send.
ConnectAndSend(s, line) ==
  /\ sock[s] \in {"none", "reset"}
  /\ up
  /\ conns' = Append(conns, [from |-> s, data |-> <<line>>, eof |-> FALSE])
  /\ sock' = [sock EXCEPT ![s] = "live"]

\* GestureTcpClient.send_line() returns.
SendLine(s, line) ==
  /\ SendOn(s, line) \/ ConnectAndSend(s, line)
  /\ UNCHANGED <<serving, inboxVars>>

\* _send_command() of listen_shazam_and_send: a connection for each line.
SendCommand(s, line) ==
  /\ up
  /\ conns' = Append(conns, [from |-> s, data |-> <<line>>, eof |-> TRUE])
  /\ UNCHANGED <<serving, sock, inboxVars>>

\* Nobody listens: the connection is refused and no socket is left.
Refused(s) ==
  /\ ~up
  /\ sock[s] \in {"none", "reset"}
  /\ sock' = [sock EXCEPT ![s] = "none"]
  /\ UNCHANGED <<serving, conns, inboxVars>>

\* GestureTcpClient.close() at the end of the sender's program.
CloseSender(s) ==
  /\ conns' = IF sock[s] = "live"
              THEN [conns EXCEPT ![OpenConn(s)].eof = TRUE] ELSE conns
  /\ sock' = [sock EXCEPT ![s] = "none"]
  /\ UNCHANGED <<serving, inboxVars>>
=============================================================================
