---------------------------- MODULE MusicListener ----------------------------
(***************************************************************************)
(* The programs on the PC that listen to the room and tell the robot what  *)
(* to do, over one of the two links:                                       *)
(*                                                                         *)
(*   smart  listen_smart_mic: songs and speech, one connection             *)
(*   timed  listen_smart_mic_timed_policy: the same with timed rules, CLAP *)
(*          and rhythm, from the microphone or from a file (offline)       *)
(*   clips  listen_shazam_and_send: songs, a connection for every line     *)
(*   gesti  listen_openai_and_send_gesti: speech, beside one of the others *)
(*                                                                         *)
(* Time passes in chunks of --segment-seconds (five).  Within a chunk the  *)
(* robot and the listener do what they have to do; the identification and  *)
(* the speech services are assumed to answer before the next one ends.     *)
(***************************************************************************)
EXTENDS SongRules, CommandServerLink, CommandClientLink, FiniteSets

CONSTANTS
  Items,        \* --song-to-policy
  ClassItems,   \* --clap-class-to-policy
  Setups,       \* the command lines that are looked at
  RepeatAfter,  \* --send-repeat-after, in chunks, rounded up
  FinalPolicy,  \* --final-policy-id
  FinalRepeat,  \* --final-policy-repeat
  QueuedClips,  \* clips the microphone's stream holds (400 blocks)
  MaxFiles,     \* bound: clips of the segment muxer that wait
  MaxAt         \* bound: the last place of a song that is told apart

VARIABLES
  setup,     \* the command lines: script, tcp mode, capture, and so on
  room,      \* what is audible now
  clips,     \* what was recorded and not identified yet, oldest first
  last,      \* last_policy_sent
  age,       \* chunks since last_send_ts, up to RepeatAfter
  outgoing,  \* what send_line() is at work on, or Nothing
  speaking,  \* the answer is being played
  stage,     \* "listen", "final" or "closed"
  finals,    \* final lines sent, or refused
  gesti      \* the gesture sender: "listen", "heard", "send", "speak" or
             \* "ended", and the line it sends

listenerVars ==
  <<setup, room, clips, last, age, outgoing, speaking, stage, finals, gesti>>
vars == <<listenerVars, inboxVars, serverVars, clientVars>>

Rules == ParseSongPolicyRules(Items)

Quiet == {"noise", "speech"}
Room == [song : Song, at : 0..MaxAt] \cup [song : Quiet, at : {0}]

Switch(p) == <<"POLICY_SWITCH", p>>
\* [GESTI,<seconds>], and the override of a text that names the violin or 67.
GestureLine == {<<"GESTI">>, <<"Violin">>}

\* A line to send, the policy it asks for, and whether a reply is played behind it.
Saying(line, policy, talk) ==
  [line |-> line, policy |-> policy, waited |-> 0, talk |-> talk]
Nothing == Saying(<<>>, NoPolicy, FALSE)

\* The command lines of each script.
SetupOf(script, tcp, capture, way, offline) ==
  [script |-> script, tcp |-> tcp, capture |-> capture, way |-> way, offline |-> offline]
Shazam == [id |-> "shazam", classes |-> FALSE, offset |-> FALSE]
SmartLines ==
  {SetupOf("smart", t, "record", Shazam, FALSE) : t \in {"client", "server"}}
TimedLines ==
  {SetupOf("timed", t, "record", w, o) : t \in {"client", "server"}, o \in BOOLEAN,
     w \in [id : {"shazam", "clap", "shazam+clap", "rhythm"},
            classes : BOOLEAN, offset : BOOLEAN]}
ClipsLines ==
  {SetupOf("clips", "client", c, Shazam, FALSE) : c \in {"record", "stream", "files"}}

\* The gesture sender's, beside another program's: whether it runs.
GestiLines == BOOLEAN

\* Where its loop is, when it has no line to send.
Gesti(at) == [at |-> at, line |-> <<>>]

\* The rules and the lines name the robot's policies; no song is named as a sound
\* that is none.
ASSUME ListenerAssumption ==
  /\ DOMAIN Items \subseteq Nat
  /\ \A n \in DOMAIN Items : Items[n].key \in Key /\ Items[n].policy \in PolicyId
  /\ \A class \in DOMAIN ClassItems : ClassItems[class] \in PolicyId
  /\ FinalPolicy \in PolicyId
  /\ FinalRepeat \in Nat
  /\ MaxAt \in Nat
  /\ {Switch(p) : p \in PolicyId} \cup GestureLine \subseteq Line
  /\ Song \cap Quiet = {}
  /\ {"music", "gesti"} \subseteq Sender

\* The gesture sender can only connect to a robot that serves.
ASSUME SetupsAssumption ==
  /\ Setups \subseteq (SmartLines \cup TimedLines \cup ClipsLines) \X GestiLines
  /\ \A s \in Setups : s[2] => s[1].tcp = "client"

ListenerInit ==
  /\ \E s \in Setups :
       /\ setup = s[1]
       /\ gesti = Gesti(IF s[2] THEN "listen" ELSE "ended")
  /\ room \in {r \in Room : r.at = 0}
  /\ clips = <<>>
  /\ last = NoPolicy
  /\ age = RepeatAfter
  /\ outgoing = Nothing
  /\ speaking = FALSE
  /\ stage = "listen"
  /\ finals = 0

Init == ListenerInit /\ InboxInit /\ ServerInit /\ ClientInit

-----------------------------------------------------------------------------
(***************************************************************************)
(* What a listener can make of a clip                                      *)
(***************************************************************************)

\* LocalShazamMatcher.match(): a song that plays is found where it is; any
\* other clip may share a few hashes with a song.
ShazamHears(clip) ==
  IF clip.song \in Song
  THEN {[song |-> clip.song, at |-> clip.at, strong |-> TRUE]}
  ELSE {NoSong} \cup {[song |-> s, at |-> 0, strong |-> FALSE] : s \in Song}

\* CLAPRetriever.nearest(): some song is always nearest; of the clips that are
\* no song it may or may not be near enough.
ClapHears(clip) ==
  IF clip.song \in Song
  THEN {[song |-> clip.song, at |-> clip.at, strong |-> TRUE]}
  ELSE {NoSong} \cup {[song |-> s, at |-> 0, strong |-> TRUE] : s \in Song}

\* The rhythm classifier and CLAP's class centroids know the songs' classes, and
\* may be unsure of other sounds.
ClassHears(clip) ==
  IF clip.song \in Song THEN {[name |-> clip.song, sure |-> TRUE]}
  ELSE [name : Song, sure : BOOLEAN]

SmartDecisions(clip) == {ConfidentPolicy(m, Rules) : m \in ShazamHears(clip)}
ClipsDecisions(clip) == {ConfidentPolicy(m, Rules) : m \in ShazamHears(clip)}
TimedDecisions(clip) ==
  {TimedPolicy(setup.way, m, c, k, ClassItems, Rules) :
     m \in ShazamHears(clip), c \in ClapHears(clip), k \in ClassHears(clip)}

Decisions(clip) ==
  CASE setup.script = "smart" -> SmartDecisions(clip)
    [] setup.script = "timed" -> TimedDecisions(clip)
    [] setup.script = "clips" -> ClipsDecisions(clip)

\* The classifier's scores for music and for speech.
ClassifierScores(clip) ==
  CASE clip.song \in Song -> {3} \X (0..1)
    [] clip.song = "speech" -> (0..1) \X {3}
    [] OTHER -> (0..1) \X (0..1)

\* Whether the voice detector hears one.
VoiceHeard(clip) == IF clip.song = "speech" THEN {TRUE} ELSE BOOLEAN

\* With --music-only (offline) every clip is music; listen_shazam_and_send only
\* passes over clips that are too quiet.
Branches(clip) ==
  CASE setup.script = "clips" ->
         IF clip.song \in Song THEN {"music"} ELSE {"music", "skip"}
    [] setup.offline -> {"music"}
    [] OTHER -> {Branch(s[1], s[2], v) : s \in ClassifierScores(clip), v \in VoiceHeard(clip)}

-----------------------------------------------------------------------------
(***************************************************************************)
(* Recording                                                               *)
(***************************************************************************)

\* send_line() waits for the robot to connect.
Blocked ==
  /\ outgoing # Nothing
  /\ setup.tcp = "server"
  /\ pcSock \in {"none", "reset"}
  /\ pending = <<>>

\* The robot has done all it can before more time passes.
RobotWaits ==
  /\ inbox = <<>> /\ taken = <<>>
  /\ IF setup.tcp = "client" THEN serving = "accept" /\ conns = <<>> ELSE ~ClientDue

\* There is somewhere to put the next chunk.
HasRoom ==
  CASE setup.capture = "record" -> clips = <<>>
    [] setup.capture = "stream" -> TRUE
    [] setup.capture = "files" -> Len(clips) < MaxFiles

\* The listener and the gesture sender have, too.
ListenerWaits ==
  /\ outgoing = Nothing \/ Blocked
  /\ gesti.at \notin {"heard", "send"}
  /\ stage = "listen" => HasRoom
  /\ stage = "final" => Blocked

\* What is recorded of the chunk that ends.  record_mono_f32() and ffmpeg -t
\* record when the loop has come round.
RecordedByLoop ==
  IF clips = <<>> /\ outgoing = Nothing /\ ~speaking THEN <<room>> ELSE clips

\* The stream's queue drops what is new when it is full.
RecordedByStream == IF Len(clips) = QueuedClips THEN clips ELSE Append(clips, room)

\* The segment muxer writes every chunk.
RecordedByMuxer == Append(clips, room)

Recorded ==
  CASE setup.capture = "record" -> RecordedByLoop
    [] setup.capture = "stream" -> RecordedByStream
    [] setup.capture = "files" -> RecordedByMuxer

\* What may be audible next: the song goes on, or something else begins.
Follows(r) ==
  {r, [r EXCEPT !.at = IF r.song \in Song /\ @ < MaxAt THEN @ + 1 ELSE @]}
    \cup {q \in Room : q.at = 0}

\* A chunk of time passes.
Tick ==
  /\ RobotWaits
  /\ ListenerWaits
  /\ clips' = IF stage = "listen" THEN Recorded ELSE clips
  /\ room' \in Follows(room)
  /\ age' = IF age < RepeatAfter THEN age + 1 ELSE age
  /\ outgoing' = IF outgoing # Nothing /\ outgoing.waited < RepeatAfter
                 THEN [outgoing EXCEPT !.waited = @ + 1] ELSE outgoing
  /\ gesti' = IF gesti.at = "listen" /\ room.song = "speech" THEN Gesti("heard") ELSE gesti
  /\ IF setup.tcp = "server" THEN ClientWaits ELSE UNCHANGED clientVars
  /\ UNCHANGED <<setup, last, speaking, stage, finals, inboxVars, serverVars>>

-----------------------------------------------------------------------------
(***************************************************************************)
(* The loop of the listener                                                *)
(***************************************************************************)

CanHear ==
  /\ stage = "listen"
  /\ clips # <<>>
  /\ outgoing = Nothing
  /\ ~speaking

\* The clip is silence, its transcription failed or is too short, or its match
\* names no policy.
HearNothing ==
  /\ CanHear
  /\ \/ Branches(Head(clips)) \cap {"skip", "speech"} # {}
     \/ "music" \in Branches(Head(clips)) /\ NoPolicy \in Decisions(Head(clips))
  /\ clips' = Tail(clips)
  /\ UNCHANGED <<setup, room, last, age, outgoing, speaking, stage, finals, gesti,
                 inboxVars, serverVars, clientVars>>

\* The same policy again, too soon.
Throttled(p) == p = last /\ age < RepeatAfter

HearMusic ==
  /\ CanHear
  /\ "music" \in Branches(Head(clips))
  /\ \E p \in Decisions(Head(clips)) \ {NoPolicy} :
       outgoing' = IF Throttled(p) THEN Nothing
                   ELSE Saying(Switch(p), p, FALSE)
  /\ clips' = Tail(clips)
  /\ UNCHANGED <<setup, room, last, age, speaking, stage, finals, gesti,
                 inboxVars, serverVars, clientVars>>

\* A text is answered with a gesture as long as the spoken reply, which is
\* played behind the sending, unless the speech service failed.
Answers == {Saying(line, NoPolicy, talk) : line \in GestureLine, talk \in BOOLEAN}

HearSpeech ==
  /\ CanHear
  /\ "speech" \in Branches(Head(clips))
  /\ outgoing' \in Answers
  /\ clips' = Tail(clips)
  /\ UNCHANGED <<setup, room, last, age, speaking, stage, finals, gesti,
                 inboxVars, serverVars, clientVars>>

\* The playback thread ends: wait_tts_idle() returns.
TtsEnds ==
  /\ speaking
  /\ speaking' = FALSE
  /\ UNCHANGED <<setup, room, clips, last, age, outgoing, stage, finals, gesti,
                 inboxVars, serverVars, clientVars>>

\* _send_tcp_line() has returned ok.  Only a switch that was sent is remembered,
\* as of its decision; the reply is played either way.
SendEnds(ok) ==
  LET marked == ok /\ outgoing.policy # NoPolicy /\ stage = "listen"
  IN  /\ last' = IF marked THEN outgoing.policy ELSE last
      /\ age' = IF marked THEN outgoing.waited ELSE age
      /\ speaking' = outgoing.talk
      /\ finals' = IF stage = "final" THEN finals + 1 ELSE finals
      /\ outgoing' = Nothing
      /\ UNCHANGED <<setup, room, clips, stage, gesti>>

\* The line is sent, as far as the listener can tell.
Send ==
  /\ outgoing # Nothing
  /\ IF setup.tcp = "server"
     THEN SendAccepted(outgoing.line) /\ UNCHANGED serverVars
     ELSE /\ IF setup.script = "clips" THEN SendCommand("music", outgoing.line)
             ELSE SendLine("music", outgoing.line)
          /\ UNCHANGED clientVars
  /\ SendEnds(TRUE)

\* The connection is refused.
SendRefused ==
  /\ outgoing # Nothing
  /\ setup.tcp = "client"
  /\ Refused("music")
  /\ SendEnds(FALSE)
  /\ UNCHANGED clientVars

\* The robot's computer cannot be reached: listen_shazam_and_send goes on, and
\* any other OSError than a refusal ends the other two.
SendFails ==
  /\ outgoing # Nothing
  /\ setup.tcp = "client"
  /\ Refused("music")
  /\ IF setup.script = "clips" THEN SendEnds(FALSE)
     ELSE /\ stage' = "closed"
          /\ outgoing' = Nothing
          /\ clips' = <<>>
          /\ UNCHANGED <<setup, room, last, age, speaking, finals, gesti>>
  /\ UNCHANGED clientVars

\* _ensure_client() takes the oldest connection that waits.
AcceptForSend ==
  /\ outgoing # Nothing
  /\ setup.tcp = "server"
  /\ AcceptClient
  /\ UNCHANGED <<listenerVars, serverVars>>

-----------------------------------------------------------------------------
(***************************************************************************)
(* The end of the listener                                                 *)
(***************************************************************************)

\* The file has been played to its end.
EndOfFile ==
  /\ stage = "listen"
  /\ setup.offline
  /\ clips = <<>> /\ outgoing = Nothing
  /\ stage' = "final"
  /\ UNCHANGED <<setup, room, clips, last, age, outgoing, speaking, finals, gesti,
                 inboxVars, serverVars, clientVars>>

\* The final line is sent, and again after a fifth of a second.
SendFinal ==
  /\ stage = "final"
  /\ finals < FinalRepeat
  /\ outgoing = Nothing
  /\ RobotWaits \/ (serving = "recv" /\ Head(conns).data = <<>>)
  /\ outgoing' = Saying(Switch(FinalPolicy), FinalPolicy, FALSE)
  /\ UNCHANGED <<setup, room, clips, last, age, speaking, stage, finals, gesti,
                 inboxVars, serverVars, clientVars>>

Close ==
  /\ stage' = "closed"
  /\ clips' = <<>>
  /\ IF setup.tcp = "client" THEN CloseSender("music") /\ UNCHANGED clientVars
     ELSE CloseServer /\ UNCHANGED serverVars
  /\ UNCHANGED <<setup, room, last, age, outgoing, speaking, finals, gesti>>

\* The final lines are sent and have settled.
Finish ==
  /\ stage = "final"
  /\ finals = FinalRepeat
  /\ RobotWaits
  /\ Close

\* The user stops the listener between two clips.
UserStops ==
  /\ stage = "listen"
  /\ outgoing = Nothing
  /\ Close

-----------------------------------------------------------------------------
(***************************************************************************)
(* The gesture sender's loop                                               *)
(***************************************************************************)

othersVars == <<setup, room, clips, last, age, outgoing, speaking, stage, finals>>

\* Speech could not be transcribed, or was too short.
GestiSkips ==
  /\ gesti.at = "heard"
  /\ gesti' = Gesti("listen")
  /\ UNCHANGED <<othersVars, inboxVars, serverVars, clientVars>>

\* The text is answered with a gesture.
GestiSays ==
  /\ gesti.at = "heard"
  /\ \E line \in GestureLine : gesti' = [at |-> "send", line |-> line]
  /\ UNCHANGED <<othersVars, inboxVars, serverVars, clientVars>>

\* The line goes out, and then the reply is played to its end.
GestiSends ==
  /\ gesti.at = "send"
  /\ SendLine("gesti", gesti.line)
  /\ gesti' \in {Gesti("listen"), Gesti("speak")}
  /\ UNCHANGED <<othersVars, clientVars>>

\* Nothing catches a refused connection: the program ends.
GestiRefused ==
  /\ gesti.at = "send"
  /\ Refused("gesti")
  /\ gesti' = Gesti("ended")
  /\ UNCHANGED <<othersVars, clientVars>>

GestiSpoke ==
  /\ gesti.at = "speak"
  /\ gesti' = Gesti("listen")
  /\ UNCHANGED <<othersVars, inboxVars, serverVars, clientVars>>

-----------------------------------------------------------------------------
(***************************************************************************)
(* The robot                                                               *)
(***************************************************************************)

\* The thread of the command controller the robot's configuration has.
RobotLink ==
  /\ IF setup.tcp = "client" THEN ServerStep /\ UNCHANGED clientVars
     ELSE ClientStep /\ UNCHANGED serverVars
  /\ UNCHANGED listenerVars

\* A step of the pipeline.
PipelineStep ==
  /\ inbox # <<>> \/ taken # <<>>
  /\ ProcessTriggers
  /\ UNCHANGED <<listenerVars, serverVars, clientVars>>

PipelineResets ==
  /\ ClearInbox
  /\ UNCHANGED <<listenerVars, serverVars, clientVars>>

RobotStops ==
  /\ InboxLost
  /\ IF setup.tcp = "client" THEN ServerDrops /\ UNCHANGED clientVars
     ELSE LeaveConnection /\ UNCHANGED serverVars
  /\ UNCHANGED listenerVars

RobotStarts ==
  /\ InboxBack
  /\ UNCHANGED <<listenerVars, serverVars, clientVars>>

Next ==
  \/ Tick
  \/ HearNothing \/ HearMusic \/ HearSpeech \/ TtsEnds
  \/ Send \/ SendRefused \/ SendFails \/ AcceptForSend
  \/ EndOfFile \/ SendFinal \/ Finish \/ UserStops
  \/ GestiSkips \/ GestiSays \/ GestiSends \/ GestiRefused \/ GestiSpoke
  \/ RobotLink \/ PipelineStep \/ PipelineResets \/ RobotStops \/ RobotStarts

\* The programs' loops and the threads go on, playback ends, and time passes.
\* The pipeline steps fifty times a second and is reset now and then: a reset
\* does not come before every step.
Fairness ==
  /\ WF_vars(Tick)
  /\ WF_vars(HearNothing \/ HearMusic \/ HearSpeech)
  /\ WF_vars(TtsEnds)
  /\ WF_vars(Send \/ SendRefused \/ SendFails \/ AcceptForSend)
  /\ WF_vars(SendFinal) /\ WF_vars(Finish)
  /\ WF_vars(GestiSkips \/ GestiSays \/ GestiSends \/ GestiRefused) /\ WF_vars(GestiSpoke)
  /\ WF_vars(RobotLink) /\ SF_vars(PipelineStep)

Spec == Init /\ [][Next]_vars /\ Fairness

-----------------------------------------------------------------------------
(***************************************************************************)
(* The channel                                                             *)
(***************************************************************************)

\* The lines of s that connections hold, oldest first.
UnreadOf(cs, s) ==
  LET upTo[n \in 0 .. Len(cs)] ==
        IF n = 0 THEN <<>>
        ELSE IF cs[n].from = s THEN upTo[n - 1] \o cs[n].data ELSE upTo[n - 1]
  IN  upTo[Len(cs)]

\* What a sender has on its way.
Flight(s) ==
  IF setup.tcp = "client" THEN UnreadOf(conns, s)
  ELSE IF s = "music" THEN wire ELSE <<>>

\* The line a sender is sending.
InHand(s) ==
  IF s = "music" /\ outgoing # Nothing THEN <<outgoing.line>>
  ELSE IF s = "gesti" /\ gesti.at = "send" THEN <<gesti.line>>
  ELSE <<>>

\* The robot's end of a sender's connection.
LinkTo(s) ==
  IF setup.tcp = "server" THEN IF s = "music" /\ cli # "away" THEN "open" ELSE "none"
  ELSE IF serving = "close" /\ conns[1].from = s THEN "silent"
  ELSE IF \E i \in DOMAIN conns : conns[i].from = s THEN "open"
  ELSE "none"

\* The connections the PC holds, or that wait for it, but the one the robot reads.
LeftBehind ==
  IF pcSock = "closed" THEN 0
  ELSE Len(pending) + (IF pcSock \in {"live", "left"} THEN 1 ELSE 0)
         - (IF cli # "away" THEN 1 ELSE 0)

\* The connections the robot has left and a sender has not noticed.
LeftOf(s) ==
  IF setup.tcp = "client" THEN IF sock[s] = "dropped" THEN 1 ELSE 0
  ELSE IF s = "music" THEN LeftBehind ELSE 0

\* The links keep the channel's promise, whatever else happens
\* (music_command_socket_ctrl, music_command_socket_client_ctrl, GestureTcp...).
Channel == INSTANCE CommandChannel WITH
  serves <- setup.tcp = "client",
  saying <- [s \in Sender |-> InHand(s)],
  flight <- [s \in Sender |-> Flight(s)],
  link <- [s \in Sender |-> LinkTo(s)],
  left <- [s \in Sender |-> LeftOf(s)],
  gone <- IF stage = "closed" THEN {"music"} ELSE {}

ImplementsChannel == Channel!Spec

\* The pipeline was given the switch to p.
Taken(p) == \E i \in DOMAIN taken : taken[i] = Switch(p)

\* A room without music moves nothing: where the listeners look at the votes,
\* no policy is ever asked for.
QuietRoomMovesNothing ==
  (setup.script # "timed" /\ [](room.song \in Quiet)) => [](\A p \in PolicyId : ~Taken(p))
=============================================================================
