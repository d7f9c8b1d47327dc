--------------------------- MODULE MCMusicListener ---------------------------
(***************************************************************************)
(* Two songs of which one's name contains the other's, the second of them  *)
(* with a section of its own in the timed listener.                        *)
(***************************************************************************)
EXTENDS MusicListener

MCSong == {"salsa", "salsa4"}
MCContains == [k \in MCSong |-> IF k = "salsa" THEN MCSong ELSE {"salsa4"}]
MCItems ==
  <<[key |-> "salsa4", policy |-> 9], [key |-> "salsa", policy |-> 7],
    [key |-> "salsa4", start |-> 1, end |-> Star, policy |-> 5]>>
MCClassItems == [c \in {"salsa4"} |-> 5]

Way(id, classes, offset) == [id |-> id, classes |-> classes, offset |-> offset]
MCSetups ==
  (SmartLines \X {FALSE})
    \cup {<<s, s.capture = "stream">> : s \in ClipsLines}
    \cup {<<SetupOf("timed", "client", "record", Way("shazam+clap", FALSE, TRUE), FALSE), FALSE>>,
          <<SetupOf("timed", "client", "record", Way("rhythm", FALSE, FALSE), TRUE), TRUE>>,
          <<SetupOf("timed", "server", "record", Way("shazam+clap", TRUE, FALSE), TRUE), FALSE>>}
MCLine == {Switch(p) : p \in PolicyId} \cup GestureLine

ASSUME \A i \in DOMAIN Items : RangeOk(Items[i])

-----------------------------------------------------------------------------
(***************************************************************************)
(* Properties                                                              *)
(***************************************************************************)

\* A song that goes on is danced to: the policy of its section is asked of the
\* robot again and again, with a robot and a listener that keep running,
\* whatever lines are lost, throttled, or asked for before.
SongIsPlayed ==
  (<>[](room = [song |-> "salsa4", at |-> MaxAt] /\ up) /\ [](stage = "listen"))
    => []<>Taken(IF setup.script = "timed" THEN 5 ELSE 9)

\* The switch at the end of the file reaches the robot's controller, though the
\* connection may have been dropped without a word since the song before.
FinalPolicyArrives ==
  (stage = "final" /\ finals = 0 /\ setup.tcp = "client" /\ []up)
    ~> \E i \in DOMAIN inbox : inbox[i] = Switch(FinalPolicy)
=============================================================================
