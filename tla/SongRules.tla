------------------------------ MODULE SongRules ------------------------------
(***************************************************************************)
(* From what a listener heard to the policy it asks for.                   *)
(*                                                                         *)
(* --song-to-policy is a sequence of items "key:policy" or, in the timed   *)
(* listener, "key@start-end:policy".  A key stands for every song whose    *)
(* path, file name or id contains it, so the order of the items decides    *)
(* where one key is part of another (salsa, salsa4).                       *)
(***************************************************************************)
EXTENDS Integers

CONSTANTS
  Song,       \* the indexed songs
  Key,        \* what the rules name
  Contains,   \* Contains[key]: the songs whose name contains the key
  PolicyId,   \* policy ids
  NoPolicy,   \* None
  MusicMin    \* --music-min-score, on the scale of the classifier's scores

ASSUME RulesAssumption ==
  /\ Contains \in [Key -> SUBSET Song]
  /\ NoPolicy \notin PolicyId

Star == -1    \* the open end of a range, "*"
NoOffset == -1

\* An item without "@" has no range.
IsPlain(item) == "start" \notin DOMAIN item

\* A range the parser takes; any other makes the program refuse to start.
RangeOk(item) ==
  IsPlain(item) \/ (item.start >= 0 /\ (item.end = Star \/ item.end > item.start))

\* The items and which of them have no range, and which have one.
ParseSongPolicyRules(items) ==
  LET plain == {n \in DOMAIN items : IsPlain(items[n])}
  IN  [items |-> items, plain |-> plain, timed |-> DOMAIN items \ plain]

\* The policy of the first of the rules, in their order, that apply.
FirstPolicy(rules, applying) ==
  IF applying = {} THEN NoPolicy
  ELSE rules.items[CHOOSE n \in applying : \A m \in applying : n <= m].policy

ResolvePolicy(song, rules) ==
  FirstPolicy(rules, {n \in rules.plain : song \in Contains[rules.items[n].key]})

OffsetInRange(at, rule) == at >= rule.start /\ (rule.end = Star \/ at < rule.end)

\* The timed rules come first, in their order, and then the plain ones.
ResolvePolicyWithOffset(song, at, rules) ==
  LET inTime == {n \in rules.timed : /\ at # NoOffset
                                     /\ song \in Contains[rules.items[n].key]
                                     /\ OffsetInRange(at, rules.items[n])}
      timed  == FirstPolicy(rules, inTime)
  IN  IF timed # NoPolicy THEN timed ELSE ResolvePolicy(song, rules)

-----------------------------------------------------------------------------
(***************************************************************************)
(* What the ears of a listener say of a clip.  Shazam's match is a song,   *)
(* with a place in it, and whether it has the votes and the confidence the *)
(* listener wants; CLAP and the rhythm classifier say nothing below their  *)
(* own thresholds.                                                         *)
(***************************************************************************)

NoSong == [song |-> "none", at |-> NoOffset, strong |-> FALSE]

\* Mutant: the votes are not looked at.
ConfidentPolicyAny(match, rules) ==
  IF match = NoSong THEN NoPolicy ELSE ResolvePolicy(match.song, rules)

\* listen_smart_mic and listen_shazam_and_send: a weak match is none.
ConfidentPolicy(match, rules) ==
  IF match.strong THEN ResolvePolicy(match.song, rules) ELSE NoPolicy

\* The timed listener's Shazam path.  What it found stays the decision, however
\* few its votes, unless CLAP puts its own in its place.
ShazamPolicy(mode, match, rules) ==
  IF mode \in {"shazam", "shazam+clap"} /\ match # NoSong
  THEN ResolvePolicyWithOffset(match.song, match.at, rules) ELSE NoPolicy

\* CLAP is asked alone, or where Shazam's match is none or too weak.
AsksClap(mode, match, shazam) ==
  mode = "clap" \/ (mode = "shazam+clap" /\ ~(match.strong /\ shazam # NoPolicy))

\* The policy of a class, unless another class is nearly as likely.
ClassPolicy(class, clear, policyOf) ==
  IF clear /\ class \in DOMAIN policyOf THEN policyOf[class] ELSE NoPolicy

\* CLAP's place in the song is used with --clap-use-offset only.
ClapPolicy(clap, useOffset, rules) ==
  ResolvePolicyWithOffset(clap.song, IF useOffset THEN clap.at ELSE NoOffset, rules)

\* With --clap-class-map the nearest class decides instead of the nearest song,
\* and in the rhythm mode the rhythm's class does.
TimedPolicy(way, match, clap, class, policyOf, rules) ==
  LET shazam == ShazamPolicy(way.id, match, rules)
      named  == ClassPolicy(class.name, class.sure, policyOf)
  IN  CASE way.id = "rhythm" -> named
        [] way.id # "rhythm" /\ AsksClap(way.id, match, shazam) /\ clap # NoSong ->
             IF way.classes THEN named ELSE ClapPolicy(clap, way.offset, rules)
        [] OTHER -> shazam

-----------------------------------------------------------------------------
(***************************************************************************)
(* The branch a clip takes, from the classifier's scores for music and     *)
(* speech and the detector's word for whether anybody spoke.               *)
(***************************************************************************)

\* Mutant: a clip without a voice is silence, music or not.
BranchVoiceFirst(music, speech, voiced) ==
  IF ~voiced THEN "skip"
  ELSE IF music > speech THEN "music"
  ELSE "speech"

Branch(music, speech, voiced) ==
  IF music >= MusicMin /\ music > speech THEN "music"
  ELSE IF ~voiced THEN "skip"
  ELSE IF speech >= music THEN "speech"
  ELSE "music"
=============================================================================
