SPECIFICATION Spec
CONSTANTS
  Song <- MCSong
  Key <- MCSong
  Contains <- MCContains
  PolicyId = {0, 5, 7, 9}
  NoPolicy = NoPolicy
  MusicMin = 2
  Line <- MCLine
  QueueMaxlen = 2
  Sender = {"music", "gesti"}
  RecvTimeout = 2
  Backlog = 2
  Items <- MCItems
  ClassItems <- MCClassItems
  Setups <- MCSetups
  RepeatAfter = 2
  FinalPolicy = 0
  FinalRepeat = 3
  QueuedClips = 1
  MaxFiles = 2
  MaxAt = 1
PROPERTIES
  ImplementsChannel
  SongIsPlayed
  QuietRoomMovesNothing
  FinalPolicyArrives
