-------------------------- MODULE MCMotionPlayback --------------------------
EXTENDS MotionPlayback

Motion(kind, poses, max, speed, auto, still, active, own) ==
  [kind |-> kind, poses |-> poses, max |-> max, speed |-> speed, auto |-> auto,
   still |-> still, active |-> active, own |-> own]

Pausing == <<1, 2, 2, 3, 4>>
Moving == <<1, 2, 3, 4>>

\* Native speed with a pause; faster and slower; a configured length; a motion of
\* the controller's; the two other policies.
MCMotions ==
  {Motion("beyondmimic", Pausing, 0, 4, TRUE, 3, 2, TRUE),
   Motion("beyondmimic", Moving, 0, 6, TRUE, 2, 2, TRUE),
   Motion("beyondmimic", Pausing, 0, 3, TRUE, 4, 2, TRUE),
   Motion("beyondmimic", Moving, 12, 4, FALSE, 2, 2, TRUE),
   Motion("beyondmimic", Moving, 0, 4, FALSE, 2, 2, FALSE),
   Motion("asap", Moving, 12, 4, FALSE, 2, 2, FALSE),
   Motion("tracker", Moving, 0, 4, FALSE, 2, 2, FALSE)}
MCWindows == {[from |-> 0, to |-> 8], [from |-> 8, to |-> 16]}
\* MCMotions pauses for fewer steps than it takes to end.
ASSUME PausesAreShort

MCLibrary == 0..1
\* The number past the library too.
MCIds == 0..2
MCOffset == [m \in MCLibrary |-> m + 5]
=============================================================================
