--------------------------- MODULE UnitreeEnv_proofs ---------------------------
(***************************************************************************)
(* Proofs that, for every number of motors and of commands, the robot      *)
(* accepts nothing but the damping command once shutdown() has returned,   *)
(* never a message that mixes more than two consecutive commands, and in   *)
(* the end that command for good.                                          *)
(***************************************************************************)
EXTENDS UnitreeEnv, TLAPS

Inv == TypeOK /\ FilledInv

\* The invariant holds at the start.
LEMMA InitInv == Init => Inv
BY EnvAssumption DEF Init, Inv, TypeOK, FilledInv, Thread, Damping

\* Every step preserves it.
LEMMA NextInv == ASSUME Inv, [Next]_vars PROVE Inv'
<1> USE EnvAssumption DEF Inv, TypeOK, FilledInv, Thread, Damping, Damped, envVars
<1>0. \A c \in Cell : ~(c < 1)
  BY DEF Cell
<1>1. CASE ControlJoints
  <2>1. number + 1 \in 0 .. Damping /\ 1 \in 1 .. 2 * NumDofs + 1
    BY <1>1 DEF ControlJoints
  <2> QED
    BY <1>0, <1>1, <2>1 DEF ControlJoints, Fill
<1>2. CASE SetDampingMode
  <2>1. Damping \in 0 .. Damping /\ 1 \in 1 .. 2 * NumDofs + 1
    OBVIOUS
  <2> QED
    BY <1>0, <1>2, <2>1 DEF SetDampingMode, Fill
<1>3. CASE WriteCell
  <2>1. at \in Cell /\ at' = at + 1 /\ at' \in 1 .. 2 * NumDofs + 1
    BY <1>3 DEF WriteCell, LastCell, Cell
  <2>2. /\ low_cmd' \in [Cell -> 0 .. Damping]
        /\ low_cmd'[at] = number
        /\ \A c \in Cell : c # at => low_cmd'[c] = low_cmd[c]
    BY <1>3, <2>1 DEF WriteCell
  <2>3. \A c \in Cell : c \in Nat
    BY DEF Cell
  <2>4. \A c \in Cell : c < at' => low_cmd'[c] = number
    BY <1>3, <2>1, <2>2, <2>3 DEF WriteCell
  <2>5. ~enabled => Damped(low_cmd)'
    BY <1>3, <2>2 DEF WriteCell
  <2> QED
    BY <1>3, <2>1, <2>2, <2>4, <2>5 DEF WriteCell
<1>4. CASE Filled
  <2>1. \A c \in Cell : c < at
    BY <1>4 DEF Filled, LastCell, Cell
  <2> QED
    BY <1>4, <2>1 DEF Filled
<1>5. ASSUME NEW t \in Thread, Checksum(t) PROVE Inv'
  BY <1>5 DEF Checksum
<1>6. ASSUME NEW t \in Thread, Write(t) PROVE Inv'
  <2>1. accepted' \in [Cell -> 0 .. Damping]
    BY <1>6 DEF Write
  <2>2. t = "pipeline" => \A c \in Cell : low_cmd[c] = number
    BY <1>6 DEF Write
  <2>3. ~enabled' => number' = Damping /\ Damped(low_cmd)'
    BY <1>6, <2>2 DEF Write
  <2> QED
    BY <1>6, <2>1, <2>3 DEF Write
<1>7. CASE UNCHANGED vars
  BY <1>7 DEF vars
<1> QED
  BY <1>1, <1>2, <1>3, <1>4, <1>5, <1>6, <1>7 DEF Next, Send

\* The invariant holds throughout.
THEOREM FilledCorrect == Spec => [](TypeOK /\ FilledInv)
<1>1. Init => Inv
  BY InitInv
<1>2. Inv /\ [Next]_vars => Inv'
  BY NextInv
<1> QED
  BY <1>1, <1>2, PTL DEF Spec, Inv

\* After shutdown() the robot accepts the damping command only.
THEOREM ShutdownSticks == Spec => DampedAfterShutdown
<1>1. TypeOK /\ FilledInv /\ [Next]_vars =>
        [~enabled /\ accepted' # accepted => Damped(accepted')]_vars
  <2> SUFFICES ASSUME TypeOK, FilledInv, [Next]_vars, ~enabled, accepted' # accepted
               PROVE  Damped(accepted')
    OBVIOUS
  <2>1. PICK t \in Thread : Write(t)
    BY DEF Next, Send, vars, envVars, Checksum, ControlJoints, SetDampingMode, Fill,
           WriteCell, Filled
  <2>2. accepted' = low_cmd
    BY <2>1 DEF Write
  <2> QED
    BY <2>2 DEF FilledInv, Damped
<1> QED
  BY <1>1, FilledCorrect, PTL DEF Spec, DampedAfterShutdown

-----------------------------------------------------------------------------
(***************************************************************************)
(* Torn commands.  What a message can be torn between is what low_cmd can: *)
(* while it is filled, the cells from `at' on still hold the command       *)
(* before; at any other time it is one command.                            *)
(***************************************************************************)
Behind(old) ==
  /\ number \in {old, old + 1, Damping}
  /\ \A c \in Cell : c >= at => low_cmd[c] = old

FillInv ==
  /\ pc["pipeline"] # "fill" => \A c \in Cell : low_cmd[c] = number
  /\ pc["pipeline"] = "fill" => \E old \in 0 .. Damping : Behind(old)

TearInv == FillInv /\ TearsAreNeighbours

\* A command whose cells all have one number is torn nowhere.
LEMMA WholeIsTorn ==
  ASSUME NEW m, NEW n \in 0 .. Damping, \A c \in Cell : m[c] = n
  PROVE  Torn(m)
<1>1. 1 \in Cell
  BY EnvAssumption DEF Cell
<1> QED
  BY <1>1 DEF Torn

\* low_cmd is never torn between more than two consecutive commands.
LEMMA LowCmdIsTorn == ASSUME TypeOK, FilledInv, FillInv PROVE Torn(low_cmd)
<1>1. CASE pc["pipeline"] # "fill"
  BY <1>1, WholeIsTorn DEF FillInv, TypeOK
<1>2. CASE pc["pipeline"] = "fill"
  <2>1. PICK old \in 0 .. Damping : Behind(old)
    BY <1>2 DEF FillInv
  <2>2. CASE at = 1
    <3>1. \A c \in Cell : c >= at
      BY <2>2 DEF Cell
    <3> QED
      BY <2>1, <3>1, WholeIsTorn DEF Behind
  <2>3. CASE at > 1
    <3>1. at - 1 \in Cell /\ at \in Nat
      BY <2>3, EnvAssumption DEF TypeOK, Cell
    <3>2. \A c \in Cell : low_cmd[c] = IF c <= at - 1 THEN number ELSE old
      <4> SUFFICES ASSUME NEW c \in Cell
                   PROVE  low_cmd[c] = IF c <= at - 1 THEN number ELSE old
        OBVIOUS
      <4>1. c \in Nat
        BY DEF Cell
      <4>2. CASE c <= at - 1
        <5>1. c < at
          BY <3>1, <4>1, <4>2
        <5> QED
          BY <1>2, <4>2, <5>1 DEF FilledInv
      <4>3. CASE ~(c <= at - 1)
        <5>1. c >= at
          BY <3>1, <4>1, <4>3
        <5> QED
          BY <2>1, <4>3, <5>1 DEF Behind
      <4> QED
        BY <4>2, <4>3
    <3> QED
      BY <2>1, <3>1, <3>2 DEF Torn, Behind, TypeOK
  <2> QED
    BY <2>2, <2>3, EnvAssumption DEF TypeOK
<1> QED
  BY <1>1, <1>2

\* Fill leaves the new command behind the one low_cmd is all of.
LEMMA FillTears ==
  ASSUME TypeOK, FillInv, NEW n, n \in {number + 1, Damping}, Fill(n)
  PROVE  FillInv'
<1>1. pc["pipeline"] = "idle" /\ pc'["pipeline"] = "fill"
  BY DEF Fill, TypeOK, Thread
<1>2. number \in 0 .. Damping /\ number' = n /\ low_cmd' = low_cmd /\ Damping' = Damping
  BY DEF Fill, TypeOK, Damping
<1>3. \A c \in Cell : low_cmd[c] = number
  BY <1>1 DEF FillInv
<1>4. PICK old \in 0 .. Damping : old = number
  BY <1>2
<1>5. Behind(old)'
  BY <1>1, <1>2, <1>3, <1>4 DEF Behind, Cell, Damping
<1> QED
  BY <1>1, <1>2, <1>5 DEF FillInv, Damping

\* The tear invariant holds at the start.
LEMMA InitTear == Init => TearInv
<1> SUFFICES ASSUME Init PROVE TearInv
  OBVIOUS
<1>1. \A c \in Cell : low_cmd[c] = 0 /\ accepted[c] = 0
  BY DEF Init
<1>2. 0 \in 0 .. Damping
  BY EnvAssumption DEF Damping
<1> QED
  BY <1>1, <1>2, WholeIsTorn DEF Init, TearInv, FillInv, Thread, TearsAreNeighbours

\* Every step preserves it.
LEMMA NextTear ==
  ASSUME TypeOK, FilledInv, TypeOK', FilledInv', TearInv, [Next]_vars
  PROVE  TearInv'
<1> USE DEF TearInv
<1>a. accepted' = accepted => TearsAreNeighbours'
  BY DEF TearsAreNeighbours, Torn, Damping, Cell
<1>b. UNCHANGED <<pc, number, at, low_cmd>> => FillInv'
  BY DEF FillInv, Behind, Damping, Cell
<1>1. CASE ControlJoints
  <2>1. Fill(number + 1) /\ accepted' = accepted
    BY <1>1 DEF ControlJoints, Fill
  <2> QED
    BY <1>a, <2>1, FillTears
<1>2. CASE SetDampingMode
  <2>1. Fill(Damping) /\ accepted' = accepted
    BY <1>2 DEF SetDampingMode, Fill
  <2> QED
    BY <1>a, <2>1, FillTears
<1>3. CASE WriteCell
  <2>1. PICK old \in 0 .. Damping : Behind(old)
    BY <1>3 DEF WriteCell, FillInv
  <2>2. \A c \in Cell : c >= at + 1 => low_cmd'[c] = old
    <3>1. \A c \in Cell : c >= at + 1 => c # at /\ c >= at
      BY DEF Cell, TypeOK
    <3>2. \A c \in Cell : c # at => low_cmd'[c] = low_cmd[c]
      BY <1>3 DEF WriteCell, TypeOK
    <3> QED
      BY <2>1, <3>1, <3>2 DEF Behind
  <2>3. Behind(old)'
    BY <1>3, <2>1, <2>2 DEF WriteCell, Behind, Damping, Cell
  <2> QED
    BY <1>3, <1>a, <2>3 DEF WriteCell, FillInv, Damping
<1>4. CASE Filled
  <2>1. \A c \in Cell : low_cmd'[c] = number'
    BY <1>4 DEF Filled, FilledInv, TypeOK, Thread, Cell, Damping
  <2> QED
    BY <1>4, <1>a, <2>1 DEF Filled, FillInv, envVars, TypeOK, Thread
<1>5. ASSUME NEW t \in Thread, Checksum(t) PROVE TearInv'
  <2>1. pc'["pipeline"] \in {pc["pipeline"], "write"}
        /\ (pc["pipeline"] = "fill" => pc'["pipeline"] = "fill")
        /\ (pc'["pipeline"] = "fill" => pc["pipeline"] = "fill")
    BY <1>5 DEF Checksum, TypeOK, Thread
  <2> QED
    BY <1>5, <1>a, <2>1 DEF Checksum, FillInv, Behind, envVars, Damping, Cell
<1>6. ASSUME NEW t \in Thread, Write(t) PROVE TearInv'
  <2>1. /\ pc["pipeline"] = "fill" => pc'["pipeline"] = "fill"
        /\ pc'["pipeline"] = "fill" => pc["pipeline"] = "fill"
    BY <1>6 DEF Write, TypeOK, Thread
  <2>2. FillInv'
    BY <1>6, <2>1 DEF Write, FillInv, Behind, Damping, Cell
  <2>3. accepted' \in {low_cmd, accepted}
    BY <1>6 DEF Write
  <2>4. Torn(low_cmd)
    BY LowCmdIsTorn
  <2>5. Torn(accepted')
    BY <2>3, <2>4 DEF TearsAreNeighbours
  <2> QED
    BY <2>2, <2>5 DEF TearsAreNeighbours, Torn, Damping, Cell
<1>7. CASE UNCHANGED vars
  BY <1>7, <1>a, <1>b DEF vars, envVars
<1> QED
  BY <1>1, <1>2, <1>3, <1>4, <1>5, <1>6, <1>7 DEF Next, Send

\* control_joints and send_cmd share low_cmd unlocked, and yet the robot never
\* accepts a mixture of more than two commands, nor of two that are not
\* consecutive (or one and the damping command).
THEOREM TearsStayLocal == Spec => []TearsAreNeighbours
<1>1. Init => TearInv
  BY InitTear
<1>2. TypeOK /\ FilledInv /\ (TypeOK /\ FilledInv)' /\ TearInv /\ [Next]_vars => TearInv'
  BY NextTear
<1>3. TearInv => TearsAreNeighbours
  BY DEF TearInv
<1> QED
  BY <1>1, <1>2, <1>3, FilledCorrect, PTL DEF Spec

-----------------------------------------------------------------------------
Control == Checksum("control") \/ Write("control")
\* ENABLED of the control thread's fair step: it always has one.
StepsAreTaken == ENABLED <<Control>>_vars
\* The loop over the motors of control_joints ends.
FillsEnd == []<>(pc["pipeline"] # "fill")

\* A pipeline between its commands has returned from the last one.
ReturnedInv == number = Damping /\ pc["pipeline"] = "idle" => ~enabled

\* low_cmd is all damping; so is the content of its checksum; the robot took it.
Emptied == number = Damping /\ Damped(low_cmd)
Sealed == Emptied /\ crc = low_cmd
Kept == Sealed /\ Damped(accepted)
\* ... with the control thread about to seal it, to send it.
Sealing == Emptied /\ pc["control"] = "checksum"
Sending == Sealed /\ pc["control"] = "write"

\* It holds at the start ...
LEMMA InitReturned == Init => ReturnedInv
BY EnvAssumption DEF Init, ReturnedInv, Damping, Thread
\* ... and no step of either thread breaks it.
LEMMA NextReturned ==
  ASSUME Inv, ReturnedInv, [Next]_vars PROVE ReturnedInv'
<1> USE EnvAssumption DEF Inv, TypeOK, ReturnedInv, Damping, Thread, vars, envVars
<1>1. CASE ControlJoints
  BY <1>1 DEF ControlJoints, Fill
<1>2. CASE SetDampingMode
  BY <1>2 DEF SetDampingMode, Fill
<1>3. CASE WriteCell \/ Filled
  BY <1>3 DEF WriteCell, Filled
<1>4. ASSUME NEW t \in Thread, Checksum(t) \/ Write(t) PROVE ReturnedInv'
  BY <1>4 DEF Checksum, Write
<1> QED
  BY <1>1, <1>2, <1>3, <1>4 DEF Next, Send

\* Once damping is asked for, low_cmd holds nothing else as soon as the loop over
\* the motors is over, and then a turn of the control thread seals and sends it.
LEMMA DampingGoesOn ==
  ASSUME Inv, ReturnedInv, [Next]_vars, number = Damping
  PROVE  /\ number' = Damping
         /\ pc["pipeline"] # "fill" => Emptied
         /\ Emptied => Emptied'
         /\ Emptied /\ Control => (Sealing \/ Sealed)'
         /\ Sealing => (Sealing \/ Sealed)'
         /\ Sealing /\ Control => Sealed'
         /\ Sealed => Sealed'
         /\ Sealed /\ Control => (Sending \/ Kept)'
         /\ Sending => (Sending \/ Kept)'
         /\ Sending /\ Control => Kept'
         /\ Kept => Kept'
<1> USE EnvAssumption DEF Emptied, Sealed, Kept, Sealing, Sending, Control, Thread
<1>0. /\ pc["control"] \in {"checksum", "write"}
      /\ pc \in [Thread -> {"idle", "fill", "checksum", "write"}]
      /\ low_cmd \in [Cell -> 0 .. Damping]
  BY DEF Inv, TypeOK
<1>1. pc["pipeline"] # "fill" => Emptied
  BY <1>0 DEF Inv, FilledInv, ReturnedInv, Damped
<1>2. CASE ControlJoints
  BY <1>2 DEF ControlJoints, Damping
<1>3. CASE SetDampingMode \/ Filled \/ UNCHANGED vars
  BY <1>0, <1>1, <1>3 DEF SetDampingMode, Fill, Filled, vars, envVars, Checksum, Write, Damped
<1>4. CASE WriteCell
  <2>1. at \in Cell /\ low_cmd' = [low_cmd EXCEPT ![at] = Damping]
    BY <1>4 DEF WriteCell, LastCell, Cell, Inv, TypeOK
  <2>2. Damped(low_cmd) => low_cmd' = low_cmd
    BY <1>0, <2>1 DEF Damped
  <2> QED
    BY <1>0, <1>1, <1>4, <2>2 DEF WriteCell, Checksum, Write, Damped
<1>5. ASSUME NEW t \in Thread, Checksum(t)
      PROVE  /\ UNCHANGED <<number, low_cmd, accepted>> /\ crc' = low_cmd
             /\ t = "control" => pc["control"] = "checksum" /\ pc'["control"] = "write"
             /\ t # "control" => pc'["control"] = pc["control"] /\ ~Control
  BY <1>0, <1>5 DEF Checksum, Write, envVars
<1>6. ASSUME NEW t \in Thread, Write(t)
      PROVE  /\ UNCHANGED <<number, low_cmd, crc>>
             /\ accepted' = IF crc = low_cmd THEN low_cmd ELSE accepted
             /\ t = "control" => pc["control"] = "write" /\ pc'["control"] = "checksum"
             /\ t # "control" => pc'["control"] = pc["control"] /\ ~Control
  BY <1>0, <1>6 DEF Checksum, Write, envVars
<1>7. CASE \E t \in Thread : Checksum(t)
  BY <1>0, <1>1, <1>5, <1>7 DEF Damped
<1>8. CASE \E t \in Thread : Write(t)
  BY <1>0, <1>1, <1>6, <1>8 DEF Damped
<1> QED
  BY <1>2, <1>3, <1>4, <1>7, <1>8 DEF Next, Send

\* After a shutdown the robot goes by the damping command in the end and for good:
\* for every number of motors, however many commands came before and in whatever
\* way the two threads shared low_cmd, if the control thread's step can be taken
\* (StepsAreTaken) and the loop over the motors ends (FillsEnd).
THEOREM ShutdownDamps ==
  FairSpec /\ []StepsAreTaken /\ FillsEnd => StaysDamped
<1> DEFINE Out == pc["pipeline"] # "fill"
           Asked == number = Damping
           I == Inv /\ ReturnedInv
<1>1. Spec => []I
  BY InitInv, NextInv, InitReturned, NextReturned, PTL DEF Spec
<1>2. ASSUME I, [Next]_vars, Asked
      PROVE  /\ Asked' /\ (Out => Emptied) /\ (Emptied => Emptied')
             /\ Sealing => (Sealing \/ Sealed)'
             /\ Sealed => Sealed'
             /\ Sending => (Sending \/ Kept)'
             /\ Kept => Kept'
  BY <1>2, DampingGoesOn
<1>3. ASSUME I, [Next]_vars, <<Control>>_vars
      PROVE  /\ Emptied => (Sealing \/ Sealed)'
             /\ Sealing => Sealed'
             /\ Sealed => (Sending \/ Kept)'
             /\ Sending => Kept'
  <2>1. Emptied \/ Sealed \/ Sealing \/ Sending => Asked
    BY DEF Emptied, Sealed, Sealing, Sending
  <2> QED
    BY <1>3, <2>1, DampingGoesOn
<1>4. /\ Emptied => Asked
      /\ Sealed => Emptied
      /\ Sealing => Emptied
      /\ Sending => Sealed
      /\ Kept => Sealed /\ Damped(accepted)
  BY DEF Emptied, Sealed, Kept, Sealing, Sending
<1>5. StepsAreTaken => ENABLED <<Control>>_vars
  BY DEF StepsAreTaken
<1>6. Fairness => WF_vars(Control)
  BY PTL DEF Fairness, Control
<1> HIDE DEF I, Out, Asked
<1>7. Spec /\ []I /\ []<>Out => [](Asked => <>Emptied)
  BY <1>2, PTL DEF Spec
<1>8. Spec /\ []I /\ WF_vars(Control) /\ []StepsAreTaken => [](Emptied => <>Sealed)
  BY <1>2, <1>3, <1>4, <1>5, PTL DEF Spec
<1>9. Spec /\ []I /\ WF_vars(Control) /\ []StepsAreTaken => [](Sealed => <>[]Kept)
  BY <1>2, <1>3, <1>4, <1>5, PTL DEF Spec
<1>10. FairSpec /\ []StepsAreTaken /\ []<>Out => [](Asked => <>[]Damped(accepted))
  BY <1>1, <1>4, <1>6, <1>7, <1>8, <1>9, PTL DEF FairSpec
<1> QED
  BY <1>10, PTL DEF Out, Asked, FillsEnd, StaysDamped
=============================================================================
