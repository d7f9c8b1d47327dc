--------------------------- MODULE ShazamFileWatch ---------------------------
(***************************************************************************)
(* ShazamFileWatchCtrl: a worker thread identifies the audio chunks of a   *)
(* directory and queues a hit for each; the pipeline thread looks at the   *)
(* head of the queue and takes it off.  The lock covers each access, never *)
(* a look and the taking that follows it.                                  *)
(*                                                                         *)
(* A hit's two clocks, the delay before the pipeline may see it and the    *)
(* age from which it is too old, are its age: held, ready or old.  Every   *)
(* hit is delayed alike and grows old alike, so the queue's ages never     *)
(* rise from its head to its tail.                                         *)
(***************************************************************************)
EXTENDS Integers, Sequences

CONSTANTS
  Chunks,       \* indices of the chunk files that may appear
  Songs,        \* what the matcher may identify
  RuleFor,      \* policies _resolve_policy_id may give a song, by its sections
  QueueMaxlen,  \* queue_maxlen
  InOrder       \* files are finished, and so handled, in index order

ASSUME ShazamAssumption ==
  /\ Chunks \in SUBSET Nat
  /\ RuleFor \in [Songs -> SUBSET Int]
  /\ QueueMaxlen \in Nat \ {0}
  /\ InOrder \in BOOLEAN

VARIABLES
  queue,  \* _queue
  seen    \* _seen_files: chunks handled, each once

watchVars == <<queue, seen>>

Age == {"held", "ready", "old"}

Hit == [pid : Int, song : Songs, idx : Chunks, age : Age]

NoHit == [pid |-> -1, song |-> "none", idx |-> -1, age |-> "old"]

-----------------------------------------------------------------------------
(***************************************************************************)
(* The worker                                                              *)
(***************************************************************************)

\* Mutant: a new hit goes to the head.
AppendedLeft(q, hit) ==
  <<hit>> \o (IF Len(q) = QueueMaxlen THEN Tail(q) ELSE q)

\* The queue is a bounded deque: appending to a full one drops its head.
Appended(q, hit) ==
  Append(IF Len(q) = QueueMaxlen THEN Tail(q) ELSE q, hit)

Next_Chunk(i) ==
  /\ i \in Chunks \ seen
  /\ InOrder => \A j \in seen : j < i
  /\ seen' = seen \cup {i}

\* The chunk is of a song with a policy.
HandleChunk(i, song, pid) ==
  /\ Next_Chunk(i)
  /\ pid \in RuleFor[song]
  /\ queue' = Appended(queue, [pid |-> pid, song |-> song, idx |-> i, age |-> "held"])

\* No confident match, or no rule for the song.
IgnoreChunk(i) ==
  /\ Next_Chunk(i)
  /\ UNCHANGED queue

-----------------------------------------------------------------------------
(***************************************************************************)
(* The pipeline's accesses                                                 *)
(***************************************************************************)

\* peek_pending: the head, once its release time has come.
Peek(q) == IF q # <<>> /\ q[1].age # "held" THEN q[1] ELSE NoHit

\* pop_pending takes the head it finds, whatever an earlier look returned.
AfterPop(q) == IF Peek(q) = NoHit THEN q ELSE Tail(q)

ResetQueue == queue' = <<>> /\ UNCHANGED seen

-----------------------------------------------------------------------------
(***************************************************************************)
(* The clock                                                               *)
(***************************************************************************)
Grow(from, to) ==
  \E i \in 1 .. Len(queue) :
    /\ queue[i].age = from
    /\ \A j \in 1 .. i - 1 : queue[j].age # from
    /\ queue' = [queue EXCEPT ![i].age = to]

HitReleased == Grow("held", "ready") /\ UNCHANGED seen

HitGrowsOld == Grow("ready", "old") /\ UNCHANGED seen

-----------------------------------------------------------------------------
WatchInit == queue = <<>> /\ seen = {}
=============================================================================
