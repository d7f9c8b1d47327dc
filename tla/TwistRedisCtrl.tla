--------------------------- MODULE TwistRedisCtrl ---------------------------
(***************************************************************************)
(* TwistRedisCtrl: the reference of the TWIST policy comes from a Redis    *)
(* key.  A worker reads the key every 10 ms into a small buffer; the       *)
(* pipeline takes the oldest entry once a step, or repeats the last one.   *)
(***************************************************************************)
EXTENDS Integers, Sequences

CONSTANTS
  BufferSize, \* the deque's maxlen
  MaxValues   \* bound: values the publisher sets the key to

ASSUME BufferAssumption == BufferSize \in Nat \ {0}

VARIABLES
  key,      \* the value of the key, external: 0 when it was never set
  worker,   \* "connect", "poll" or "dead"
  buffer,   \* data_buffer
  lastData  \* 0 for None
redisVars == <<key, worker, buffer, lastData>>

RedisInit ==
  /\ key = 0
  /\ worker = "connect"
  /\ buffer = <<>> /\ lastData = 0

\* The publisher, another program.
Publish ==
  /\ key < MaxValues /\ key' = key + 1
  /\ UNCHANGED <<worker, buffer, lastData>>

ConnectedOnce ==
  /\ worker = "connect" /\ lastData = 0 /\ worker' = "poll"
  /\ UNCHANGED <<key, buffer, lastData>>
Connected ==
  /\ worker = "connect" /\ worker' = "poll"
  /\ UNCHANGED <<key, buffer, lastData>>
ConnectionLost ==
  /\ worker = "poll" /\ worker' = "connect"
  /\ UNCHANGED <<key, buffer, lastData>>
\* A value that is no JSON list of numbers ends the thread.
BadValue ==
  /\ worker = "poll" /\ worker' = "dead"
  /\ UNCHANGED <<key, buffer, lastData>>

\* deque.append: a full buffer drops its oldest entry.
Appended(v) == (IF Len(buffer) = BufferSize THEN Tail(buffer) ELSE buffer) \o <<v>>
Poll ==
  /\ worker = "poll"
  /\ key # 0
  /\ buffer' = Appended(key)
  /\ UNCHANGED <<key, worker, lastData>>

Newest == <<buffer[Len(buffer)], SubSeq(buffer, 1, Len(buffer) - 1)>>
Oldest == <<Head(buffer), Tail(buffer)>>
GetReference ==
  /\ IF buffer # <<>>
     THEN lastData' = Oldest[1] /\ buffer' = Oldest[2]
     ELSE UNCHANGED <<lastData, buffer>>
  /\ UNCHANGED <<key, worker>>

\* reset(): the buffer is emptied, the last value is kept.
ClearBuffer ==
  /\ buffer' = <<>>
  /\ UNCHANGED <<key, worker, lastData>>

\* The constructor returns with the first value; reset() comes after.
RedisStep == GetReference \/ (lastData # 0 /\ ClearBuffer)
Worker == Connected \/ ConnectionLost \/ BadValue \/ Poll
RedisNext == Publish \/ Worker \/ RedisStep

-----------------------------------------------------------------------------
\* The robot follows the stream in its order: a reference is never followed by
\* an older one, though the buffer drops, is emptied and repeats.
NeverBackwards == [][lastData' >= lastData]_redisVars

\* While the worker lives, the robot ends at the value the key was set to last:
\* what a full buffer drops is the old, a value that stays is read again.
EndsAtTheLastValue == <>[](worker # "dead") => <>[](lastData = key)
=============================================================================
