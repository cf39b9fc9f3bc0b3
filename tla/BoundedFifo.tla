---------------------------- MODULE BoundedFifo ----------------------------
(***************************************************************************)
(* What a ring of the player promises its clients, whatever its storage:   *)
(* the values come out in the order they went in, each once, none is       *)
(* invented, a full queue refuses and an empty one says so.                *)
(***************************************************************************)
EXTENDS Naturals, Sequences

CONSTANTS
  Consumers, Values, Nothing, MaxEntries,
  MayFlush          \* whether anybody throws the queue away

VARIABLES
  queue,
  got,              \* what the last extraction of a consumer returned
  calls             \* where the callers are: left to the implementation

Init == queue = <<>> /\ got = [c \in Consumers |-> Nothing]

Put(v) ==
  /\ Len(queue) < MaxEntries
  /\ queue' = Append(queue, v)
  /\ UNCHANGED got

Get(c) ==
  /\ queue # <<>>
  /\ got' = [got EXCEPT ![c] = Head(queue)]
  /\ queue' = Tail(queue)

GetNothing(c) ==
  /\ queue = <<>>
  /\ got' = [got EXCEPT ![c] = Nothing]
  /\ UNCHANGED queue

\* In one step, by a caller that is in no other call: a refused insertion must
\* not pass for a flush.
Flush == MayFlush /\ queue' = <<>> /\ UNCHANGED <<got, calls>>

Next ==
  \/ \E v \in Values : Put(v)
  \/ \E c \in Consumers : Get(c) \/ GetNothing(c)
  \/ Flush

Spec == Init /\ [][Next]_<<queue, got>>
============================================================================
