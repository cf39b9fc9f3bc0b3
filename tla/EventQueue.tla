----------------------------- MODULE EventQueue -----------------------------
(***************************************************************************)
(* What Player_Generic_c promises of its event records: they are kept in   *)
(* the order they were signalled, a collector gets the oldest one that     *)
(* meets its criteria, and only when there is no more room is the oldest   *)
(* record thrown away.                                                     *)
(***************************************************************************)
EXTENDS Naturals, Sequences

CONSTANTS Codes, Collectors, Criteria, MaxEvents, Nothing

VARIABLES queue, got        \* got: what the last call of a collector returned

Init == queue = <<>> /\ got = [c \in Collectors |-> Nothing]

Signal(code) ==
  /\ Len(queue) < MaxEvents
  /\ queue' = Append(queue, code)
  /\ UNCHANGED got

Discard ==
  /\ Len(queue) = MaxEvents
  /\ queue' = Tail(queue)
  /\ UNCHANGED got

Matching(c) == {k \in DOMAIN queue : queue[k] \in Criteria[c]}

Collect(c) ==
  \E k \in Matching(c) :
    /\ \A j \in Matching(c) : k <= j
    /\ queue' = SubSeq(queue, 1, k - 1) \o SubSeq(queue, k + 1, Len(queue))
    /\ got' = [got EXCEPT ![c] = queue[k]]

CollectNothing(c) ==
  /\ Matching(c) = {}
  /\ got' = [got EXCEPT ![c] = Nothing]
  /\ UNCHANGED queue

Next ==
  \/ \E code \in Codes : Signal(code)
  \/ Discard
  \/ \E c \in Collectors : Collect(c) \/ CollectNothing(c)

Spec == Init /\ [][Next]_<<queue, got>>
=============================================================================
