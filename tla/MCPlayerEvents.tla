--------------------------- MODULE MCPlayerEvents ---------------------------
(***************************************************************************)
(* Who is after what in the small instances of PlayerEvents.               *)
(***************************************************************************)
EXTENDS PlayerEvents, TLC

CONSTANTS a, b, c1, w1

\* A collector after one code, a watcher (EventSignalThread) after all.
OneOfEach   == (c1 :> {b}) @@ (w1 :> {a, b})
\* A late watcher after one code beside a collector after the other.
Late        == (c1 :> {a}) @@ (w1 :> {b})
=============================================================================
