--------------------------- MODULE MCStreamPipeline -------------------------
(***************************************************************************)
(* The pipeline with what its first and its second drain may be.           *)
(***************************************************************************)
EXTENDS StreamPipeline

EveryPolicy    == <<{"playout", "discard"}, {"discard, parse all"}>>
PlayoutOnly    == <<{"playout"}>>
DiscardTwice   == <<{"discard"}, {"discard"}>>
SwitchOnly     == [n \in Markers |-> {"switch, playout", "switch, discard"}]
=============================================================================
