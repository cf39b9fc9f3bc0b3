--------------------------- MODULE StreamPipeline ---------------------------
(***************************************************************************)
(* One stream of Player_Generic_c playing forward: the four processes      *)
(* (collate to parse, parse to decode, decode to manifest, post manifest), *)
(* the four rings they read, the video frame parser, codec and manifestor  *)
(* between them, InternalDrainStream, which sends a marker frame through    *)
(* all of it, and SwitchStream, which drains the old stream and has each   *)
(* process exchange its class when the marker has gone by.                 *)
(*                                                                         *)
(* A frame is known by its number in the order of collation.  A reference  *)
(* frame is displayed after the frames that follow it up to the next       *)
(* reference frame: its DisplayFrameIndex is left open until then.  Each   *)
(* frame takes one decode; decodes end in order.  Rings never fill:        *)
(* their size is that of the pools.                                        *)
(***************************************************************************)
EXTENDS Integers, Sequences, FiniteSets, SequencesExt, FiniteSetsExt

CONSTANTS
  MaxFrames,               \* frames the collator makes
  MaxDrains,               \* drains that are begun
  MaxWork,                 \* frames and drains together
  MayBe,                   \* MayBe[n] is what the n-th drain may be
  RingSize,                \* PLAYER_MAX_RING_SIZE
  MaxDecodesOutOfOrder,    \* frames held back for one that is not there
  MaxDiscardedFrames,      \* PLAYER_MAX_DISCARDED_FRAMES
  MaxMessages              \* PLAYER_MAX_CTOP_MESSAGES and those of the other processes

\* How a stream is drained, or drained and switched.
Policies == {"playout", "discard", "discard, parse all", "switch, playout", "switch, discard"}
IsSwitch(policy) == policy \in {"switch, playout", "switch, discard"}
Plays(policy)    == policy \in {"playout", "switch, playout"}
Frames  == 1 .. MaxFrames
Markers == 1 .. MaxDrains
INVALID_INDEX == 99        \* the largest unsigned int
None          == 0         \* no frame, no marker

ASSUME PipelineAssumption ==
  /\ MaxFrames \in 0 .. INVALID_INDEX - 1 /\ MaxDrains \in Nat /\ MaxWork \in Nat
  /\ MayBe \in [Markers -> SUBSET Policies]
  /\ RingSize \in Nat \ {0} /\ MaxDecodesOutOfOrder \in Nat \ {0}
  /\ MaxDiscardedFrames \in Nat /\ MaxMessages \in Nat

VARIABLES
  CollatedFrameRing, ParsedFrameRing, DecodedFrameRing, ManifestedBufferRing,
  collated,                        \* how many frames are collated
  reference,                       \* which of them are reference frames
  collatedBy,                      \* the collator that made them
  NextBufferSequenceNumber, MarkerInCodedFrameIndex,
  DiscardingUntilMarkerFrame,      \* the flags of CtoP, PtoD and DtoM
  DisplayFrameIndex, CollapseHolesInDisplayIndices,    \* of every frame
  parser,                          \* the deferred frame, the next index, the collapse to come
  PtoDBuffer,                      \* what ParseToDecode has in hand
  NonDecoded,                      \* table of frames that are not decoded
  codec,                           \* what is in the codec, in order
  AccumulatedBufferTable, MarkerFrameBuffer, DtoMBuffer, DesiredFrameIndex,
  MaximumActualSequenceNumberSeen, \* of DtoM and PostM
  Accumulated,                     \* sequence values of the control messages they hold
  manifestor,                      \* frames queued for display
  Drained, DrainSequenceNumber, drain,
  mappingReset,                    \* sequence value of the last ResetTimeMapping
  switch                           \* the classes of the stream and the state of a switch

input == <<collated, reference, collatedBy>>
rings == <<CollatedFrameRing, ParsedFrameRing, DecodedFrameRing, ManifestedBufferRing>>
parse == <<DisplayFrameIndex, CollapseHolesInDisplayIndices, parser>>
dtom  == <<AccumulatedBufferTable, MarkerFrameBuffer, DtoMBuffer, DesiredFrameIndex>>
msgs  == <<MaximumActualSequenceNumberSeen, Accumulated, mappingReset>>
drn   == <<Drained, DrainSequenceNumber, drain>>
vars  == <<rings, input, switch, NextBufferSequenceNumber, MarkerInCodedFrameIndex,
           DiscardingUntilMarkerFrame, parse, PtoDBuffer, NonDecoded, codec, dtom, msgs,
           manifestor, drn>>

Processes == {"CtoP", "PtoD", "DtoM", "PostM"}

\* What travels: a frame, a marker frame, the empty frame of an input jump,
\* or a control structure: one of the calls made before or after a number is
\* seen.  A frame has its sequence number from CtoP on.
Item(kind, id, value) == [kind |-> kind, id |-> id, Value |-> value]
Nothing   == Item("nothing", None, 0)
IsFrame(m)  == m.kind = "frame"
IsMarker(m) == m.kind = "marker"
BeforeCalls == {"ResetTimeMapping", "SwitchComplete"}
AfterCalls  == {"SetDrained", "SwitchFrameParser", "SwitchCodec", "SwitchOutputTimer"}
IsControl(m) == m.kind \in BeforeCalls \cup AfterCalls

\* The parser after its constructor, and after Reset.
ParserReset == [deferred |-> None, NextDisplayFrameIndex |-> 0, collapse |-> TRUE]

Init ==
  /\ CollatedFrameRing = <<>> /\ ParsedFrameRing = <<>>
  /\ DecodedFrameRing = <<>> /\ ManifestedBufferRing = <<>>
  /\ collated = 0 /\ reference = [f \in Frames |-> FALSE]
  /\ collatedBy = [f \in Frames |-> 0]
  /\ NextBufferSequenceNumber = 0 /\ MarkerInCodedFrameIndex = None
  /\ DiscardingUntilMarkerFrame = [p \in {"CtoP", "PtoD", "DtoM"} |-> FALSE]
  /\ DisplayFrameIndex = [f \in Frames |-> INVALID_INDEX]
  /\ CollapseHolesInDisplayIndices = [f \in Frames |-> FALSE]
  /\ parser = ParserReset
  /\ PtoDBuffer = Nothing /\ codec = <<>>
  /\ NonDecoded = [released |-> {}, held |-> {}, DisplayIndicesCollapse |-> 0]
  /\ AccumulatedBufferTable = {} /\ MarkerFrameBuffer = Nothing
  /\ DtoMBuffer = Nothing /\ DesiredFrameIndex = 0
  /\ MaximumActualSequenceNumberSeen = [p \in Processes |-> 0]
  /\ Accumulated = [p \in Processes |-> {}]
  /\ manifestor = <<>>
  /\ Drained = FALSE /\ DrainSequenceNumber = 0
  /\ drain = [pc |-> "idle", discard |-> FALSE, n |-> 0, alone |-> TRUE, switch |-> FALSE,
              failed |-> FALSE]
  /\ mappingReset = 0
  /\ switch = [Collator |-> 0, FrameParser |-> 0, Codec |-> 0, InProgress |-> FALSE,
               LastOneOutOfTheCodec |-> FALSE, CodecReset |-> FALSE, halted |-> {}]

\* Mutant: not those for this very number.
DueBefore(p, number, calls) ==
  {m \in Accumulated[p] : m.kind \in calls /\ m.Value < number}

\* ProcessAccumulatedControlMessages: the calls due at this sequence number.
Due(p, number, calls) ==
  {m \in Accumulated[p] : m.kind \in calls /\ m.Value <= number}

\* Mutant: a control structure is always acted on.
ReachedAnyway(p, v) == TRUE

\* ProcessControlMessage: is this number seen already?
Reached(p, v) == v <= MaximumActualSequenceNumberSeen[p]

See(p, number) ==
  MaximumActualSequenceNumberSeen' =
    [MaximumActualSequenceNumberSeen EXCEPT ![p] = Max({@, number})]

\* A call whose number has not been seen is kept, in the table of those before
\* or that of those after, and lost when that table is full.
Accumulate(p, m) ==
  LET table == {o \in Accumulated[p] : o.kind \in AfterCalls <=> m.kind \in AfterCalls} IN
  Accumulated' = IF Cardinality(table) = MaxMessages THEN Accumulated
                 ELSE [Accumulated EXCEPT ![p] = @ \cup {m}]

ResetTimes(calls) == {m.Value : m \in {o \in calls : o.kind = "ResetTimeMapping"}}

\* Mutant: DecodeToManifest goes on discarding.
StopDiscardingUpstream(p) ==
  DiscardingUntilMarkerFrame' =
    IF p = "DtoM" THEN DiscardingUntilMarkerFrame
    ELSE [DiscardingUntilMarkerFrame EXCEPT ![p] = FALSE]
\* The marker ends what process p discards.
StopDiscarding(p) ==
  DiscardingUntilMarkerFrame' = [DiscardingUntilMarkerFrame EXCEPT ![p] = FALSE]

(***************************************************************************)
(* The collator.                                                           *)
(***************************************************************************)
\* From its marker to the last of its calls nobody feeds a stream that is being
\* switched.
InSwitchStream == drain.switch /\ drain.pc \in
  {"before", "after", "collator", "parser", "codec class", "timer", "complete"}

Collate(isReference) ==
  /\ ~InSwitchStream /\ collated < MaxFrames /\ collated + drain.n < MaxWork
  /\ collated' = collated + 1
  /\ reference' = [reference EXCEPT ![collated'] = isReference]
  /\ collatedBy' = [collatedBy EXCEPT ![collated'] = switch.Collator]
  /\ CollatedFrameRing' = Append(CollatedFrameRing, Item("frame", collated', 0))
  /\ UNCHANGED <<ParsedFrameRing, DecodedFrameRing, ManifestedBufferRing, switch,
                 NextBufferSequenceNumber, MarkerInCodedFrameIndex,
                 DiscardingUntilMarkerFrame, parse, PtoDBuffer, NonDecoded, codec, dtom,
                 msgs, manifestor, drn>>

(***************************************************************************)
(* ProcessCollateToParse and the frame parser it calls.                    *)
(***************************************************************************)
\* CalculateFrameIndexAndPts: f is the next to be displayed.
CalculateFrameIndex(f) ==
  /\ DisplayFrameIndex' = [DisplayFrameIndex EXCEPT ![f] = parser.NextDisplayFrameIndex]
  /\ CollapseHolesInDisplayIndices' =
       [CollapseHolesInDisplayIndices EXCEPT ![f] = parser.collapse]

NextIndex(deferred, collapse) ==
  parser' = [deferred |-> deferred, collapse |-> collapse,
             NextDisplayFrameIndex |-> parser.NextDisplayFrameIndex + 1]

\* A frame that is not a reference frame has its index at once; a reference
\* frame gives the one deferred before it its index and is itself deferred.
ParseFrame(f) ==
  CASE ~reference[f] ->
         CalculateFrameIndex(f) /\ NextIndex(parser.deferred, FALSE)
    [] reference[f] /\ parser.deferred # None ->
         CalculateFrameIndex(parser.deferred) /\ NextIndex(f, FALSE)
    [] OTHER ->
         /\ parser' = [parser EXCEPT !.deferred = f]
         /\ UNCHANGED <<DisplayFrameIndex, CollapseHolesInDisplayIndices>>

\* Mutant: the frame that is deferred stays deferred.
ParseJumpKeepsDeferred ==
  /\ parser' = [parser EXCEPT !.collapse = TRUE]
  /\ UNCHANGED <<DisplayFrameIndex, CollapseHolesInDisplayIndices>>

\* At a discontinuity nothing stays deferred, and the indices may leap.
ParseJump ==
  IF parser.deferred # None
  THEN CalculateFrameIndex(parser.deferred) /\ NextIndex(None, TRUE)
  ELSE /\ parser' = [parser EXCEPT !.collapse = TRUE]
       /\ UNCHANGED <<DisplayFrameIndex, CollapseHolesInDisplayIndices>>

\* ForPlayPurgeQueuedPostDecodeParameterSettings.
ParsePurge ==
  IF parser.deferred # None
  THEN CalculateFrameIndex(parser.deferred) /\ NextIndex(None, FALSE)
  ELSE UNCHANGED parse

\* SwitchFrameParser: the parser is halted, then the last decode of the old
\* stream is waited for.
SwitchFrameParser == ParsePurge /\ switch' = [switch EXCEPT !.halted = @ \cup {"CtoP"}]

\* What comes before the marker has lower numbers, so that only the marker, or
\* its being seen already, makes a call due.
CtoPMarker ==
  /\ "CtoP" \notin switch.halted /\ CollatedFrameRing # <<>>
  /\ LET m   == Head(CollatedFrameRing)
         due == Due("CtoP", m.Value, AfterCalls) IN
     /\ IsMarker(m) /\ m.id = MarkerInCodedFrameIndex
     /\ NextBufferSequenceNumber' = m.Value + 1
     /\ See("CtoP", m.Value)
     /\ ParsedFrameRing' = Append(ParsedFrameRing, m)
     /\ Accumulated' = [Accumulated EXCEPT !["CtoP"] = @ \ due]
     /\ IF due # {} THEN SwitchFrameParser ELSE UNCHANGED <<parse, switch>>
  /\ CollatedFrameRing' = Tail(CollatedFrameRing)
  /\ StopDiscarding("CtoP")
  /\ MarkerInCodedFrameIndex' = None
  /\ UNCHANGED <<DecodedFrameRing, ManifestedBufferRing, input, PtoDBuffer, NonDecoded,
                 codec, dtom, mappingReset, manifestor, drn>>

\* Frames and jumps are numbered; frames are dropped while discarding.
CtoPFrame ==
  /\ "CtoP" \notin switch.halted /\ CollatedFrameRing # <<>>
  /\ LET m == [Head(CollatedFrameRing) EXCEPT !.Value = NextBufferSequenceNumber] IN
     /\ ~IsMarker(m) /\ ~IsControl(m)
     /\ See("CtoP", m.Value)
     /\ \/ /\ m.kind = "jump"
           /\ ParseJump /\ UNCHANGED ParsedFrameRing
        \/ /\ IsFrame(m) /\ DiscardingUntilMarkerFrame["CtoP"]
           /\ UNCHANGED <<parse, ParsedFrameRing>>
        \/ /\ IsFrame(m) /\ ~DiscardingUntilMarkerFrame["CtoP"]
           /\ ParseFrame(m.id) /\ ParsedFrameRing' = Append(ParsedFrameRing, m)
  /\ NextBufferSequenceNumber' = NextBufferSequenceNumber + 1
  /\ CollatedFrameRing' = Tail(CollatedFrameRing)
  /\ UNCHANGED <<DecodedFrameRing, ManifestedBufferRing, input, switch,
                 MarkerInCodedFrameIndex, DiscardingUntilMarkerFrame, PtoDBuffer,
                 NonDecoded, codec, dtom, Accumulated, mappingReset, manifestor, drn>>

CtoPControl ==
  /\ "CtoP" \notin switch.halted /\ CollatedFrameRing # <<>>
  /\ LET m == Head(CollatedFrameRing) IN
     /\ IsControl(m)
     /\ IF Reached("CtoP", m.Value)
        THEN SwitchFrameParser /\ UNCHANGED Accumulated
        ELSE Accumulate("CtoP", m) /\ UNCHANGED <<parse, switch>>
  /\ CollatedFrameRing' = Tail(CollatedFrameRing)
  /\ UNCHANGED <<ParsedFrameRing, DecodedFrameRing, ManifestedBufferRing, input,
                 NextBufferSequenceNumber, MarkerInCodedFrameIndex,
                 DiscardingUntilMarkerFrame, PtoDBuffer, NonDecoded, codec, dtom,
                 MaximumActualSequenceNumberSeen, mappingReset, manifestor, drn>>

\* The end of SwitchFrameParser: the parser is reset and the new one, made for
\* the collator that is there already, takes its place.
CtoPSwitch ==
  /\ "CtoP" \in switch.halted /\ switch.LastOneOutOfTheCodec
  /\ parser' = ParserReset
  /\ switch' = [switch EXCEPT !.halted = @ \ {"CtoP"}, !.FrameParser = switch.Collator]
  /\ UNCHANGED <<rings, input, NextBufferSequenceNumber, MarkerInCodedFrameIndex,
                 DiscardingUntilMarkerFrame, DisplayFrameIndex,
                 CollapseHolesInDisplayIndices, PtoDBuffer, NonDecoded, codec, dtom, msgs,
                 manifestor, drn>>

(***************************************************************************)
(* ProcessParseToDecode and the codec.                                     *)
(***************************************************************************)
PtoDExtract ==
  /\ "PtoD" \notin switch.halted /\ PtoDBuffer = Nothing
  /\ ParsedFrameRing # <<>> /\ ~IsControl(Head(ParsedFrameRing))
  /\ PtoDBuffer' = Head(ParsedFrameRing)
  /\ See("PtoD", PtoDBuffer'.Value)
  /\ ParsedFrameRing' = Tail(ParsedFrameRing)
  /\ IF IsMarker(Head(ParsedFrameRing)) THEN StopDiscarding("PtoD")
                                         ELSE UNCHANGED DiscardingUntilMarkerFrame
  /\ UNCHANGED <<CollatedFrameRing, DecodedFrameRing, ManifestedBufferRing, input, switch,
                 NextBufferSequenceNumber, MarkerInCodedFrameIndex, parse, NonDecoded,
                 codec, dtom, Accumulated, mappingReset, manifestor, drn>>

\* SwitchCodec, once the buffer in hand has been dealt with: ParseToDecode
\* waits for the last decode of the old stream.
PtoDCallsAfter ==
  LET due == Due("PtoD", PtoDBuffer.Value, AfterCalls) IN
  /\ Accumulated' = [Accumulated EXCEPT !["PtoD"] = @ \ due]
  /\ switch' = IF due = {} THEN switch ELSE [switch EXCEPT !.halted = @ \cup {"PtoD"}]

PtoDControl ==
  /\ "PtoD" \notin switch.halted /\ PtoDBuffer = Nothing
  /\ ParsedFrameRing # <<>> /\ IsControl(Head(ParsedFrameRing))
  /\ LET m == Head(ParsedFrameRing) IN
     IF Reached("PtoD", m.Value)
     THEN switch' = [switch EXCEPT !.halted = @ \cup {"PtoD"}] /\ UNCHANGED Accumulated
     ELSE Accumulate("PtoD", m) /\ UNCHANGED switch
  /\ ParsedFrameRing' = Tail(ParsedFrameRing)
  /\ UNCHANGED <<CollatedFrameRing, DecodedFrameRing, ManifestedBufferRing, input,
                 NextBufferSequenceNumber, MarkerInCodedFrameIndex,
                 DiscardingUntilMarkerFrame, parse, PtoDBuffer, NonDecoded, codec, dtom,
                 MaximumActualSequenceNumberSeen, mappingReset, manifestor, drn>>

\* The codec is halted, which loses what is still in it, and exchanged; frames
\* of the old one are from here on not released through the codec.
PtoDSwitch ==
  /\ "PtoD" \in switch.halted /\ switch.LastOneOutOfTheCodec
  /\ codec' = <<>>
  /\ switch' = [switch EXCEPT !.halted = @ \ {"PtoD"}, !.CodecReset = TRUE,
                              !.Codec = switch.Collator]
  /\ UNCHANGED <<rings, input, NextBufferSequenceNumber, MarkerInCodedFrameIndex,
                 DiscardingUntilMarkerFrame, parse, PtoDBuffer, NonDecoded, dtom, msgs,
                 manifestor, drn>>

\* The codec without the marker it may hold.
CodecUnmarked ==
  IF \E i \in DOMAIN codec : IsMarker(codec[i])
  THEN RemoveAt(codec, CHOOSE i \in DOMAIN codec : IsMarker(codec[i]))
  ELSE codec

\* The codec holds one marker: a second one takes the place of the first.
PtoDPass ==
  /\ PtoDBuffer # Nothing /\ ~DiscardingUntilMarkerFrame["PtoD"]
  /\ codec' = Append(IF IsMarker(PtoDBuffer) THEN CodecUnmarked ELSE codec, PtoDBuffer)
  /\ PtoDCallsAfter
  /\ PtoDBuffer' = Nothing
  /\ UNCHANGED <<rings, input, NextBufferSequenceNumber, MarkerInCodedFrameIndex,
                 DiscardingUntilMarkerFrame, parse, NonDecoded, dtom,
                 MaximumActualSequenceNumberSeen, mappingReset, manifestor, drn>>

\* Mutant: an index that is open is noted.
RecordNonDecodedFrameUnindexed(f) ==
  NonDecoded' = [NonDecoded EXCEPT !.released = @ \cup {f},
                   !.DisplayIndicesCollapse = Max({@, DisplayFrameIndex[f]})]

\* RecordNonDecodedFrame, unless the table is full: an index that is known is
\* noted, a frame whose index is open is kept until it has one.
RecordNonDecodedFrame(f) ==
  NonDecoded' =
    IF Cardinality(NonDecoded.released \cup NonDecoded.held) = MaxDiscardedFrames
    THEN NonDecoded
    ELSE IF DisplayFrameIndex[f] = INVALID_INDEX
    THEN [NonDecoded EXCEPT !.held = @ \cup {f}]
    ELSE [NonDecoded EXCEPT
            !.released = @ \cup {f},
            !.DisplayIndicesCollapse =
               IF DiscardingUntilMarkerFrame["PtoD"] \/ CollapseHolesInDisplayIndices[f]
               THEN Max({@, DisplayFrameIndex[f]}) ELSE @]

\* A frame is dropped while discarding, or because the output timer says so;
\* a marker when the flag is set again just after it has cleared it.
PtoDDiscard ==
  /\ PtoDBuffer # Nothing
  /\ IsFrame(PtoDBuffer) \/ DiscardingUntilMarkerFrame["PtoD"]
  /\ IF IsFrame(PtoDBuffer) THEN RecordNonDecodedFrame(PtoDBuffer.id)
                            ELSE UNCHANGED NonDecoded
  /\ PtoDCallsAfter
  /\ PtoDBuffer' = Nothing
  /\ UNCHANGED <<rings, input, NextBufferSequenceNumber, MarkerInCodedFrameIndex,
                 DiscardingUntilMarkerFrame, parse, codec, dtom,
                 MaximumActualSequenceNumberSeen, mappingReset, manifestor, drn>>

CodecOutput ==
  /\ codec # <<>>
  /\ codec' = Tail(codec)
  /\ DecodedFrameRing' = IF Head(codec).kind = "dropped" THEN DecodedFrameRing
                         ELSE Append(DecodedFrameRing, Head(codec))
  /\ UNCHANGED <<CollatedFrameRing, ParsedFrameRing, ManifestedBufferRing, input, switch,
                 NextBufferSequenceNumber, MarkerInCodedFrameIndex,
                 DiscardingUntilMarkerFrame, parse, PtoDBuffer, NonDecoded, dtom, msgs,
                 manifestor, drn>>

(***************************************************************************)
(* ProcessDecodeToManifest.  Its loop looks for the next frame in the      *)
(* table, then steps over what is not decoded, then passes on a marker or  *)
(* takes the next buffer from its ring.                                    *)
(***************************************************************************)
Known  == {m \in AccumulatedBufferTable : DisplayFrameIndex[m.id] # INVALID_INDEX}
Lowest == CHOOSE m \in Known :
            \A o \in Known : DisplayFrameIndex[m.id] <= DisplayFrameIndex[o.id]

Selectable ==
  /\ Known # {}
  /\ \/ DisplayFrameIndex[Lowest.id] = DesiredFrameIndex
     \/ Cardinality(AccumulatedBufferTable) >= MaxDecodesOutOfOrder
     \/ CollapseHolesInDisplayIndices[Lowest.id]
     \/ IsMarker(MarkerFrameBuffer)

\* Mutant: the desired index leaps to that of any frame held.
SkipNonDecodedLeaping ==
  LET indexed == {f \in NonDecoded.held : DisplayFrameIndex[f] # INVALID_INDEX} IN
  [desired |-> Max({DesiredFrameIndex} \cup {DisplayFrameIndex[f] + 1 : f \in indexed}),
   table   |-> [NonDecoded EXCEPT !.held = @ \ indexed]]

\* CheckForNonDecodedFrame, called until it finds no more: frames held for
\* their index are let go once it is there, the desired index moves past
\* every noted index in its way and to the collapse index at least.
SkipNonDecoded ==
  LET indexed  == {f \in NonDecoded.held : DisplayFrameIndex[f] # INVALID_INDEX}
      noted    == NonDecoded.released \cup indexed
      collapse == Max({NonDecoded.DisplayIndicesCollapse} \cup
                      {DisplayFrameIndex[f] : f \in {g \in indexed :
                          \/ DiscardingUntilMarkerFrame["DtoM"]
                          \/ CollapseHolesInDisplayIndices[g]}})
      indices  == {DisplayFrameIndex[f] : f \in noted}
      free     == {d \in DesiredFrameIndex .. DesiredFrameIndex + collapse + MaxFrames :
                      d \notin indices /\ d >= collapse}
      desired  == IF noted \cup NonDecoded.held = {} THEN DesiredFrameIndex ELSE Min(free)
  IN [desired |-> desired,
      table   |-> [released |-> {f \in noted : DisplayFrameIndex[f] > desired},
                   held |-> NonDecoded.held \ indexed,
                   DisplayIndicesCollapse |-> collapse]]

\* The number that holds with the frame m in hand: one that was overtaken in the
\* decoder has that of the ones still held back, so that nothing happens early.
\* What comes straight from the ring has the largest number seen.
Number(m) == Min({m.Value} \cup {o.Value : o \in AccumulatedBufferTable})

TakeFrame(m, desired) ==
  LET due == Due("DtoM", Number(m), BeforeCalls) IN
     /\ DtoMBuffer' = m
     /\ See("DtoM", m.Value)
     /\ DesiredFrameIndex' = IF CollapseHolesInDisplayIndices[m.id]
                             THEN Max({desired, DisplayFrameIndex[m.id]}) ELSE desired
     /\ Accumulated' = [Accumulated EXCEPT !["DtoM"] = @ \ due]
     /\ mappingReset' = Max({mappingReset} \cup ResetTimes(due))

\* SwitchOutputTimer, after the frame in hand or the marker m: whoever waits to
\* exchange the codec may go on.  The output timer itself stays.
LastOneOut(due) ==
  switch' = IF \E m \in due : m.kind = "SwitchOutputTimer"
            THEN [switch EXCEPT !.LastOneOutOfTheCodec = TRUE] ELSE switch

DtoMCallsAfter(m) ==
  LET due == Due("DtoM", Number(m), AfterCalls) IN
  /\ Accumulated' = [Accumulated EXCEPT !["DtoM"] = @ \ due]
  /\ LastOneOut(due)

DtoMSelect ==
  /\ DtoMBuffer = Nothing /\ Selectable
  /\ TakeFrame(Lowest, DesiredFrameIndex)
  /\ AccumulatedBufferTable' = AccumulatedBufferTable \ {Lowest}
  /\ UNCHANGED <<rings, input, switch, NextBufferSequenceNumber, MarkerInCodedFrameIndex,
                 DiscardingUntilMarkerFrame, parse, PtoDBuffer, NonDecoded, codec,
                 MarkerFrameBuffer, manifestor, drn>>

DtoMMarker ==
  /\ DtoMBuffer = Nothing /\ ~Selectable /\ IsMarker(MarkerFrameBuffer)
  /\ DesiredFrameIndex' = SkipNonDecoded.desired /\ NonDecoded' = SkipNonDecoded.table
  /\ LET v   == MarkerFrameBuffer.Value
         due == Due("DtoM", v, BeforeCalls \cup AfterCalls) IN
     /\ See("DtoM", v)
     /\ Accumulated' = [Accumulated EXCEPT !["DtoM"] = @ \ due]
     /\ mappingReset' = Max({mappingReset} \cup ResetTimes(due))
     /\ LastOneOut(due)
  /\ ManifestedBufferRing' = Append(ManifestedBufferRing, MarkerFrameBuffer)
  /\ MarkerFrameBuffer' = Nothing
  /\ StopDiscarding("DtoM")
  /\ UNCHANGED <<CollatedFrameRing, ParsedFrameRing, DecodedFrameRing, input,
                 NextBufferSequenceNumber, MarkerInCodedFrameIndex, parse, PtoDBuffer,
                 codec, AccumulatedBufferTable, DtoMBuffer, manifestor, drn>>

DtoMExtract ==
  /\ DtoMBuffer = Nothing /\ ~Selectable /\ MarkerFrameBuffer = Nothing
  /\ DecodedFrameRing # <<>>
  /\ DecodedFrameRing' = Tail(DecodedFrameRing)
  /\ NonDecoded' = SkipNonDecoded.table
  /\ LET m == Head(DecodedFrameRing)
         desired == SkipNonDecoded.desired IN
     \/ /\ IsControl(m)
        /\ IF Reached("DtoM", m.Value)
           THEN /\ mappingReset' = Max({mappingReset} \cup ResetTimes({m}))
                /\ LastOneOut({m}) /\ UNCHANGED Accumulated
           ELSE Accumulate("DtoM", m) /\ UNCHANGED <<mappingReset, switch>>
        /\ DesiredFrameIndex' = desired
        /\ UNCHANGED <<AccumulatedBufferTable, MarkerFrameBuffer, DtoMBuffer,
                       MaximumActualSequenceNumberSeen>>
     \/ /\ IsMarker(m)
        /\ MarkerFrameBuffer' = m /\ DesiredFrameIndex' = desired
        /\ UNCHANGED <<AccumulatedBufferTable, DtoMBuffer, msgs, switch>>
     \/ /\ IsFrame(m) /\ DisplayFrameIndex[m.id] <= desired
        /\ TakeFrame(m, desired)
        /\ UNCHANGED <<AccumulatedBufferTable, MarkerFrameBuffer, switch>>
     \/ /\ IsFrame(m) /\ DisplayFrameIndex[m.id] > desired
        /\ AccumulatedBufferTable' = AccumulatedBufferTable \cup {m}
        /\ DesiredFrameIndex' = desired
        /\ UNCHANGED <<MarkerFrameBuffer, DtoMBuffer, msgs, switch>>
  /\ UNCHANGED <<CollatedFrameRing, ParsedFrameRing, ManifestedBufferRing, input,
                 NextBufferSequenceNumber, MarkerInCodedFrameIndex,
                 DiscardingUntilMarkerFrame, parse, PtoDBuffer, codec, manifestor, drn>>

\* Nothing to extract: the loop goes round after PLAYER_NEXT_FRAME_EVENT_WAIT.
DtoMTimeout ==
  /\ DtoMBuffer = Nothing /\ ~Selectable /\ MarkerFrameBuffer = Nothing
  /\ DecodedFrameRing = <<>>
  /\ SkipNonDecoded # [desired |-> DesiredFrameIndex, table |-> NonDecoded]
  /\ DesiredFrameIndex' = SkipNonDecoded.desired /\ NonDecoded' = SkipNonDecoded.table
  /\ UNCHANGED <<rings, input, switch, NextBufferSequenceNumber, MarkerInCodedFrameIndex,
                 DiscardingUntilMarkerFrame, parse, PtoDBuffer, codec,
                 AccumulatedBufferTable, MarkerFrameBuffer, DtoMBuffer, msgs, manifestor,
                 drn>>

\* In a pause (Speed = 0) the frame in hand stays until the speed changes,
\* a step, or a discard: nobody but a discard need let it go.
NextDesired == DesiredFrameIndex' = DisplayFrameIndex[DtoMBuffer.id] + 1

DtoMManifest ==
  /\ DtoMBuffer # Nothing /\ ~DiscardingUntilMarkerFrame["DtoM"]
  /\ NextDesired
  /\ manifestor' = Append(manifestor, DtoMBuffer)
  /\ DtoMCallsAfter(DtoMBuffer)
  /\ DtoMBuffer' = Nothing
  /\ UNCHANGED <<rings, input, NextBufferSequenceNumber, MarkerInCodedFrameIndex,
                 DiscardingUntilMarkerFrame, parse, PtoDBuffer, NonDecoded, codec,
                 AccumulatedBufferTable, MarkerFrameBuffer,
                 MaximumActualSequenceNumberSeen, mappingReset, drn>>

\* Discarded, or dropped by the output timer.
DtoMDiscard ==
  /\ DtoMBuffer # Nothing
  /\ NextDesired
  /\ DtoMCallsAfter(DtoMBuffer)
  /\ DtoMBuffer' = Nothing
  /\ UNCHANGED <<rings, input, NextBufferSequenceNumber, MarkerInCodedFrameIndex,
                 DiscardingUntilMarkerFrame, parse, PtoDBuffer, NonDecoded, codec,
                 AccumulatedBufferTable, MarkerFrameBuffer,
                 MaximumActualSequenceNumberSeen, mappingReset, manifestor, drn>>

(***************************************************************************)
(* The manifestor and ProcessPostManifest.                                 *)
(***************************************************************************)
Manifest ==
  /\ manifestor # <<>>
  /\ manifestor' = Tail(manifestor)
  /\ ManifestedBufferRing' = Append(ManifestedBufferRing, Head(manifestor))
  /\ UNCHANGED <<CollatedFrameRing, ParsedFrameRing, DecodedFrameRing, input, switch,
                 NextBufferSequenceNumber, MarkerInCodedFrameIndex,
                 DiscardingUntilMarkerFrame, parse, PtoDBuffer, NonDecoded, codec, dtom,
                 msgs, drn>>

\* SwitchComplete: frames are released through the new codec from here on.
PostMCall(calls) ==
  /\ Drained' = (Drained \/ \E m \in calls : m.kind = "SetDrained")
  /\ switch' = IF \E m \in calls : m.kind = "SwitchComplete"
               THEN [switch EXCEPT !.CodecReset = FALSE, !.InProgress = FALSE] ELSE switch

PostMExtract ==
  /\ ManifestedBufferRing # <<>>
  /\ ManifestedBufferRing' = Tail(ManifestedBufferRing)
  /\ LET m   == Head(ManifestedBufferRing)
         due == Due("PostM", m.Value, BeforeCalls \cup AfterCalls) IN
     \/ /\ ~IsControl(m)
        /\ See("PostM", m.Value)
        /\ Accumulated' = [Accumulated EXCEPT !["PostM"] = @ \ due]
        /\ PostMCall(due)
     \/ /\ IsControl(m) /\ Reached("PostM", m.Value)
        /\ PostMCall({m})
        /\ UNCHANGED <<MaximumActualSequenceNumberSeen, Accumulated>>
     \/ /\ IsControl(m) /\ ~Reached("PostM", m.Value)
        /\ Accumulate("PostM", m)
        /\ UNCHANGED <<MaximumActualSequenceNumberSeen, Drained, switch>>
  /\ UNCHANGED <<CollatedFrameRing, ParsedFrameRing, DecodedFrameRing, input,
                 NextBufferSequenceNumber, MarkerInCodedFrameIndex,
                 DiscardingUntilMarkerFrame, parse, PtoDBuffer, NonDecoded, codec, dtom,
                 mappingReset, manifestor, DrainSequenceNumber, drain>>

(***************************************************************************)
(* InternalDrainStream and SwitchStream: one thread that drains and        *)
(* switches again and again.                                               *)
(***************************************************************************)
At(pc)   == drain.pc = pc
Go(pc)   == drain' = [drain EXCEPT !.pc = pc]

\* The flags are set one after the other; each is read by one process, and
\* no process sees two of them.  A drain is alone if the ones before it were
\* done when it began.
DrainBegin(policy) ==
  /\ At("idle") /\ drain.n < MaxDrains /\ collated + drain.n < MaxWork
  /\ policy \in MayBe[drain.n + 1]
  /\ IsSwitch(policy) => ~switch.InProgress
  /\ drain' = [pc |-> IF Plays(policy) THEN "check" ELSE "jump", n |-> drain.n + 1,
               discard |-> ~Plays(policy), switch |-> IsSwitch(policy),
               failed |-> drain.failed, alone |-> drain.n = 0 \/ (drain.alone /\ Drained)]
  /\ DiscardingUntilMarkerFrame' =
       IF Plays(policy) THEN DiscardingUntilMarkerFrame
       ELSE [p \in {"CtoP", "PtoD", "DtoM"} |-> p # "CtoP" \/ policy # "discard, parse all"]
  /\ UNCHANGED <<rings, input, switch, NextBufferSequenceNumber, MarkerInCodedFrameIndex,
                 parse, PtoDBuffer, NonDecoded, codec, dtom, msgs, manifestor, Drained,
                 DrainSequenceNumber>>

DrainJump ==
  /\ At("jump") /\ Go("codec")
  /\ CollatedFrameRing' = Append(CollatedFrameRing, Item("jump", None, 0))
  /\ UNCHANGED <<ParsedFrameRing, DecodedFrameRing, ManifestedBufferRing, input, switch,
                 NextBufferSequenceNumber, MarkerInCodedFrameIndex,
                 DiscardingUntilMarkerFrame, parse, PtoDBuffer, NonDecoded, codec, dtom,
                 msgs, manifestor, Drained, DrainSequenceNumber>>

\* DiscardQueuedDecodes: the frames now in the codec do not come out of it.
DrainCodec ==
  /\ At("codec") /\ Go("release")
  /\ codec' = [i \in DOMAIN codec |-> IF IsFrame(codec[i])
                 THEN [codec[i] EXCEPT !.kind = "dropped"] ELSE codec[i]]
  /\ UNCHANGED <<rings, input, switch, NextBufferSequenceNumber, MarkerInCodedFrameIndex,
                 DiscardingUntilMarkerFrame, parse, PtoDBuffer, NonDecoded, dtom, msgs,
                 manifestor, Drained, DrainSequenceNumber>>

\* ReleaseQueuedDecodeBuffers: the frame on display may stay there.
DrainRelease ==
  /\ At("release") /\ Go("check")
  /\ \E shown \in 0 .. Min({1, Len(manifestor)}) :
       /\ manifestor' = SubSeq(manifestor, 1, shown)
       /\ ManifestedBufferRing' =
            ManifestedBufferRing \o SubSeq(manifestor, shown + 1, Len(manifestor))
  /\ UNCHANGED <<CollatedFrameRing, ParsedFrameRing, DecodedFrameRing, input, switch,
                 NextBufferSequenceNumber, MarkerInCodedFrameIndex,
                 DiscardingUntilMarkerFrame, parse, PtoDBuffer, NonDecoded, codec, dtom,
                 msgs, Drained, DrainSequenceNumber>>

\* A marker that CtoP has not seen yet is waited for; the wait may time out,
\* and the drain is given up.  A switch goes on all the same.
DrainCheck ==
  /\ At("check") /\ (MarkerInCodedFrameIndex = None \/ Drained)
  /\ Go("number")
  /\ UNCHANGED <<rings, input, switch, NextBufferSequenceNumber, MarkerInCodedFrameIndex,
                 DiscardingUntilMarkerFrame, parse, PtoDBuffer, NonDecoded, codec, dtom,
                 msgs, manifestor, Drained, DrainSequenceNumber>>

DrainGiveUp ==
  /\ At("check") /\ MarkerInCodedFrameIndex # None /\ ~Drained
  /\ drain' = [drain EXCEPT !.pc = IF drain.switch THEN "collator" ELSE "idle",
                            !.failed = TRUE]
  /\ UNCHANGED <<rings, input, switch, NextBufferSequenceNumber, MarkerInCodedFrameIndex,
                 DiscardingUntilMarkerFrame, parse, PtoDBuffer, NonDecoded, codec, dtom,
                 msgs, manifestor, Drained, DrainSequenceNumber>>

\* Mutant: the number of the next frame.
MarkerNumberOfNext == NextBufferSequenceNumber

\* The marker's number is beyond that of any frame that may still get in
\* before it.
MarkerNumber == NextBufferSequenceNumber + RingSize

DrainNumber ==
  /\ At("number") /\ Go("insert")
  /\ DrainSequenceNumber' = MarkerNumber
  /\ Drained' = FALSE
  /\ UNCHANGED <<rings, input, switch, NextBufferSequenceNumber, MarkerInCodedFrameIndex,
                 DiscardingUntilMarkerFrame, parse, PtoDBuffer, NonDecoded, codec, dtom,
                 msgs, manifestor>>

DrainInsert ==
  /\ At("insert") /\ Go("before")
  /\ MarkerInCodedFrameIndex' = drain.n
  /\ CollatedFrameRing' =
       Append(CollatedFrameRing, Item("marker", drain.n, DrainSequenceNumber))
  /\ UNCHANGED <<ParsedFrameRing, DecodedFrameRing, ManifestedBufferRing, input, switch,
                 NextBufferSequenceNumber, DiscardingUntilMarkerFrame, parse, PtoDBuffer,
                 NonDecoded, codec, dtom, msgs, manifestor, Drained, DrainSequenceNumber>>

\* CallInSequence(OutputTimerFnResetTimeMapping), before the marker.
DrainCallBefore ==
  /\ At("before") /\ Go("after")
  /\ DecodedFrameRing' =
       Append(DecodedFrameRing, Item("ResetTimeMapping", None, DrainSequenceNumber))
  /\ UNCHANGED <<CollatedFrameRing, ParsedFrameRing, ManifestedBufferRing, input, switch,
                 NextBufferSequenceNumber, MarkerInCodedFrameIndex,
                 DiscardingUntilMarkerFrame, parse, PtoDBuffer, NonDecoded, codec, dtom,
                 msgs, manifestor, Drained, DrainSequenceNumber>>

\* CallInSequence(OSFnSetEventOnPostManifestation), after the marker.
DrainCallAfter ==
  /\ At("after") /\ Go(IF drain.switch THEN "collator" ELSE "wait")
  /\ ManifestedBufferRing' =
       Append(ManifestedBufferRing, Item("SetDrained", None, DrainSequenceNumber))
  /\ UNCHANGED <<CollatedFrameRing, ParsedFrameRing, DecodedFrameRing, input, switch,
                 NextBufferSequenceNumber, MarkerInCodedFrameIndex,
                 DiscardingUntilMarkerFrame, parse, PtoDBuffer, NonDecoded, codec, dtom,
                 msgs, manifestor, Drained, DrainSequenceNumber>>

\* The state of the switch is set up, and the collator exchanged at once.
SwitchCollator ==
  /\ At("collator") /\ Go("parser")
  /\ switch' = [switch EXCEPT !.InProgress = TRUE, !.LastOneOutOfTheCodec = FALSE,
                              !.Collator = @ + 1]
  /\ UNCHANGED <<rings, input, NextBufferSequenceNumber, MarkerInCodedFrameIndex,
                 DiscardingUntilMarkerFrame, parse, PtoDBuffer, NonDecoded, codec, dtom,
                 msgs, manifestor, Drained, DrainSequenceNumber>>

\* Mutant: parser and codec are exchanged with the first frames of before the
\* marker.
SwitchNumberTooLow == DrainSequenceNumber - RingSize

\* Parser, codec and timer are exchanged after the marker.
SwitchNumber == DrainSequenceNumber

\* Mutant: the switch is complete with its own marker.
CompleteNumberOfMarker == DrainSequenceNumber

\* The switch is complete before the first buffer of behind the marker.
CompleteNumber == DrainSequenceNumber + 1

\* The four calls, one after the other, each for the ring of its process.
SwitchCalls ==
  /\ \/ /\ At("parser") /\ Go("codec class")
        /\ CollatedFrameRing' =
             Append(CollatedFrameRing, Item("SwitchFrameParser", None, SwitchNumber))
        /\ UNCHANGED <<ParsedFrameRing, DecodedFrameRing, ManifestedBufferRing>>
     \/ /\ At("codec class") /\ Go("timer")
        /\ ParsedFrameRing' =
             Append(ParsedFrameRing, Item("SwitchCodec", None, SwitchNumber))
        /\ UNCHANGED <<CollatedFrameRing, DecodedFrameRing, ManifestedBufferRing>>
     \/ /\ At("timer") /\ Go("complete")
        /\ DecodedFrameRing' =
             Append(DecodedFrameRing, Item("SwitchOutputTimer", None, SwitchNumber))
        /\ UNCHANGED <<CollatedFrameRing, ParsedFrameRing, ManifestedBufferRing>>
     \/ /\ At("complete") /\ Go("wait")
        /\ ManifestedBufferRing' =
             Append(ManifestedBufferRing, Item("SwitchComplete", None, CompleteNumber))
        /\ UNCHANGED <<CollatedFrameRing, ParsedFrameRing, DecodedFrameRing>>
  /\ UNCHANGED <<input, switch, NextBufferSequenceNumber, MarkerInCodedFrameIndex,
                 DiscardingUntilMarkerFrame, parse, PtoDBuffer, NonDecoded, codec, dtom,
                 msgs, manifestor, Drained, DrainSequenceNumber>>

\* WaitForDrainCompletion, or no wait at all: a drain need not block, and a
\* wait may time out.
DrainReturn ==
  /\ At("wait") /\ Go("idle")
  /\ UNCHANGED <<rings, input, switch, NextBufferSequenceNumber, MarkerInCodedFrameIndex,
                 DiscardingUntilMarkerFrame, parse, PtoDBuffer, NonDecoded, codec, dtom,
                 msgs, manifestor, Drained, DrainSequenceNumber>>

CtoP == CtoPMarker \/ CtoPFrame \/ CtoPControl \/ CtoPSwitch
PtoD == PtoDExtract \/ PtoDPass \/ PtoDDiscard \/ PtoDControl \/ PtoDSwitch
DtoMLoop   == DtoMSelect \/ DtoMMarker \/ DtoMExtract \/ DtoMTimeout
DtoMInHand == DtoMManifest \/ DtoMDiscard
Drain == \/ DrainJump \/ DrainCodec \/ DrainRelease \/ DrainCheck \/ DrainNumber
         \/ DrainInsert \/ DrainCallBefore \/ DrainCallAfter \/ SwitchCollator
         \/ SwitchCalls \/ DrainReturn

Next ==
  \/ \E isReference \in BOOLEAN : Collate(isReference)
  \/ \E policy \in Policies : DrainBegin(policy)
  \/ CtoP \/ PtoD \/ CodecOutput \/ DtoMLoop \/ DtoMInHand \/ Manifest \/ PostMExtract
  \/ Drain \/ DrainGiveUp

\* The threads that run are not all held up: a process, the codec, a drain
\* that is begun, or the discard of a frame in hand goes on.  Nobody need
\* collate, display, or let a frame in hand go, and the work is finite, so
\* that no fairness between the threads is called for.
Working ==
  \/ CtoP \/ PtoD \/ CodecOutput \/ DtoMLoop \/ PostMExtract \/ Drain
  \/ DiscardingUntilMarkerFrame["DtoM"] /\ DtoMDiscard

Spec == Init /\ [][Next]_vars /\ WF_vars(Working)

(***************************************************************************)
(* Properties.                                                             *)
(***************************************************************************)
Items == [kind : {"nothing", "frame", "dropped", "marker", "jump"} \cup BeforeCalls
                 \cup AfterCalls,
          id : 0 .. Max({MaxFrames, MaxDrains}), Value : Nat]

\* Every variable stays in its range.
TypeOK ==
  /\ \A r \in {CollatedFrameRing, ParsedFrameRing, DecodedFrameRing,
               ManifestedBufferRing, codec, manifestor} : r \in Seq(Items)
  /\ collated \in 0 .. MaxFrames /\ reference \in [Frames -> BOOLEAN]
  /\ collatedBy \in [Frames -> 0 .. MaxDrains]
  /\ NextBufferSequenceNumber \in Nat /\ MarkerInCodedFrameIndex \in Markers \cup {None}
  /\ DiscardingUntilMarkerFrame \in [{"CtoP", "PtoD", "DtoM"} -> BOOLEAN]
  /\ DisplayFrameIndex \in [Frames -> 0 .. MaxFrames - 1 \cup {INVALID_INDEX}]
  /\ CollapseHolesInDisplayIndices \in [Frames -> BOOLEAN]
  /\ parser \in [deferred : Frames \cup {None}, collapse : BOOLEAN,
                 NextDisplayFrameIndex : 0 .. MaxFrames]
  /\ {PtoDBuffer, DtoMBuffer, MarkerFrameBuffer} \subseteq Items
  /\ NonDecoded \in [released : SUBSET Frames, held : SUBSET Frames,
                     DisplayIndicesCollapse : 0 .. MaxFrames]
  /\ AccumulatedBufferTable \subseteq Items /\ DesiredFrameIndex \in 0 .. MaxFrames
  /\ MaximumActualSequenceNumberSeen \in [Processes -> Nat]
  /\ Accumulated \in [Processes -> SUBSET Items]
  /\ Drained \in BOOLEAN
  /\ DrainSequenceNumber \in Nat /\ mappingReset \in Nat
  /\ drain \in [pc : {"idle", "jump", "codec", "release", "check", "number", "insert",
                      "before", "after", "collator", "parser", "codec class", "timer",
                      "complete", "wait"},
                n : 0 .. MaxDrains,
                discard : BOOLEAN, alone : BOOLEAN, switch : BOOLEAN, failed : BOOLEAN]
  /\ switch \in [Collator : 0 .. MaxDrains, FrameParser : 0 .. MaxDrains,
                  Codec : 0 .. MaxDrains, InProgress : BOOLEAN, CodecReset : BOOLEAN,
                  LastOneOutOfTheCodec : BOOLEAN, halted : SUBSET {"CtoP", "PtoD"}]

\* What is between the parser and the reordering, the oldest first.
InDecodeOrder ==
  DecodedFrameRing \o codec
    \o (IF PtoDBuffer = Nothing THEN <<>> ELSE <<PtoDBuffer>>) \o ParsedFrameRing

\* Frames and markers leave CollateToParse with ever larger sequence numbers:
\* the number of a marker, fixed before it goes into the ring, is above that
\* of every frame that gets in before it and below that of the next.
NumbersIncrease ==
  \A i \in DOMAIN InDecodeOrder : \A j \in 1 .. i - 1 :
    ~IsControl(InDecodeOrder[i]) /\ ~IsControl(InDecodeOrder[j])
      => InDecodeOrder[j].Value < InDecodeOrder[i].Value

\* The frames that have not been passed to the manifestor or dropped yet.
Undelivered ==
  {m \in ToSet(InDecodeOrder) \cup AccumulatedBufferTable \cup {DtoMBuffer} : IsFrame(m)}
Before(v) == {m \in Undelivered : m.Value < v}

\* A playout drain has no discontinuity before its marker, so the last
\* reference frame has no index yet and the marker overtakes it in the table.
LastReference(leftover) ==
  /\ leftover \subseteq AccumulatedBufferTable \cup {DtoMBuffer} /\ Cardinality(leftover) <= 1
  /\ \A m \in leftover : reference[m.id]

\* The drained event is that of the last drain: its marker has been through
\* all four processes.
DrainedMeansPassed ==
  Drained => MaximumActualSequenceNumberSeen["PostM"] >= DrainSequenceNumber

\* A drain that began when the ones before it were done has completed.
Completed == drain.alone /\ Drained /\ drain.pc \in {"wait", "idle"}

\* When a drain has completed its marker has been through all four processes
\* and no frame collated before the marker is left in the pipeline; a drain
\* that plays out may leave one reference frame.
DrainedMeansFlushed ==
  Completed =>
    /\ DrainedMeansPassed
    /\ IF drain.discard THEN Before(DrainSequenceNumber) = {}
                        ELSE LastReference(Before(DrainSequenceNumber))

\* A drain that has completed leaves nobody discarding: the frames of the
\* next stream of data are played.
DiscardsEnd ==
  Completed => \A p \in {"CtoP", "PtoD", "DtoM"} : ~DiscardingUntilMarkerFrame[p]

\* The time mapping is reset in sequence: no frame of before the marker is
\* still to be timed, save the reference frame a playout leaves.
ResetInSequence == LastReference(Before(mappingReset))

\* No switch was begun whose drain was given up: its calls would not be behind
\* a marker of their own.
DrainsEntered == ~drain.failed

\* The frames a step puts into a ring or into the codec.
FramesInto(before, after) == {m \in ToSet(after) \ ToSet(before) : IsFrame(m)}
ParsedByOwn ==
  \A m \in FramesInto(ParsedFrameRing, ParsedFrameRing') : collatedBy[m.id] = switch.FrameParser
DecodedByOwn == \A m \in FramesInto(codec, codec') : collatedBy[m.id] = switch.Codec
ReleasedByOwn ==
  \A m \in FramesInto(ManifestedBufferRing', ManifestedBufferRing) :
    switch'.CodecReset \/ collatedBy[m.id] = switch'.Codec

\* Each frame is parsed, decoded and, when it has been shown, released by the
\* classes that were made for its collator: none of them meets a frame of the
\* other side of the marker.  For the release the table of non-decoded frames
\* must not run over: a frame of before the marker whose turn never comes, since
\* the one before it was not noted, is shown among those of behind the marker.
OwnClasses == [][DrainsEntered => ParsedByOwn /\ DecodedByOwn /\ ReleasedByOwn]_vars

\* SwitchStream takes the next switch when SwitchComplete has run: by then
\* parser and codec are those of the collator, and the classes they replaced,
\* which the caller then deletes, are out of use.
SwitchedMeansExchanged ==
  DrainsEntered =>
    /\ ~switch.InProgress =>
         switch.FrameParser = switch.Collator /\ switch.Codec = switch.Collator
    /\ switch.FrameParser >= switch.Collator - 1 /\ switch.Codec >= switch.Collator - 1

\* "Frame re-ordering failure", as the code reports it: the frame in hand is
\* one whose turn is past.  Not counted is what is about to be discarded.
NoReorderFailure ==
  DtoMBuffer # Nothing =>
    \/ DisplayFrameIndex[DtoMBuffer.id] >= DesiredFrameIndex
    \/ DiscardingUntilMarkerFrame["DtoM"]

\* Before any drain, frames are played in the order of display, whichever are
\* dropped on the way.
InDisplayOrder == drain.n = 0 => NoReorderFailure

\* A drain that began when the ones before it were done is not left hanging
\* anywhere: one that discards completes even in a pause, one that plays out
\* unless a frame stays in hand.
DrainCompletes ==
  []<>(drain.n > 0 /\ drain.alone =>
         Completed \/ (~drain.discard /\ DtoMBuffer # Nothing))
=============================================================================
