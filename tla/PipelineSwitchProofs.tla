------------------------- MODULE PipelineSwitchProofs -----------------------
(***************************************************************************)
(* What a switch of StreamPipeline leaves behind.  SwitchStream hangs its  *)
(* four calls on the marker of its drain.  That SwitchComplete runs when   *)
(* parser and codec are exchanged is a matter of numbers: it is due at the *)
(* first number behind the marker, CollateToParse gives out no such number *)
(* before the parser is exchanged, and nothing with such a number gets     *)
(* past ParseToDecode before the codec is.                                 *)
(*                                                                         *)
(* The inductive invariant is SwitchInv, over TypeInv, Chain and Coming of *)
(* PipelineProofs: its parts say where the four calls are, which numbers   *)
(* they wait for, and what parser and codec are meanwhile.  OwnInv adds on *)
(* which side of the marker each frame is, for the frames that are not yet *)
(* decoded.                                                                *)
(***************************************************************************)
EXTENDS PipelineDrainProofs

\* The calls of a kind that are in a ring or accumulated by the process that
\* reads it, and that there is one of them at most.
CallsFor(ring, held, kind) == {m \in ToSet(ring) \cup held : m.kind = kind}
Once(ring, held, kind) ==
  /\ \A i, j \in DOMAIN ring : ring[i].kind = kind /\ ring[j].kind = kind => i = j
  /\ \A i \in DOMAIN ring : \A o \in held : ring[i].kind = kind => o.kind # kind
  /\ \A m, o \in held : m.kind = kind /\ o.kind = kind => m = o

\* Those of each kind, and that none of them is there twice.
ParserCalls == CallsFor(CollatedFrameRing, {}, "SwitchFrameParser")
CodecCalls  == CallsFor(ParsedFrameRing, Accumulated["PtoD"], "SwitchCodec")
TimerCalls  == CallsFor(DecodedFrameRing, Accumulated["DtoM"], "SwitchOutputTimer")
Completes   == CallsFor(ManifestedBufferRing, Accumulated["PostM"], "SwitchComplete")
CallOnce ==
  /\ Once(CollatedFrameRing, {}, "SwitchFrameParser")
  /\ Once(ParsedFrameRing, Accumulated["PtoD"], "SwitchCodec")
  /\ Once(DecodedFrameRing, Accumulated["DtoM"], "SwitchOutputTimer")
  /\ Once(ManifestedBufferRing, Accumulated["PostM"], "SwitchComplete")

\* What a call is due for: it is still to be made, or made and not acted on.
Making == {"parser", "codec class", "timer", "complete"}
ParserDue == drain.pc = "parser" \/ ParserCalls # {} \/ "CtoP" \in switch.halted
CodecDue  ==
  drain.pc \in {"parser", "codec class"} \/ CodecCalls # {} \/ "PtoD" \in switch.halted
TimerDue  == drain.pc \in {"parser", "codec class", "timer"} \/ TimerCalls # {}
CompleteDue == drain.pc \in Making \/ Completes # {}

\* A call is not made twice, and the parser's never waits for its number.
NoneTwice ==
  /\ Accumulated["CtoP"] = {}
  /\ drain.pc = "parser" => ParserCalls = {} /\ "CtoP" \notin switch.halted
  /\ drain.pc \in {"parser", "codec class"} => CodecCalls = {} /\ "PtoD" \notin switch.halted
  /\ drain.pc \in {"parser", "codec class", "timer"} => TimerCalls = {}
  /\ drain.pc \in Making => Completes = {}
  /\ "CtoP" \in switch.halted => ParserCalls = {}
  /\ "PtoD" \in switch.halted => CodecCalls = {}

\* A switch is in progress while anything of it is due; until the last decode
\* of the old stream is out, parser and codec are.
Underway ==
  /\ ParserDue \/ CodecDue \/ CompleteDue => switch.InProgress
  /\ TimerDue => switch.InProgress /\ ~switch.LastOneOutOfTheCodec
  /\ switch.InProgress /\ ~switch.LastOneOutOfTheCodec => ParserDue /\ CodecDue
  /\ drain.switch /\ drain.pc \notin Making \cup {"wait", "idle"} => ~switch.InProgress

\* A class is that of the collator, or of the one before while its call is due.
Exchanged ==
  /\ switch.FrameParser = IF ParserDue THEN switch.Collator - 1 ELSE switch.Collator
  /\ switch.Codec = IF CodecDue THEN switch.Collator - 1 ELSE switch.Collator

-----------------------------------------------------------------------------
\* A buffer or another call that is put into a ring, and the call itself.
LEMMA CallAppended ==
  ASSUME NEW S, NEW ring \in Seq(S), NEW e \in S, NEW held, NEW kind
  PROVE  /\ e.kind # kind => /\ Once(ring, held, kind) => Once(Append(ring, e), held, kind)
                             /\ CallsFor(Append(ring, e), held, kind) = CallsFor(ring, held, kind)
         /\ e.kind = kind /\ CallsFor(ring, held, kind) = {} =>
              /\ Once(Append(ring, e), held, kind)
              /\ CallsFor(Append(ring, e), held, kind) = {e}
<1> DEFINE r == Append(ring, e)
<1>1. /\ r \in Seq(S) /\ Len(r) = Len(ring) + 1 /\ \A i \in 1 .. Len(ring) : r[i] = ring[i]
      /\ r[Len(ring) + 1] = e /\ ToSet(r) = ToSet(ring) \cup {e}
  BY AppendIs
<1>2. /\ DOMAIN ring = 1 .. Len(ring) /\ Len(ring) \in Nat /\ \A i \in 1 .. Len(ring) : ring[i] \in ToSet(ring)
  BY MembersOf
<1> HIDE DEF r
<1>3. DOMAIN r = 1 .. Len(ring) + 1
  <2>1. r \in Seq(S)
    BY <1>1
  <2>2. DOMAIN r = 1 .. Len(r)
    BY <2>1, MembersOf
  <2> QED
    BY <1>1, <2>2
<1>4. CASE e.kind # kind
  <2>1. \A i \in DOMAIN r : r[i].kind = kind => i \in DOMAIN ring /\ r[i] = ring[i]
    BY <1>1, <1>2, <1>3, <1>4
  <2>2. Once(ring, held, kind) => Once(r, held, kind)
    BY <2>1 DEF Once
  <2>3. CallsFor(r, held, kind) = CallsFor(ring, held, kind)
    BY <1>1, <1>4 DEF CallsFor
  <2> QED
    BY <2>2, <2>3, <1>4 DEF r
<1>5. CASE e.kind = kind /\ CallsFor(ring, held, kind) = {}
  <2>1. \A m \in ToSet(ring) \cup held : m.kind # kind
    BY <1>5 DEF CallsFor
  <2>2. \A i \in DOMAIN r : r[i].kind = kind => i = Len(ring) + 1
    BY <1>1, <1>2, <1>3, <2>1
  <2>3. Once(r, held, kind)
    BY <2>1, <2>2 DEF Once
  <2>4. CallsFor(r, held, kind) = {e}
    BY <1>1, <1>5, <2>1 DEF CallsFor
  <2> QED
    BY <2>3, <2>4, <1>5 DEF r
<1> QED
  BY <1>4, <1>5

\* The first of a ring that is taken out, for good or to be accumulated.
LEMMA CallTaken ==
  ASSUME NEW S, NEW ring \in Seq(S), ring # <<>>, NEW held, NEW kind, Once(ring, held, kind)
  PROVE  /\ Once(Tail(ring), held, kind)
         /\ \A c \in {Head(ring)} : c.kind = kind =>
              CallsFor(Tail(ring), held, kind) = {} /\ c \in CallsFor(ring, held, kind)
         /\ Once(Tail(ring), held \cup {Head(ring)}, kind)
         /\ CallsFor(Tail(ring), held \cup {Head(ring)}, kind) = CallsFor(ring, held, kind)
<1> DEFINE r == Tail(ring)
<1>1. /\ r \in Seq(S) /\ Len(r) = Len(ring) - 1 /\ Len(ring) \in Nat \ {0}
      /\ \A i \in 1 .. Len(ring) - 1 : r[i] = ring[i + 1]
      /\ Head(ring) = ring[1] /\ ToSet(ring) = ToSet(r) \cup {Head(ring)}
  BY TailIs
<1>2. DOMAIN ring = 1 .. Len(ring) /\ DOMAIN r = 1 .. Len(ring) - 1
  BY <1>1, MembersOf
<1> HIDE DEF r
<1>3. \A m \in ToSet(r) : \E i \in DOMAIN r : m = r[i]
  <2>1. r \in Seq(S)
    BY <1>1
  <2> QED
    BY <2>1, MembersOf
<1>4. ASSUME NEW i \in DOMAIN r
      PROVE  i + 1 \in DOMAIN ring /\ r[i] = ring[i + 1] /\ i + 1 # 1 /\ i \in Int
  <2>1. i \in 1 .. Len(ring) - 1
    BY <1>2
  <2>2. r[i] = ring[i + 1]
    BY <1>1, <2>1
  <2>3. i \in Nat /\ i > 0 /\ i + 1 \in 1 .. Len(ring)
    <3>1. Len(ring) \in Nat
      BY <1>1
    <3> QED
      BY <2>1, <3>1
  <2> QED
    BY <1>2, <2>2, <2>3
<1>5. 1 \in DOMAIN ring
  BY <1>1, <1>2
<1>6. \A i, j \in DOMAIN r : r[i].kind = kind /\ r[j].kind = kind => i = j
  BY <1>4 DEF Once
<1>7. Once(r, held, kind)
  BY <1>4, <1>6 DEF Once
<1>8. Head(ring).kind = kind => (\A i \in DOMAIN r : r[i].kind # kind) /\ \A o \in held : o.kind # kind
  BY <1>1, <1>4, <1>5 DEF Once
<1>9. Once(r, held \cup {Head(ring)}, kind)
  BY <1>7, <1>8 DEF Once
<1>11. Head(ring).kind = kind => CallsFor(r, held, kind) = {} /\ Head(ring) \in CallsFor(ring, held, kind)
  BY <1>1, <1>3, <1>8 DEF CallsFor
<1>12. CallsFor(r, held \cup {Head(ring)}, kind) = CallsFor(ring, held, kind)
  BY <1>1 DEF CallsFor
<1> QED
  BY <1>7, <1>9, <1>11, <1>12 DEF r

\* Something else that is taken out.
LEMMA OtherTaken ==
  ASSUME NEW S, NEW ring \in Seq(S), ring # <<>>, NEW held, NEW kind, Head(ring).kind # kind
  PROVE  CallsFor(Tail(ring), held, kind) = CallsFor(ring, held, kind)
<1>1. ToSet(ring) = ToSet(Tail(ring)) \cup {Head(ring)}
  BY TailIs
<1> QED
  BY <1>1 DEF CallsFor

\* Accumulated calls that are acted on.
LEMMA CallsActedOn ==
  ASSUME NEW S, NEW ring \in Seq(S), NEW held, NEW due, due \subseteq held, NEW kind, Once(ring, held, kind)
  PROVE  /\ Once(ring, held \ due, kind)
         /\ CallsFor(ring, held \ due, kind) \subseteq CallsFor(ring, held, kind)
         /\ (\A m \in due : m.kind # kind) =>
              CallsFor(ring, held \ due, kind) = CallsFor(ring, held, kind)
         /\ \A m \in due : m.kind = kind => /\ CallsFor(ring, held \ due, kind) = {}
                                            /\ m \in CallsFor(ring, held, kind)
<1>1. \A m \in ToSet(ring) : \E i \in DOMAIN ring : m = ring[i]
  BY MembersOf
<1>2. Once(ring, held \ due, kind)
  BY DEF Once
<1>3. ASSUME NEW m \in due, m.kind = kind
      PROVE  /\ CallsFor(ring, held \ due, kind) = {} /\ m \in CallsFor(ring, held, kind)
  BY <1>1, <1>3 DEF Once, CallsFor
<1> QED
  BY <1>2, <1>3 DEF CallsFor

\* Frames at the end of a ring are no calls.
LEMMA FramesAreNoCalls ==
  ASSUME NEW S, NEW ring \in Seq(S), NEW t \in Seq(S), \A m \in ToSet(t) : IsFrame(m),
         NEW held, NEW kind, kind # "frame", Once(ring, held, kind)
  PROVE  /\ Once(ring \o t, held, kind)
         /\ CallsFor(ring \o t, held, kind) = CallsFor(ring, held, kind)
<1> DEFINE r == ring \o t
<1>1. /\ DOMAIN r = 1 .. Len(ring) + Len(t) /\ Len(ring) \in Nat /\ Len(t) \in Nat
      /\ DOMAIN ring = 1 .. Len(ring) /\ DOMAIN t = 1 .. Len(t)
      /\ \A i \in 1 .. Len(ring) + Len(t) : r[i] = IF i <= Len(ring) THEN ring[i] ELSE t[i - Len(ring)]
  OBVIOUS
<1>2. \A i \in DOMAIN t : t[i].kind = "frame"
  BY MembersOf DEF IsFrame
<1> HIDE DEF r
<1>3. ASSUME NEW i \in DOMAIN r, r[i].kind = kind
      PROVE  i \in DOMAIN ring /\ r[i] = ring[i]
  <2>1. CASE i <= Len(ring)
    BY <1>1, <2>1
  <2>2. CASE ~(i <= Len(ring))
    <3>1. r[i] = t[i - Len(ring)]
      BY <1>1, <2>2
    <3>2. i - Len(ring) \in DOMAIN t
      BY <1>1, <2>2
    <3> QED
      BY <1>2, <1>3, <3>1, <3>2
  <2> QED
    BY <2>1, <2>2
<1>4. \A i \in DOMAIN ring : i \in DOMAIN r /\ r[i] = ring[i]
  BY <1>1
<1>5. Once(r, held, kind)
  BY <1>3 DEF Once
<1>6. r \in Seq(S)
  BY DEF r
<1>7. /\ \A m \in ToSet(r) : \E i \in DOMAIN r : m = r[i]
      /\ \A m \in ToSet(ring) : \E i \in DOMAIN ring : m = ring[i]
      /\ \A i \in DOMAIN ring : ring[i] \in ToSet(ring)
      /\ \A i \in DOMAIN r : r[i] \in ToSet(r)
  BY <1>6, MembersOf
<1>8. CallsFor(r, held, kind) = CallsFor(ring, held, kind)
  BY <1>3, <1>4, <1>7 DEF CallsFor
<1> QED
  BY <1>5, <1>8 DEF r

\* The calls a step does not touch.
ParserKept ==
  Once(CollatedFrameRing', {}, "SwitchFrameParser") /\ ParserCalls' = ParserCalls
CodecKept ==
  Once(ParsedFrameRing', Accumulated'["PtoD"], "SwitchCodec") /\ CodecCalls' = CodecCalls
TimerFewer ==
  Once(DecodedFrameRing', Accumulated'["DtoM"], "SwitchOutputTimer") /\ TimerCalls' \subseteq TimerCalls
CompletesFewer ==
  Once(ManifestedBufferRing', Accumulated'["PostM"], "SwitchComplete") /\ Completes' \subseteq Completes

\* What a process has accumulated when it takes in a call too early.
LEMMA AccumulatedIs ==
  ASSUME CallsTyped, NEW p \in Processes, NEW m, Accumulate(p, m)
  PROVE  /\ Accumulated'[p] \in {Accumulated[p], Accumulated[p] \cup {m}}
         /\ \A q \in Processes \ {p} : Accumulated'[q] = Accumulated[q]
         /\ MaxMessages >= 1 /\ Accumulated[p] = {} => Accumulated'[p] = {m}
<1>1. Accumulated = [q \in Processes |-> Accumulated[q]]
  BY DEF CallsTyped
<1>2. [Accumulated EXCEPT ![p] = @ \cup {m}][p] = Accumulated[p] \cup {m}
  BY <1>1
<1>3. \A q \in Processes \ {p} : [Accumulated EXCEPT ![p] = @ \cup {m}][q] = Accumulated[q]
  BY <1>1
<1>4. \/ Accumulated' = Accumulated
      \/ Accumulated' = [Accumulated EXCEPT ![p] = @ \cup {m}]
  BY DEF Accumulate
<1>5. ASSUME MaxMessages >= 1, Accumulated[p] = {}
      PROVE  Accumulated'[p] = {m}
  <2>1. {o \in Accumulated[p] : o.kind \in AfterCalls <=> m.kind \in AfterCalls} = {}
    BY <1>5
  <2>2. Cardinality({}) = 0
    BY FS_EmptySet
  <2>3. 0 # MaxMessages
    BY <1>5
  <2>4. Accumulated' = [Accumulated EXCEPT ![p] = @ \cup {m}]
    BY <2>1, <2>2, <2>3 DEF Accumulate
  <2> QED
    BY <1>2, <1>5, <2>4
<1> QED
  BY <1>2, <1>3, <1>4, <1>5

\* What a process has accumulated when some of it has been acted on.
LEMMA ActedIs ==
  ASSUME CallsTyped, NEW p \in Processes, NEW due,
         Accumulated' = [Accumulated EXCEPT ![p] = @ \ due]
  PROVE  /\ Accumulated'[p] = Accumulated[p] \ due
         /\ \A q \in Processes \ {p} : Accumulated'[q] = Accumulated[q]
<1>1. Accumulated = [q \in Processes |-> Accumulated[q]]
  BY DEF CallsTyped
<1> QED
  BY <1>1

\* What is put into the ring of collation, and who takes it out.
LEMMA CollatedBy ==
  ASSUME TypeInv, Next
  PROVE  \/ UNCHANGED CollatedFrameRing
         \/ /\ CtoPMarker \/ CtoPFrame \/ CtoPControl
            /\ CollatedFrameRing # <<>> /\ CollatedFrameRing' = Tail(CollatedFrameRing)
         \/ /\ (\E isReference \in BOOLEAN : Collate(isReference)) \/ DrainJump
            /\ \E e \in CollatedItems :
                 /\ e.kind # "SwitchFrameParser" /\ ~IsMarker(e)
                 /\ CollatedFrameRing' = Append(CollatedFrameRing, e)
         \/ /\ DrainInsert
            /\ \E e \in CollatedItems :
                 /\ e.kind # "SwitchFrameParser" /\ IsMarker(e) /\ e.Value = DrainSequenceNumber
                 /\ CollatedFrameRing' = Append(CollatedFrameRing, e)
         \/ SwitchCalls /\ At("parser")
<1> DEFINE C == CollatedFrameRing
<1>1. Typed /\ C \in Seq(CollatedItems) /\ MessageRanges
  BY DEF TypeInv, Ranges, Typed
<1>2. CASE \E isReference \in BOOLEAN : Collate(isReference)
  <2>1. collated + 1 \in Frames
    BY <1>2, Bounds DEF TypeInv, Ranges, InputRanges, Collate
  <2>2. Item("frame", collated', 0) \in FrameItems
    BY <1>2, <2>1, MadeItems DEF Collate
  <2>3. C' = Append(C, Item("frame", collated', 0))
    BY <1>2 DEF Collate
  <2>4. Item("frame", collated', 0).kind # "SwitchFrameParser" /\ ~IsMarker(Item("frame", collated', 0))
    BY DEF Item, IsMarker
  <2> QED
    BY <1>2, <2>2, <2>3, <2>4, ItemSets
<1>3. CASE DrainJump
  <2>1. /\ Item("jump", None, 0) \in CollatedItems /\ Item("jump", None, 0).kind # "SwitchFrameParser"
        /\ ~IsMarker(Item("jump", None, 0))
    BY MadeItems, ItemSets DEF Item, IsMarker
  <2> QED
    BY <1>3, <2>1 DEF DrainJump
<1>4. CASE DrainInsert
  <2>1. drain.n \in Markers
    <3>1. drain.pc # "idle"
      BY <1>4 DEF DrainInsert, At
    <3>2. drain.n \in 0 .. MaxDrains
      BY DEF TypeInv, Ranges, DrainRanges
    <3>3. drain.n > 0
      BY <3>1 DEF TypeInv, Exchanges
    <3> QED
      BY <3>2, <3>3, Bounds
  <2>2. Item("marker", drain.n, DrainSequenceNumber) \in MarkerItems
    BY <1>1, <2>1, MadeItems DEF MessageRanges
  <2>3. /\ Item("marker", drain.n, DrainSequenceNumber).kind # "SwitchFrameParser"
        /\ IsMarker(Item("marker", drain.n, DrainSequenceNumber))
        /\ Item("marker", drain.n, DrainSequenceNumber).Value = DrainSequenceNumber
    BY DEF Item, IsMarker
  <2> QED
    BY <1>4, <2>2, <2>3, ItemSets DEF DrainInsert
<1>5. CASE CtoPMarker \/ CtoPFrame \/ CtoPControl
  BY <1>5 DEF CtoPMarker, CtoPFrame, CtoPControl
<1>6. CASE SwitchCalls
  BY <1>6 DEF SwitchCalls
<1>7. CASE CtoPSwitch \/ (\E policy \in Policies : DrainBegin(policy)) \/ DrainGiveUp
  BY <1>7 DEF CtoPSwitch, DrainBegin, DrainGiveUp, rings
<1>8. CASE PtoD \/ CodecOutput
  BY <1>8 DEF PtoD, PtoDExtract, PtoDPass, PtoDDiscard, PtoDControl, PtoDSwitch, CodecOutput, rings
<1>9. CASE DtoMLoop \/ DtoMInHand \/ Manifest \/ PostMExtract
  BY <1>9 DEF DtoMLoop, DtoMSelect, DtoMMarker, DtoMExtract, DtoMTimeout, DtoMInHand, DtoMManifest,
              DtoMDiscard, Manifest, PostMExtract, rings
<1>10. CASE DrainCodec \/ DrainRelease \/ DrainCheck \/ DrainNumber \/ DrainCallBefore
            \/ DrainCallAfter \/ SwitchCollator \/ DrainReturn
  BY <1>10 DEF DrainCodec, DrainRelease, DrainCheck, DrainNumber, DrainCallBefore,
               DrainCallAfter, SwitchCollator, DrainReturn, rings
<1> QED
  BY <1>2, <1>3, <1>4, <1>5, <1>6, <1>7, <1>8, <1>9, <1>10 DEF Next, CtoP, Drain

\* The frame parser's call stays until CollateToParse takes it in.
LEMMA ParserKeptBy ==
  ASSUME TypeInv, CallOnce, Next, ~CtoPControl, ~(SwitchCalls /\ At("parser"))
  PROVE  ParserKept
<1> DEFINE C == CollatedFrameRing
<1>1. Typed /\ C \in Seq(CollatedItems) /\ Once(C, {}, "SwitchFrameParser")
  BY DEF TypeInv, Typed, CallOnce
<1>2. \/ UNCHANGED C
      \/ C # <<>> /\ C' = Tail(C) /\ Head(C).kind # "SwitchFrameParser"
      \/ \E e \in CollatedItems : e.kind # "SwitchFrameParser" /\ C' = Append(C, e)
  <2>1. CASE CtoPMarker
    BY <2>1 DEF CtoPMarker, IsMarker
  <2>2. CASE CtoPFrame
    <3>1. C # <<>> /\ C' = Tail(C) /\ ~IsControl([Head(C) EXCEPT !.Value = NextBufferSequenceNumber])
      BY <2>2 DEF CtoPFrame
    <3>2. Head(C) \in CollatedItems
      BY <1>1, <3>1, HeadsAre
    <3>3. [Head(C) EXCEPT !.Value = NextBufferSequenceNumber].kind = Head(C).kind
      BY <3>2 DEF CollatedItems, FrameItems, MarkerItems, Others
    <3> QED
      BY <3>1, <3>3 DEF IsControl, AfterCalls, BeforeCalls
  <2> QED
    BY <2>1, <2>2, CollatedBy
<1>3. Once(C', {}, "SwitchFrameParser") /\ CallsFor(C', {}, "SwitchFrameParser") = CallsFor(C, {}, "SwitchFrameParser")
  <2>1. CASE UNCHANGED C
    BY <1>1, <2>1
  <2>2. CASE C # <<>> /\ C' = Tail(C) /\ Head(C).kind # "SwitchFrameParser"
    <3>1. C \in Seq(CollatedItems) /\ C # <<>> /\ Once(C, {}, "SwitchFrameParser")
      BY <1>1, <2>2
    <3>2. Once(Tail(C), {}, "SwitchFrameParser")
      BY <3>1, CallTaken
    <3>3. CallsFor(Tail(C), {}, "SwitchFrameParser") = CallsFor(C, {}, "SwitchFrameParser")
      <4>1. Head(C).kind # "SwitchFrameParser"
        BY <2>2
      <4> QED
        BY <3>1, <4>1, OtherTaken
    <3> QED
      BY <2>2, <3>2, <3>3
  <2>3. CASE \E e \in CollatedItems : e.kind # "SwitchFrameParser" /\ C' = Append(C, e)
    BY <1>1, <2>3, CallAppended
  <2> QED
    BY <1>2, <2>1, <2>2, <2>3
<1> QED
  BY <1>3 DEF ParserKept, ParserCalls

\* What a process has accumulated is changed by that process only.
LEMMA AccumulatedBy ==
  ASSUME TypeInv, Next
  PROVE  /\ Accumulated'["CtoP"] = Accumulated["CtoP"] \/ CtoPMarker \/ CtoPControl
         /\ Accumulated'["PtoD"] = Accumulated["PtoD"] \/ PtoDPass \/ PtoDDiscard \/ PtoDControl
         /\ \/ Accumulated'["DtoM"] = Accumulated["DtoM"]
            \/ DtoMSelect \/ DtoMMarker \/ DtoMExtract \/ DtoMInHand
         /\ Accumulated'["PostM"] = Accumulated["PostM"] \/ PostMExtract
<1> USE DEF Processes
<1>1. CallsTyped
  BY DEF TypeInv
<1>2. CASE CtoP
  <2>1. CASE CtoPMarker
    BY <1>1, <2>1, ActedIs DEF CtoPMarker
  <2>2. CASE CtoPControl
    BY <1>1, <2>2, AccumulatedIs DEF CtoPControl
  <2>3. CASE CtoPFrame \/ CtoPSwitch
    BY <2>3 DEF CtoPFrame, CtoPSwitch, msgs
  <2> QED
    BY <1>2, <2>1, <2>2, <2>3 DEF CtoP
<1>3. CASE PtoD
  <2>1. CASE PtoDPass
    BY <1>1, <2>1, ActedIs DEF PtoDPass, PtoDCallsAfter
  <2>2. CASE PtoDDiscard
    BY <1>1, <2>2, ActedIs DEF PtoDDiscard, PtoDCallsAfter
  <2>3. CASE PtoDControl
    BY <1>1, <2>3, AccumulatedIs DEF PtoDControl
  <2>4. CASE PtoDExtract \/ PtoDSwitch
    BY <2>4 DEF PtoDExtract, PtoDSwitch, msgs
  <2> QED
    BY <1>3, <2>1, <2>2, <2>3, <2>4 DEF PtoD
<1>4. CASE DtoMLoop
  <2>1. CASE DtoMSelect
    BY <1>1, <2>1, ActedIs DEF DtoMSelect, TakeFrame
  <2>2. CASE DtoMMarker
    BY <1>1, <2>2, ActedIs DEF DtoMMarker
  <2>3. CASE DtoMExtract
    <3>1. \/ Accumulated' = Accumulated
          \/ Accumulate("DtoM", Head(DecodedFrameRing))
          \/ TakeFrame(Head(DecodedFrameRing), SkipNonDecoded.desired)
      BY <2>3 DEF DtoMExtract, msgs
    <3>2. CASE Accumulate("DtoM", Head(DecodedFrameRing))
      BY <1>1, <2>3, <3>2, AccumulatedIs
    <3>3. CASE TakeFrame(Head(DecodedFrameRing), SkipNonDecoded.desired)
      BY <1>1, <2>3, <3>3, ActedIs DEF TakeFrame
    <3> QED
      BY <3>1, <3>2, <3>3
  <2>4. CASE DtoMTimeout
    BY <2>4 DEF DtoMTimeout, msgs
  <2> QED
    BY <1>4, <2>1, <2>2, <2>3, <2>4 DEF DtoMLoop
<1>5. CASE DtoMInHand
  BY <1>1, <1>5, ActedIs DEF DtoMInHand, DtoMManifest, DtoMDiscard, DtoMCallsAfter
<1>6. CASE PostMExtract
  <2>1. \/ Accumulated' = Accumulated
        \/ Accumulate("PostM", Head(ManifestedBufferRing))
        \/ \E due : Accumulated' = [Accumulated EXCEPT !["PostM"] = @ \ due]
    BY <1>6 DEF PostMExtract
  <2>2. CASE Accumulate("PostM", Head(ManifestedBufferRing))
    BY <1>1, <1>6, <2>2, AccumulatedIs
  <2>3. CASE \E due : Accumulated' = [Accumulated EXCEPT !["PostM"] = @ \ due]
    BY <1>1, <1>6, <2>3, ActedIs
  <2> QED
    BY <1>6, <2>1, <2>2, <2>3
<1>7. CASE (\E isReference \in BOOLEAN : Collate(isReference))
           \/ (\E policy \in Policies : DrainBegin(policy)) \/ CodecOutput \/ Manifest \/ DrainGiveUp
  BY <1>7 DEF Collate, DrainBegin, CodecOutput, Manifest, DrainGiveUp, msgs
<1>8. CASE Drain
  BY <1>8 DEF Drain, DrainJump, DrainCodec, DrainRelease, DrainCheck, DrainNumber, DrainInsert,
              DrainCallBefore, DrainCallAfter, SwitchCollator, SwitchCalls, DrainReturn, msgs
<1> QED
  BY <1>2, <1>3, <1>4, <1>5, <1>6, <1>7, <1>8 DEF Next

\* What is put into the rings behind CollateToParse, and by which steps a ring
\* is read.
LEMMA ParsedBy ==
  ASSUME TypeInv, Next
  PROVE  \/ UNCHANGED ParsedFrameRing
         \/ /\ CtoPMarker \/ CtoPFrame
            /\ \E e \in FrameItems \cup MarkerItems : ParsedFrameRing' = Append(ParsedFrameRing, e)
         \/ PtoDExtract \/ PtoDControl \/ (SwitchCalls /\ At("codec class"))
<1>1. Typed
  BY DEF TypeInv
<1>2. CASE CtoPMarker
  BY <1>1, <1>2, HeadsAre, CollatedIs DEF CtoPMarker
<1>3. CASE CtoPFrame
  <2> DEFINE m == [Head(CollatedFrameRing) EXCEPT !.Value = NextBufferSequenceNumber]
  <2>1. Head(CollatedFrameRing) \in CollatedItems /\ NextBufferSequenceNumber \in Nat
    BY <1>1, <1>3, HeadsAre DEF CtoPFrame, TypeInv, Ranges, MessageRanges
  <2>2. IsFrame(m) => m \in FrameItems
    BY <2>1 DEF IsFrame, CollatedItems, FrameItems, MarkerItems, Others
  <2>3. UNCHANGED ParsedFrameRing \/ (IsFrame(m) /\ ParsedFrameRing' = Append(ParsedFrameRing, m))
    BY <1>3 DEF CtoPFrame
  <2> QED
    BY <1>3, <2>2, <2>3
<1>4. CASE SwitchCalls
  BY <1>4 DEF SwitchCalls
<1>5. CASE CtoPControl \/ CtoPSwitch \/ PtoDPass \/ PtoDDiscard \/ PtoDSwitch \/ CodecOutput
  BY <1>5 DEF CtoPControl, CtoPSwitch, PtoDPass, PtoDDiscard, PtoDSwitch, CodecOutput, rings
<1>6. CASE DtoMLoop \/ DtoMInHand \/ Manifest \/ PostMExtract
  BY <1>6 DEF DtoMLoop, DtoMSelect, DtoMMarker, DtoMExtract, DtoMTimeout, DtoMInHand, DtoMManifest,
              DtoMDiscard, Manifest, PostMExtract, rings
<1>7. CASE (\E isReference \in BOOLEAN : Collate(isReference))
           \/ (\E policy \in Policies : DrainBegin(policy)) \/ DrainGiveUp
  BY <1>7 DEF Collate, DrainBegin, DrainGiveUp, rings
<1>8. CASE Drain /\ ~SwitchCalls
  BY <1>8 DEF Drain, DrainJump, DrainCodec, DrainRelease, DrainCheck, DrainNumber, DrainInsert,
              DrainCallBefore, DrainCallAfter, SwitchCollator, DrainReturn, rings
<1> QED
  BY <1>2, <1>3, <1>4, <1>5, <1>6, <1>7, <1>8 DEF Next, CtoP, PtoD, Drain

\* The same of the ring of DecodeToManifest.
LEMMA DecodedBy ==
  ASSUME TypeInv, Next
  PROVE  \/ UNCHANGED DecodedFrameRing
         \/ /\ CodecOutput \/ DrainCallBefore
            /\ \E e \in DecodedItems :
                 e.kind # "SwitchOutputTimer" /\ DecodedFrameRing' = Append(DecodedFrameRing, e)
         \/ DtoMExtract \/ (SwitchCalls /\ At("timer"))
<1>1. Typed
  BY DEF TypeInv
<1>2. CASE CodecOutput
  <2>1. Head(codec) \in CodedItems
    BY <1>1, <1>2, HeadsAre DEF CodecOutput
  <2>2. Head(codec).kind # "dropped" =>
          Head(codec) \in DecodedItems /\ Head(codec).kind # "SwitchOutputTimer"
    BY <2>1, ItemSets DEF CodedItems, FrameItems, MarkerItems, DroppedItems
  <2> QED
    BY <1>2, <2>2 DEF CodecOutput
<1>3. CASE DrainCallBefore
  <2>1. DrainSequenceNumber \in Nat
    BY DEF TypeInv, Ranges, MessageRanges
  <2>2. Item("ResetTimeMapping", None, DrainSequenceNumber) \in DecodedItems
    BY <2>1, MadeItems, ItemSets DEF BeforeCalls
  <2>3. Item("ResetTimeMapping", None, DrainSequenceNumber).kind # "SwitchOutputTimer"
    BY DEF Item
  <2> QED
    BY <1>3, <2>2, <2>3 DEF DrainCallBefore
<1>4. CASE SwitchCalls
  BY <1>4 DEF SwitchCalls
<1>5. CASE CtoP \/ PtoD
  BY <1>5 DEF CtoP, CtoPMarker, CtoPFrame, CtoPControl, CtoPSwitch, PtoD, PtoDExtract, PtoDControl,
              PtoDPass, PtoDDiscard, PtoDSwitch, rings
<1>6. CASE DtoMSelect \/ DtoMMarker \/ DtoMTimeout \/ DtoMInHand \/ Manifest \/ PostMExtract
  BY <1>6 DEF DtoMSelect, DtoMMarker, DtoMTimeout, DtoMInHand, DtoMManifest,
              DtoMDiscard, Manifest, PostMExtract, rings
<1>7. CASE (\E isReference \in BOOLEAN : Collate(isReference))
           \/ (\E policy \in Policies : DrainBegin(policy)) \/ DrainGiveUp
  BY <1>7 DEF Collate, DrainBegin, DrainGiveUp, rings
<1>8. CASE Drain /\ ~SwitchCalls /\ ~DrainCallBefore
  BY <1>8 DEF Drain, DrainJump, DrainCodec, DrainRelease, DrainCheck, DrainNumber, DrainInsert,
              DrainCallAfter, SwitchCollator, DrainReturn, rings
<1> QED
  BY <1>2, <1>3, <1>4, <1>5, <1>6, <1>7, <1>8 DEF Next, DtoMLoop, Drain

\* The same of the ring of PostManifest.
LEMMA ManifestedBy ==
  ASSUME TypeInv, Next
  PROVE  \/ UNCHANGED ManifestedBufferRing
         \/ /\ DtoMMarker \/ Manifest \/ DrainCallAfter
            /\ \E e \in ManifestedItems :
                 e.kind # "SwitchComplete" /\ ManifestedBufferRing' = Append(ManifestedBufferRing, e)
         \/ /\ DrainRelease
            /\ \E t \in Seq(ManifestedItems) :
                 (\A m \in ToSet(t) : IsFrame(m)) /\ ManifestedBufferRing' = ManifestedBufferRing \o t
         \/ PostMExtract \/ (SwitchCalls /\ At("complete"))
<1>1. Typed
  BY DEF TypeInv
<1>2. CASE DtoMMarker
  <2>1. MarkerFrameBuffer \in MarkerItems
    BY <1>1, <1>2, HeadsAre DEF DtoMMarker
  <2>2. MarkerFrameBuffer \in ManifestedItems /\ MarkerFrameBuffer.kind # "SwitchComplete"
    BY <2>1, ItemSets DEF MarkerItems
  <2> QED
    BY <1>2, <2>2 DEF DtoMMarker
<1>3. CASE Manifest
  <2>1. Head(manifestor) \in FrameItems
    BY <1>1, <1>3, HeadsAre DEF Manifest
  <2>2. Head(manifestor) \in ManifestedItems /\ Head(manifestor).kind # "SwitchComplete"
    BY <2>1, ItemSets DEF FrameItems
  <2> QED
    BY <1>3, <2>2 DEF Manifest
<1>4. CASE DrainCallAfter
  <2>1. DrainSequenceNumber \in Nat
    BY DEF TypeInv, Ranges, MessageRanges
  <2>2. Item("SetDrained", None, DrainSequenceNumber) \in ManifestedItems
    BY <2>1, MadeItems, ItemSets DEF AfterCalls
  <2>3. Item("SetDrained", None, DrainSequenceNumber).kind # "SwitchComplete"
    BY DEF Item
  <2> QED
    BY <1>4, <2>2, <2>3 DEF DrainCallAfter
<1>5. CASE DrainRelease
  <2>1. PICK shown \in 0 .. Min({1, Len(manifestor)}) :
          ManifestedBufferRing' = ManifestedBufferRing \o SubSeq(manifestor, shown + 1, Len(manifestor))
    BY <1>5 DEF DrainRelease
  <2>2. manifestor \in Seq(FrameItems) /\ ManifestedBufferRing \in Seq(ManifestedItems)
    BY <1>1 DEF Typed
  <2>3. shown \in 0 .. Len(manifestor) /\ Len(manifestor) \in Nat
    BY <2>2, ItemSets, ReleasedIs
  <2>4. SubSeq(manifestor, shown + 1, Len(manifestor)) \in Seq(FrameItems)
    BY <2>2, <2>3
  <2>5. /\ SubSeq(manifestor, shown + 1, Len(manifestor)) \in Seq(ManifestedItems)
        /\ \A m \in ToSet(SubSeq(manifestor, shown + 1, Len(manifestor))) : IsFrame(m)
    <3>1. ToSet(SubSeq(manifestor, shown + 1, Len(manifestor))) \subseteq FrameItems
      BY <2>4, MembersOf
    <3>2. SubSeq(manifestor, shown + 1, Len(manifestor)) \in Seq(ManifestedItems)
      BY <2>4, ItemSets
    <3> QED
      BY <3>1, <3>2, FrameIs
  <2> QED
    BY <1>5, <2>1, <2>5
<1>6. CASE SwitchCalls
  BY <1>6 DEF SwitchCalls
<1>7. CASE CtoP \/ PtoD \/ CodecOutput
  BY <1>7 DEF CtoP, CtoPMarker, CtoPFrame, CtoPControl, CtoPSwitch, PtoD, PtoDExtract, PtoDControl,
              PtoDPass, PtoDDiscard, PtoDSwitch, CodecOutput, rings
<1>8. CASE DtoMSelect \/ DtoMExtract \/ DtoMTimeout \/ DtoMInHand
  BY <1>8 DEF DtoMSelect, DtoMExtract, DtoMTimeout, DtoMInHand, DtoMManifest, DtoMDiscard, rings
<1>9. CASE (\E isReference \in BOOLEAN : Collate(isReference))
           \/ (\E policy \in Policies : DrainBegin(policy)) \/ DrainGiveUp
  BY <1>9 DEF Collate, DrainBegin, DrainGiveUp, rings
<1>10. CASE Drain /\ ~SwitchCalls /\ ~DrainCallAfter /\ ~DrainRelease
  BY <1>10 DEF Drain, DrainJump, DrainCodec, DrainCheck, DrainNumber, DrainInsert,
               DrainCallBefore, SwitchCollator, DrainReturn, rings
<1> QED
  BY <1>2, <1>3, <1>4, <1>5, <1>6, <1>7, <1>8, <1>9, <1>10 DEF Next, DtoMLoop, Drain

-----------------------------------------------------------------------------
\* A call as it is made, with the number of the marker.
Called(kind) == Item(kind, None, DrainSequenceNumber)

\* The parser's call is made, and taken in behind its marker.
LEMMA ParserCallsStep ==
  ASSUME TypeInv, CallOnce, NoneTwice, Next
  PROVE  \/ ParserKept /\ ~CtoPControl /\ ~(SwitchCalls /\ At("parser"))
         \/ /\ CtoPControl
            /\ Once(CollatedFrameRing', {}, "SwitchFrameParser") /\ ParserCalls' = {}
            /\ Head(CollatedFrameRing) \in ParserCalls /\ Head(CollatedFrameRing).kind = "SwitchFrameParser"
         \/ /\ SwitchCalls /\ At("parser")
            /\ CollatedFrameRing' = Append(CollatedFrameRing, Called("SwitchFrameParser"))
            /\ Once(CollatedFrameRing', {}, "SwitchFrameParser")
            /\ ParserCalls' = {Called("SwitchFrameParser")}
<1> DEFINE C == CollatedFrameRing
<1>1. Typed /\ C \in Seq(CollatedItems) /\ Once(C, {}, "SwitchFrameParser")
  BY DEF TypeInv, Typed, CallOnce
<1>2. CASE CtoPControl
  <2>1. C # <<>> /\ C' = Tail(C) /\ Head(C) \in CollatedItems /\ IsControl(Head(C))
    BY <1>1, <1>2, HeadsAre DEF CtoPControl
  <2>2. Head(C) \in Others({"SwitchFrameParser"})
    BY <2>1, CollatedIs
  <2>3. Head(C).kind = "SwitchFrameParser"
    BY <2>2 DEF Others
  <2>4. C \in Seq(CollatedItems) /\ C # <<>> /\ Once(C, {}, "SwitchFrameParser")
    BY <1>1, <2>1
  <2>5. Once(Tail(C), {}, "SwitchFrameParser")
    BY <2>4, CallTaken
  <2>6. /\ CallsFor(Tail(C), {}, "SwitchFrameParser") = {}
        /\ Head(C) \in CallsFor(C, {}, "SwitchFrameParser")
    BY <2>3, <2>4, CallTaken
  <2> QED
    BY <1>2, <2>1, <2>3, <2>5, <2>6 DEF ParserCalls
<1>3. CASE SwitchCalls /\ At("parser")
  <2>1. C' = Append(C, Called("SwitchFrameParser"))
    BY <1>3 DEF SwitchCalls, At, Called, SwitchNumber
  <2>2. Called("SwitchFrameParser") \in CollatedItems
    BY MadeItems, ItemSets DEF Called, AfterCalls, TypeInv, Ranges, MessageRanges
  <2>3. Called("SwitchFrameParser").kind = "SwitchFrameParser"
    BY DEF Called, Item
  <2>4. CallsFor(C, {}, "SwitchFrameParser") = {}
    BY <1>3 DEF NoneTwice, At, ParserCalls
  <2>5. /\ Once(Append(C, Called("SwitchFrameParser")), {}, "SwitchFrameParser")
        /\ CallsFor(Append(C, Called("SwitchFrameParser")), {}, "SwitchFrameParser")
             = {Called("SwitchFrameParser")}
    BY <1>1, <2>2, <2>3, <2>4, CallAppended
  <2> QED
    BY <1>3, <2>1, <2>5 DEF ParserCalls
<1> QED
  BY <1>2, <1>3, ParserKeptBy

\* Each call takes the thread that switches one step further.
LEMMA SwitchCallsMove ==
  ASSUME TypeInv, SwitchCalls
  PROVE  drain' # drain
<1>1. drain = [drain EXCEPT !.pc = @] /\ \A v : [drain EXCEPT !.pc = v].pc = v
  BY DEF TypeInv, Ranges, DrainRanges
<1> QED
  BY <1>1 DEF SwitchCalls, At, Go

\* The codec's call is made, and acted on by ParseToDecode, which then waits.
LEMMA CodecCallsStep ==
  ASSUME TypeInv, CallOnce, NoneTwice, MaxMessages >= 1, Next
  PROVE  \/ /\ CodecKept /\ ~(SwitchCalls /\ At("codec class"))
            /\ PtoDPass \/ PtoDDiscard \/ PtoDControl => UNCHANGED switch
         \/ /\ PtoDPass \/ PtoDDiscard \/ PtoDControl
            /\ Once(ParsedFrameRing', Accumulated'["PtoD"], "SwitchCodec")
            /\ CodecCalls # {} /\ CodecCalls' = {}
            /\ switch' = [switch EXCEPT !.halted = @ \cup {"PtoD"}]
         \/ /\ SwitchCalls /\ At("codec class")
            /\ ParsedFrameRing' = Append(ParsedFrameRing, Called("SwitchCodec"))
            /\ Once(ParsedFrameRing', Accumulated'["PtoD"], "SwitchCodec")
            /\ CodecCalls' = {Called("SwitchCodec")}
<1> DEFINE P == ParsedFrameRing
           A == Accumulated["PtoD"]
           kind == "SwitchCodec"
<1>1. Typed /\ P \in Seq(ParsedItems) /\ Once(P, A, kind) /\ CallsTyped
  BY DEF TypeInv, Typed, CallOnce
<1>2. \A m \in A : m.kind = kind
  <2>1. A \subseteq Others({"SwitchCodec"})
    BY <1>1, CallsOfIs DEF CallsTyped
  <2> QED
    BY <2>1 DEF Others
<1>3. CASE PtoDPass \/ PtoDDiscard
  <2> DEFINE due == Due("PtoD", PtoDBuffer.Value, AfterCalls)
  <2>1. /\ Accumulated' = [Accumulated EXCEPT !["PtoD"] = @ \ due]
        /\ switch' = IF due = {} THEN switch ELSE [switch EXCEPT !.halted = @ \cup {"PtoD"}]
        /\ P' = P
    BY <1>3 DEF PtoDPass, PtoDDiscard, PtoDCallsAfter, rings
  <2>2. Accumulated'["PtoD"] = A \ due
    BY <1>1, <2>1, ActedIs DEF Processes
  <2>3. due \subseteq A
    BY DueIs
  <2> HIDE DEF due
  <2>4. Once(P, A \ due, kind)
    BY <1>1, <2>3, CallsActedOn
  <2>5. CASE due = {}
    <3>1. A \ due = A
      BY <2>5
    <3> QED
      BY <1>1, <1>3, <2>1, <2>2, <2>5, <3>1 DEF CodecKept, CodecCalls, PtoDPass, PtoDDiscard, SwitchCalls, drn, At
  <2>6. CASE due # {}
    <3>1. PICK m \in due : TRUE
      BY <2>6
    <3>2. m.kind = kind
      BY <1>2, <2>3
    <3>3. CallsFor(P, A \ due, kind) = {} /\ m \in CallsFor(P, A, kind)
      BY <1>1, <2>3, <3>2, CallsActedOn
    <3> QED
      BY <1>3, <2>1, <2>2, <2>4, <2>6, <3>3 DEF CodecCalls
  <2> QED
    BY <2>5, <2>6
<1>4. CASE PtoDControl
  <2>1. P # <<>> /\ P' = Tail(P) /\ Head(P) \in ParsedItems /\ IsControl(Head(P))
    BY <1>1, <1>4, HeadsAre DEF PtoDControl
  <2>2. Head(P) \in Others({"SwitchCodec"})
    BY <2>1, ParsedIs
  <2>3. Head(P).kind = kind
    BY <2>2 DEF Others
  <2>4. P \in Seq(ParsedItems) /\ P # <<>> /\ Once(P, A, kind)
    BY <1>1, <2>1
  <2>5. CASE Reached("PtoD", Head(P).Value)
    <3>1. switch' = [switch EXCEPT !.halted = @ \cup {"PtoD"}] /\ Accumulated' = Accumulated
      BY <1>4, <2>5 DEF PtoDControl
    <3>2. Once(Tail(P), A, kind)
      BY <2>4, CallTaken
    <3>3. CallsFor(Tail(P), A, kind) = {} /\ Head(P) \in CallsFor(P, A, kind)
      BY <2>3, <2>4, CallTaken
    <3> QED
      BY <1>4, <2>1, <3>1, <3>2, <3>3 DEF CodecCalls
  <2>6. CASE ~Reached("PtoD", Head(P).Value)
    <3>1. switch' = switch /\ Accumulate("PtoD", Head(P))
      BY <1>4, <2>6 DEF PtoDControl
    <3>2. A = {}
      <4>1. /\ CallsFor(Tail(P), A, kind) = {}
        BY <2>3, <2>4, CallTaken
      <4> QED
        BY <1>2, <4>1 DEF CallsFor
    <3>3. Accumulated'["PtoD"] = {Head(P)}
      BY <1>1, <3>1, <3>2, AccumulatedIs DEF Processes
    <3>4. /\ Once(Tail(P), A \cup {Head(P)}, kind)
          /\ CallsFor(Tail(P), A \cup {Head(P)}, kind) = CallsFor(P, A, kind)
      BY <2>4, CallTaken
    <3>5. A \cup {Head(P)} = {Head(P)}
      BY <3>2
    <3>6. CodecKept
      BY <2>1, <3>3, <3>4, <3>5 DEF CodecKept, CodecCalls
    <3> QED
      BY <1>4, <3>1, <3>6, SwitchCallsMove DEF PtoDControl, drn
  <2> QED
    BY <2>5, <2>6
<1>5. CASE SwitchCalls /\ At("codec class")
  <2>1. P' = Append(P, Called("SwitchCodec")) /\ Accumulated' = Accumulated
    BY <1>5 DEF SwitchCalls, At, Called, SwitchNumber, msgs
  <2>2. Called(kind) \in ParsedItems
    BY MadeItems, ItemSets DEF Called, AfterCalls, TypeInv, Ranges, MessageRanges
  <2>3. Called(kind).kind = kind
    BY DEF Called, Item
  <2>4. CallsFor(P, A, kind) = {}
    BY <1>5 DEF NoneTwice, At, CodecCalls
  <2>5. /\ Once(Append(P, Called(kind)), A, kind)
        /\ CallsFor(Append(P, Called(kind)), A, kind) = {Called(kind)}
    <3> HIDE DEF kind
    <3> QED
      BY <1>1, <2>2, <2>3, <2>4, CallAppended
  <2> QED
    BY <1>5, <2>1, <2>5 DEF CodecCalls
<1>6. CASE ~PtoDPass /\ ~PtoDDiscard /\ ~PtoDControl /\ ~(SwitchCalls /\ At("codec class"))
  <2>1. Accumulated'["PtoD"] = A
    BY <1>6, AccumulatedBy
  <2>2. \/ UNCHANGED P
        \/ \E e \in FrameItems \cup MarkerItems : P' = Append(P, e)
        \/ PtoDExtract
    BY <1>6, ParsedBy
  <2>3. CASE UNCHANGED P
    BY <1>1, <1>6, <2>1, <2>3 DEF CodecKept, CodecCalls
  <2>4. CASE \E e \in FrameItems \cup MarkerItems : P' = Append(P, e)
    <3>1. PICK e \in FrameItems \cup MarkerItems : P' = Append(P, e)
      BY <2>4
    <3>2. e \in ParsedItems /\ e.kind # "SwitchCodec"
      BY ItemSets DEF FrameItems, MarkerItems
    <3>3. /\ Once(Append(P, e), A, "SwitchCodec")
          /\ CallsFor(Append(P, e), A, "SwitchCodec") = CallsFor(P, A, "SwitchCodec")
      BY <1>1, <3>2, CallAppended
    <3> QED
      BY <1>6, <2>1, <3>1, <3>3 DEF CodecKept, CodecCalls
  <2>5. CASE PtoDExtract
    <3>1. P # <<>> /\ P' = Tail(P) /\ Head(P).kind # "SwitchCodec"
      BY <2>5 DEF PtoDExtract, IsControl, AfterCalls
    <3>2. P \in Seq(ParsedItems) /\ P # <<>> /\ Once(P, A, "SwitchCodec") /\ Head(P).kind # "SwitchCodec"
      BY <1>1, <3>1
    <3>3. Once(Tail(P), A, "SwitchCodec")
      BY <3>2, CallTaken
    <3>4. CallsFor(Tail(P), A, "SwitchCodec") = CallsFor(P, A, "SwitchCodec")
      BY <3>2, OtherTaken
    <3> QED
      BY <1>6, <2>1, <3>1, <3>3, <3>4 DEF CodecKept, CodecCalls
  <2> QED
    BY <2>2, <2>3, <2>4, <2>5
<1> QED
  BY <1>3, <1>4, <1>5, <1>6

\* SwitchOutputTimer runs: whoever waits for the last decode may go on.
TimerRuns ==
  /\ Once(DecodedFrameRing', Accumulated'["DtoM"], "SwitchOutputTimer")
  /\ TimerCalls # {} /\ TimerCalls' = {}
  /\ switch' = [switch EXCEPT !.LastOneOutOfTheCodec = TRUE]

\* Calls that DecodeToManifest had accumulated are acted on.
LEMMA TimerActedOn ==
  ASSUME TypeInv, CallOnce, NEW due, due \subseteq Accumulated["DtoM"],
         Accumulated' = [Accumulated EXCEPT !["DtoM"] = @ \ due]
  PROVE  /\ UNCHANGED DecodedFrameRing => TimerFewer
         /\ DecodedFrameRing # <<>> /\ DecodedFrameRing' = Tail(DecodedFrameRing) => TimerFewer
         /\ UNCHANGED DecodedFrameRing /\ LastOneOut(due) => UNCHANGED switch \/ TimerRuns
<1> DEFINE D == DecodedFrameRing
           A == Accumulated["DtoM"]
           kind == "SwitchOutputTimer"
<1>1. D \in Seq(DecodedItems) /\ Once(D, A, kind) /\ CallsTyped
  BY DEF TypeInv, Typed, CallOnce
<1>2. Accumulated'["DtoM"] = A \ due
  BY <1>1, ActedIs DEF Processes
<1> HIDE DEF kind
<1>3. Once(D, A \ due, kind) /\ CallsFor(D, A \ due, kind) \subseteq CallsFor(D, A, kind)
  BY <1>1, CallsActedOn
<1>4. \A m \in due : m.kind = kind => CallsFor(D, A \ due, kind) = {} /\ m \in CallsFor(D, A, kind)
  BY <1>1, CallsActedOn
<1>5. D # <<>> => /\ Once(Tail(D), A \ due, kind)
                  /\ CallsFor(Tail(D), A \ due, kind) \subseteq CallsFor(D, A \ due, kind)
  <2>1. ASSUME D # <<>>
        PROVE  Once(Tail(D), A \ due, kind)
    BY <1>1, <1>3, <2>1, CallTaken
  <2>2. ASSUME D # <<>>
        PROVE  CallsFor(Tail(D), A \ due, kind) \subseteq CallsFor(D, A \ due, kind)
    BY <1>1, <2>2, TailIs DEF CallsFor
  <2> QED
    BY <2>1, <2>2
<1>6. UNCHANGED D => TimerFewer
  BY <1>2, <1>3 DEF TimerFewer, TimerCalls, kind
<1>7. D # <<>> /\ D' = Tail(D) => TimerFewer
  BY <1>2, <1>3, <1>5 DEF TimerFewer, TimerCalls, kind
<1>8. UNCHANGED D /\ LastOneOut(due) => UNCHANGED switch \/ TimerRuns
  <2>1. CASE \E m \in due : m.kind = kind
    BY <1>2, <1>3, <1>4, <2>1 DEF TimerRuns, TimerCalls, LastOneOut, kind
  <2>2. CASE ~\E m \in due : m.kind = kind
    BY <2>2 DEF LastOneOut, kind
  <2> QED
    BY <2>1, <2>2
<1> QED
  BY <1>6, <1>7, <1>8

\* The output timer's call is made, and acted on by DecodeToManifest.
LEMMA TimerCallsStep ==
  ASSUME TypeInv, CallOnce, NoneTwice, Next
  PROVE  \/ /\ TimerFewer /\ ~(SwitchCalls /\ At("timer"))
            /\ DtoMLoop \/ DtoMInHand => UNCHANGED switch
         \/ (DtoMLoop \/ DtoMInHand) /\ TimerRuns
         \/ /\ SwitchCalls /\ At("timer")
            /\ Once(DecodedFrameRing', Accumulated'["DtoM"], "SwitchOutputTimer")
            /\ TimerCalls' = {Called("SwitchOutputTimer")}
<1> DEFINE D == DecodedFrameRing
           A == Accumulated["DtoM"]
           kind == "SwitchOutputTimer"
<1>1. D \in Seq(DecodedItems) /\ Once(D, A, kind) /\ CallsTyped /\ Typed
  BY DEF TypeInv, Typed, CallOnce
<1>2. ~(SwitchCalls /\ (DtoMLoop \/ DtoMInHand))
  BY SwitchCallsMove DEF DtoMLoop, DtoMSelect, DtoMMarker, DtoMExtract, DtoMTimeout, DtoMInHand,
                         DtoMManifest, DtoMDiscard, drn
<1>3. CASE DtoMSelect
  <2> DEFINE due == Due("DtoM", Number(Lowest), BeforeCalls)
  <2>1. due \subseteq A
    BY DueIs
  <2>2. Accumulated' = [Accumulated EXCEPT !["DtoM"] = @ \ due] /\ UNCHANGED <<D, switch>>
    BY <1>3 DEF DtoMSelect, TakeFrame, rings
  <2> HIDE DEF due
  <2>3. TimerFewer
    BY <2>1, <2>2, TimerActedOn
  <2> QED
    BY <1>2, <1>3, <2>2, <2>3 DEF DtoMLoop
<1>4. CASE DtoMMarker
  <2> DEFINE due == Due("DtoM", MarkerFrameBuffer.Value, BeforeCalls \cup AfterCalls)
  <2>1. due \subseteq A
    BY DueIs
  <2>2. Accumulated' = [Accumulated EXCEPT !["DtoM"] = @ \ due] /\ LastOneOut(due) /\ UNCHANGED D
    BY <1>4 DEF DtoMMarker
  <2> HIDE DEF due
  <2>3. TimerFewer /\ (UNCHANGED switch \/ TimerRuns)
    BY <2>1, <2>2, TimerActedOn
  <2> QED
    BY <1>2, <1>4, <2>3 DEF DtoMLoop
<1>5. CASE DtoMInHand
  <2> DEFINE due == Due("DtoM", Number(DtoMBuffer), AfterCalls)
  <2>1. due \subseteq A
    BY DueIs
  <2>2. Accumulated' = [Accumulated EXCEPT !["DtoM"] = @ \ due] /\ LastOneOut(due) /\ UNCHANGED D
    BY <1>5 DEF DtoMInHand, DtoMManifest, DtoMDiscard, DtoMCallsAfter, rings
  <2> HIDE DEF due
  <2>3. TimerFewer /\ (UNCHANGED switch \/ TimerRuns)
    BY <2>1, <2>2, TimerActedOn
  <2> QED
    BY <1>2, <1>5, <2>3
<1>6. CASE DtoMExtract
  <2> DEFINE m == Head(D)
  <2>1. D # <<>> /\ D' = Tail(D) /\ D \in Seq(DecodedItems) /\ Once(D, A, kind)
    BY <1>1, <1>6 DEF DtoMExtract
  <2>2. /\ Once(Tail(D), A, kind)
        /\ Once(Tail(D), A \cup {m}, kind)
        /\ CallsFor(Tail(D), A \cup {m}, kind) = CallsFor(D, A, kind)
        /\ CallsFor(Tail(D), A, kind) \subseteq CallsFor(D, A, kind)
    <3> HIDE DEF kind
    <3>1. CallsFor(Tail(D), A, kind) \subseteq CallsFor(D, A, kind)
      BY <2>1, TailIs DEF CallsFor
    <3> QED
      BY <2>1, <3>1, CallTaken
  <2>3. \/ Accumulated' = Accumulated /\ LastOneOut({m})
        \/ Accumulate("DtoM", m) /\ UNCHANGED switch
        \/ Accumulated' = Accumulated /\ UNCHANGED switch
        \/ TakeFrame(m, SkipNonDecoded.desired) /\ UNCHANGED switch
    BY <1>6 DEF DtoMExtract, msgs
  <2>4. CASE Accumulated' = Accumulated /\ UNCHANGED switch
    BY <1>2, <1>6, <2>1, <2>2, <2>4 DEF TimerFewer, TimerCalls, DtoMLoop
  <2>5. CASE Accumulated' = Accumulated /\ LastOneOut({m})
    <3>1. CASE m.kind # kind
      <4>1. UNCHANGED switch
        BY <2>5, <3>1 DEF LastOneOut
      <4> QED
        BY <1>2, <1>6, <2>1, <2>2, <2>5, <4>1 DEF TimerFewer, TimerCalls, DtoMLoop
    <3>2. CASE m.kind = kind
      <4>1. switch' = [switch EXCEPT !.LastOneOutOfTheCodec = TRUE]
        BY <2>5, <3>2 DEF LastOneOut
      <4>2. CallsFor(Tail(D), A, kind) = {} /\ m \in CallsFor(D, A, kind)
        <5> HIDE DEF kind
        <5> QED
          BY <2>1, <3>2, CallTaken
      <4> QED
        BY <1>6, <2>1, <2>2, <2>5, <4>1, <4>2 DEF TimerRuns, TimerCalls, DtoMLoop
    <3> QED
      BY <3>1, <3>2
  <2>6. CASE Accumulate("DtoM", m) /\ UNCHANGED switch
    <3>1. Accumulated'["DtoM"] \in {A, A \cup {m}}
      BY <1>1, <2>6, AccumulatedIs DEF Processes
    <3>2. TimerFewer
      BY <2>1, <2>2, <3>1 DEF TimerFewer, TimerCalls
    <3> QED
      BY <1>2, <1>6, <2>6, <3>2 DEF DtoMLoop
  <2>7. CASE TakeFrame(m, SkipNonDecoded.desired) /\ UNCHANGED switch
    <3> DEFINE due == Due("DtoM", Number(m), BeforeCalls)
    <3>1. due \subseteq A
      BY DueIs
    <3>2. Accumulated' = [Accumulated EXCEPT !["DtoM"] = @ \ due]
      BY <2>7 DEF TakeFrame
    <3> HIDE DEF due
    <3>3. TimerFewer
      BY <2>1, <3>1, <3>2, TimerActedOn
    <3> QED
      BY <1>2, <1>6, <2>7, <3>3 DEF DtoMLoop
  <2> QED
    BY <2>3, <2>4, <2>5, <2>6, <2>7
<1>7. CASE DtoMTimeout
  BY <1>1, <1>2, <1>7 DEF DtoMTimeout, DtoMLoop, rings, msgs, TimerFewer, TimerCalls
<1>8. CASE SwitchCalls /\ At("timer")
  <2>1. D' = Append(D, Called("SwitchOutputTimer")) /\ Accumulated' = Accumulated
    BY <1>8 DEF SwitchCalls, At, Called, SwitchNumber, msgs
  <2>2. Called(kind) \in DecodedItems
    BY MadeItems, ItemSets DEF Called, AfterCalls, TypeInv, Ranges, MessageRanges
  <2>3. Called(kind).kind = kind
    BY DEF Called, Item
  <2>4. CallsFor(D, A, kind) = {}
    BY <1>8 DEF NoneTwice, At, TimerCalls
  <2>5. /\ Once(Append(D, Called(kind)), A, kind)
        /\ CallsFor(Append(D, Called(kind)), A, kind) = {Called(kind)}
    <3> HIDE DEF kind
    <3> QED
      BY <1>1, <2>2, <2>3, <2>4, CallAppended
  <2> QED
    BY <1>8, <2>1, <2>5 DEF TimerCalls
<1>9. CASE ~DtoMLoop /\ ~DtoMInHand /\ ~(SwitchCalls /\ At("timer"))
  <2>1. Accumulated'["DtoM"] = A
    BY <1>9, AccumulatedBy DEF DtoMLoop
  <2>2. \/ UNCHANGED D
        \/ \E e \in DecodedItems : e.kind # "SwitchOutputTimer" /\ D' = Append(D, e)
    BY <1>9, DecodedBy DEF DtoMLoop
  <2>3. CASE UNCHANGED D
    BY <1>1, <1>9, <2>1, <2>3 DEF TimerFewer, TimerCalls
  <2>4. CASE \E e \in DecodedItems : e.kind # "SwitchOutputTimer" /\ D' = Append(D, e)
    <3>1. PICK e \in DecodedItems : e.kind # "SwitchOutputTimer" /\ D' = Append(D, e)
      BY <2>4
    <3>2. Once(Append(D, e), A, kind) /\ CallsFor(Append(D, e), A, kind) = CallsFor(D, A, kind)
      <4>1. e.kind # kind
        BY <3>1
      <4> HIDE DEF kind
      <4> QED
        BY <1>1, <4>1, CallAppended
    <3> QED
      BY <1>9, <2>1, <3>1, <3>2 DEF TimerFewer, TimerCalls
  <2> QED
    BY <2>2, <2>3, <2>4
<1> QED
  BY <1>3, <1>4, <1>5, <1>6, <1>7, <1>8, <1>9 DEF DtoMLoop

\* SwitchComplete runs: the next switch may be made.
CompleteRuns ==
  /\ Once(ManifestedBufferRing', Accumulated'["PostM"], "SwitchComplete")
  /\ Completes' = {} /\ \E c \in Completes : c.Value <= SeenLast'
  /\ switch' = [switch EXCEPT !.CodecReset = FALSE, !.InProgress = FALSE]

\* The completion of the switch is asked for, and acted on by PostManifest.
LEMMA CompletesStep ==
  ASSUME TypeInv, CallOnce, NoneTwice, Next
  PROVE  \/ /\ CompletesFewer /\ ~(SwitchCalls /\ At("complete"))
            /\ PostMExtract => UNCHANGED switch
         \/ PostMExtract /\ CompleteRuns
         \/ /\ SwitchCalls /\ At("complete")
            /\ Once(ManifestedBufferRing', Accumulated'["PostM"], "SwitchComplete")
            /\ Completes' = {Item("SwitchComplete", None, CompleteNumber)}
<1> DEFINE R == ManifestedBufferRing
           A == Accumulated["PostM"]
           kind == "SwitchComplete"
<1>1. R \in Seq(ManifestedItems) /\ Once(R, A, kind) /\ CallsTyped /\ Typed
  BY DEF TypeInv, Typed, CallOnce
<1>2. CASE PostMExtract
  <2> DEFINE m == Head(R)
             due == Due("PostM", m.Value, BeforeCalls \cup AfterCalls)
  <2>1. R # <<>> /\ R' = Tail(R) /\ R \in Seq(ManifestedItems) /\ Once(R, A, kind) /\ m.Value \in Nat
    BY <1>1, <1>2, HeadsAre DEF PostMExtract
  <2>2. ~(SwitchCalls /\ At("complete"))
    BY <1>2, SwitchCallsMove DEF PostMExtract
  <2>3. /\ Once(Tail(R), A, kind)
        /\ Once(Tail(R), A \cup {m}, kind)
        /\ CallsFor(Tail(R), A \cup {m}, kind) = CallsFor(R, A, kind)
        /\ CallsFor(Tail(R), A, kind) \subseteq CallsFor(R, A, kind)
    <3> HIDE DEF kind
    <3>1. CallsFor(Tail(R), A, kind) \subseteq CallsFor(R, A, kind)
      BY <2>1, TailIs DEF CallsFor
    <3> QED
      BY <2>1, <3>1, CallTaken
  <2>4. CASE ~IsControl(m)
    <3>1. /\ See("PostM", m.Value) /\ Accumulated' = [Accumulated EXCEPT !["PostM"] = @ \ due]
          /\ PostMCall(due)
      BY <1>2, <2>4 DEF PostMExtract
    <3>2. due \subseteq A /\ \A c \in due : c.Value <= m.Value
      BY DEF Due
    <3>3. m.Value <= SeenLast' /\ SeenLast' \in Nat
      BY <2>1, <3>1, SeeIs DEF SeenLast, Processes, TypeInv, Ranges, MessageRanges
    <3>4. Accumulated'["PostM"] = A \ due
      BY <1>1, <3>1, ActedIs DEF Processes
    <3> HIDE DEF due
    <3>5. /\ Once(Tail(R), A \ due, kind) /\ CallsFor(Tail(R), A \ due, kind) \subseteq CallsFor(R, A, kind)
          /\ \A c \in due : c.kind = kind => CallsFor(R, A \ due, kind) = {} /\ c \in CallsFor(R, A, kind)
      <4> HIDE DEF kind
      <4>1. Tail(R) \in Seq(ManifestedItems)
        BY <2>1, TailIs
      <4>2. /\ Once(Tail(R), A \ due, kind)
            /\ CallsFor(Tail(R), A \ due, kind) \subseteq CallsFor(Tail(R), A, kind)
        BY <2>3, <3>2, <4>1, CallsActedOn
      <4>3. \A c \in due : c.kind = kind => CallsFor(R, A \ due, kind) = {} /\ c \in CallsFor(R, A, kind)
        BY <2>1, <3>2, CallsActedOn
      <4> QED
        BY <2>3, <4>2, <4>3
    <3>6. CASE \E c \in due : c.kind = kind
      <4>1. PICK c \in due : c.kind = kind
        BY <3>6
      <4>2. c.Value <= SeenLast'
        <5>1. c \in Others(CallsOf("PostM"))
          BY <1>1, <3>2 DEF CallsTyped, Processes
        <5>2. c.Value \in Nat
          BY <5>1 DEF Others
        <5>3. c.Value <= m.Value
          BY <3>2
        <5> QED
          BY <2>1, <3>3, <5>2, <5>3
      <4>3. CallsFor(Tail(R), A \ due, kind) = {}
        <5>1. CallsFor(R, A \ due, kind) = {}
          BY <3>5, <4>1
        <5> QED
          BY <2>1, <5>1, TailIs DEF CallsFor
      <4>4. switch' = [switch EXCEPT !.CodecReset = FALSE, !.InProgress = FALSE]
        BY <3>1, <3>6 DEF PostMCall
      <4> QED
        BY <1>2, <2>1, <3>4, <3>5, <4>1, <4>2, <4>3, <4>4 DEF CompleteRuns, Completes
    <3>7. CASE ~\E c \in due : c.kind = kind
      <4>1. UNCHANGED switch
        BY <3>1, <3>7 DEF PostMCall
      <4> QED
        BY <1>2, <2>1, <2>2, <3>4, <3>5, <4>1 DEF CompletesFewer, Completes
    <3> QED
      BY <3>6, <3>7
  <2>5. CASE IsControl(m) /\ Reached("PostM", m.Value)
    <3>1. PostMCall({m}) /\ UNCHANGED <<MaximumActualSequenceNumberSeen, Accumulated>>
      BY <1>2, <2>5 DEF PostMExtract
    <3>2. CASE m.kind = kind
      <4>1. switch' = [switch EXCEPT !.CodecReset = FALSE, !.InProgress = FALSE]
        BY <3>1, <3>2 DEF PostMCall
      <4>2. CallsFor(Tail(R), A, kind) = {} /\ m \in CallsFor(R, A, kind)
        <5> HIDE DEF kind
        <5> QED
          BY <2>1, <3>2, CallTaken
      <4>3. m.Value <= SeenLast'
        BY <2>5, <3>1 DEF Reached, SeenLast
      <4> QED
        BY <1>2, <2>1, <2>3, <3>1, <4>1, <4>2, <4>3 DEF CompleteRuns, Completes
    <3>3. CASE m.kind # kind
      <4>1. UNCHANGED switch
        BY <3>1, <3>3 DEF PostMCall
      <4> QED
        BY <1>2, <2>1, <2>2, <2>3, <3>1, <4>1 DEF CompletesFewer, Completes
    <3> QED
      BY <3>2, <3>3
  <2>6. CASE IsControl(m) /\ ~Reached("PostM", m.Value)
    <3>1. Accumulate("PostM", m) /\ UNCHANGED switch
      BY <1>2, <2>6 DEF PostMExtract
    <3>2. Accumulated'["PostM"] \in {A, A \cup {m}}
      BY <1>1, <3>1, AccumulatedIs DEF Processes
    <3> QED
      BY <1>2, <2>1, <2>2, <2>3, <3>1, <3>2 DEF CompletesFewer, Completes
  <2> QED
    BY <2>4, <2>5, <2>6
<1>3. CASE SwitchCalls /\ At("complete")
  <2>1. R' = Append(R, Item(kind, None, CompleteNumber)) /\ Accumulated' = Accumulated
    BY <1>3 DEF SwitchCalls, At, msgs
  <2>2. Item(kind, None, CompleteNumber) \in ManifestedItems
    <3>1. CompleteNumber \in Nat
      BY DEF CompleteNumber, TypeInv, Ranges, MessageRanges
    <3> QED
      BY <3>1, MadeItems, ItemSets DEF BeforeCalls
  <2>3. Item(kind, None, CompleteNumber).kind = kind
    BY DEF Item
  <2>4. CallsFor(R, A, kind) = {}
    BY <1>3 DEF NoneTwice, At, Completes, Making
  <2>5. /\ Once(Append(R, Item(kind, None, CompleteNumber)), A, kind)
        /\ CallsFor(Append(R, Item(kind, None, CompleteNumber)), A, kind)
             = {Item(kind, None, CompleteNumber)}
    <3> HIDE DEF kind
    <3> QED
      BY <1>1, <2>2, <2>3, <2>4, CallAppended
  <2> QED
    BY <1>3, <2>1, <2>5 DEF Completes
<1>4. CASE ~PostMExtract /\ ~(SwitchCalls /\ At("complete"))
  <2>1. Accumulated'["PostM"] = A
    BY <1>4, AccumulatedBy
  <2>2. \/ UNCHANGED R
        \/ \E e \in ManifestedItems : e.kind # "SwitchComplete" /\ R' = Append(R, e)
        \/ \E t \in Seq(ManifestedItems) : (\A m \in ToSet(t) : IsFrame(m)) /\ R' = R \o t
    BY <1>4, ManifestedBy
  <2>3. CASE UNCHANGED R
    BY <1>1, <1>4, <2>1, <2>3 DEF CompletesFewer, Completes
  <2>4. CASE \E e \in ManifestedItems : e.kind # "SwitchComplete" /\ R' = Append(R, e)
    <3>1. PICK e \in ManifestedItems : e.kind # "SwitchComplete" /\ R' = Append(R, e)
      BY <2>4
    <3>2. Once(Append(R, e), A, kind) /\ CallsFor(Append(R, e), A, kind) = CallsFor(R, A, kind)
      <4>1. e.kind # kind
        BY <3>1
      <4> HIDE DEF kind
      <4> QED
        BY <1>1, <4>1, CallAppended
    <3> QED
      BY <1>4, <2>1, <3>1, <3>2 DEF CompletesFewer, Completes
  <2>5. CASE \E t \in Seq(ManifestedItems) : (\A m \in ToSet(t) : IsFrame(m)) /\ R' = R \o t
    <3>1. PICK t \in Seq(ManifestedItems) : (\A m \in ToSet(t) : IsFrame(m)) /\ R' = R \o t
      BY <2>5
    <3>2. Once(R \o t, A, kind) /\ CallsFor(R \o t, A, kind) = CallsFor(R, A, kind)
      <4>1. kind # "frame"
        OBVIOUS
      <4> HIDE DEF kind
      <4> QED
        BY <1>1, <3>1, <4>1, FramesAreNoCalls
    <3> QED
      BY <1>4, <2>1, <3>1, <3>2 DEF CompletesFewer, Completes
  <2> QED
    BY <2>2, <2>3, <2>4, <2>5
<1> QED
  BY <1>2, <1>3, <1>4

\* The marker of a switch is sent and the parser's call is still to be made.
MarkerSent == drain.switch /\ drain.pc \in {"before", "after", "collator", "parser"}

\* The parser's call is right behind its marker, wherever that has got to:
\* in the ring, or taken last of all by CollateToParse.
AtMarker ==
  /\ MarkerSent =>
       \/ /\ CollatedFrameRing = <<>> /\ NextBufferSequenceNumber = DrainSequenceNumber + 1
          /\ DrainSequenceNumber <= MaximumActualSequenceNumberSeen["CtoP"]
       \/ /\ CollatedFrameRing # <<>>
          /\ LET m == CollatedFrameRing[Len(CollatedFrameRing)] IN
             IsMarker(m) /\ m.Value = DrainSequenceNumber
  /\ \A s \in DOMAIN CollatedFrameRing : CollatedFrameRing[s].kind = "SwitchFrameParser" =>
       \/ /\ s = 1 /\ NextBufferSequenceNumber = CollatedFrameRing[s].Value + 1
          /\ CollatedFrameRing[s].Value <= MaximumActualSequenceNumberSeen["CtoP"]
       \/ /\ s > 1 /\ IsMarker(CollatedFrameRing[s - 1])
          /\ CollatedFrameRing[s - 1].Value = CollatedFrameRing[s].Value

\* Rings that stay as they are.
LEMMA KeptWhere ==
  ASSUME CallOnce
  PROVE  /\ UNCHANGED CollatedFrameRing => ParserKept
         /\ UNCHANGED ParsedFrameRing /\ Accumulated'["PtoD"] = Accumulated["PtoD"] => CodecKept
         /\ UNCHANGED DecodedFrameRing /\ Accumulated'["DtoM"] = Accumulated["DtoM"] => TimerFewer
         /\ UNCHANGED ManifestedBufferRing /\ Accumulated'["PostM"] = Accumulated["PostM"] => CompletesFewer
BY DEF CallOnce, ParserKept, CodecKept, TimerFewer, CompletesFewer, ParserCalls, CodecCalls, TimerCalls,
       Completes

\* CollateToParse has seen the number of a call that it takes in.
LEMMA ParserCallReached ==
  ASSUME TypeInv, AtMarker, NoneTwice, Next
  PROVE  /\ CtoPControl => /\ Accumulated' = Accumulated
                           /\ switch' = [switch EXCEPT !.halted = @ \cup {"CtoP"}]
         /\ CtoPMarker => UNCHANGED switch
         /\ Accumulated'["CtoP"] = {}
<1> DEFINE C == CollatedFrameRing
<1>1. Typed /\ C \in Seq(CollatedItems) /\ CallsTyped
  BY DEF TypeInv, Typed
<1>2. ASSUME CtoPControl
      PROVE  Accumulated' = Accumulated /\ switch' = [switch EXCEPT !.halted = @ \cup {"CtoP"}]
  <2>1. C # <<>> /\ Head(C) \in CollatedItems /\ IsControl(Head(C))
    BY <1>1, <1>2, HeadsAre DEF CtoPControl
  <2>2. Head(C).kind = "SwitchFrameParser"
    <3>1. Head(C) \in Others({"SwitchFrameParser"})
      BY <2>1, CollatedIs
    <3> QED
      BY <3>1 DEF Others
  <2>3. Head(C) = C[1] /\ 1 \in DOMAIN C
    BY <1>1, <2>1, TailIs, MembersOf
  <2>4. C[1].Value <= MaximumActualSequenceNumberSeen["CtoP"]
    <3>1. C[1].kind = "SwitchFrameParser"
      BY <2>2, <2>3
    <3> QED
      BY <2>3, <3>1 DEF AtMarker
  <2>5. Reached("CtoP", Head(C).Value)
    BY <2>3, <2>4 DEF Reached
  <2> QED
    BY <1>2, <2>5 DEF CtoPControl, SwitchFrameParser
<1>3. ASSUME CtoPMarker
      PROVE  UNCHANGED switch /\ Accumulated'["CtoP"] = Accumulated["CtoP"]
  <2>1. Due("CtoP", Head(C).Value, AfterCalls) = {}
    BY DueIs DEF NoneTwice
  <2>2. Accumulated' = [Accumulated EXCEPT !["CtoP"] = @ \ {}] /\ UNCHANGED switch
    BY <1>3, <2>1 DEF CtoPMarker
  <2>3. Accumulated'["CtoP"] = Accumulated["CtoP"] \ {}
    BY <1>1, <2>2, ActedIs DEF Processes
  <2> QED
    BY <2>2, <2>3
<1>4. Accumulated'["CtoP"] = Accumulated["CtoP"]
  BY <1>2, <1>3, AccumulatedBy
<1> QED
  BY <1>2, <1>3, <1>4 DEF NoneTwice

\* The steps of the drain are told from each other and from all others by where
\* it is.
LEMMA DrainWalks ==
  ASSUME TypeInv, Next, ~drain'.failed
  PROVE  /\ ~drain.failed
         /\ \/ UNCHANGED <<drain, DrainSequenceNumber>> /\ ~Drain
            \/ /\ drain.pc = "idle" /\ drain'.pc \in {"jump", "check"}
               /\ drain'.switch => ~switch.InProgress
               /\ UNCHANGED <<switch, DrainSequenceNumber>>
               /\ \E policy \in Policies : DrainBegin(policy)
            \/ /\ drain'.switch = drain.switch /\ Drain
               /\ ~DrainNumber => UNCHANGED DrainSequenceNumber
               /\ \/ /\ drain.pc \in {"jump", "codec", "release", "check", "number"} /\ Entry
                     /\ drain'.pc \in {"codec", "release", "check", "number", "insert"}
                     /\ DrainNumber => drain.pc = "number" /\ drain'.pc = "insert"
                     /\ UNCHANGED switch
                  \/ drain.pc = "insert" /\ drain'.pc = "before" /\ DrainInsert /\ UNCHANGED switch
                  \/ drain.pc = "before" /\ drain'.pc = "after" /\ DrainCallBefore /\ UNCHANGED switch
                  \/ /\ drain.pc = "after" /\ drain'.pc = IF drain.switch THEN "collator" ELSE "wait"
                     /\ DrainCallAfter /\ UNCHANGED switch
                  \/ drain.pc = "collator" /\ drain'.pc = "parser" /\ SwitchCollator
                  \/ /\ drain.pc = "parser" /\ drain'.pc = "codec class"
                     /\ SwitchCalls /\ UNCHANGED switch
                  \/ /\ drain.pc = "codec class" /\ drain'.pc = "timer"
                     /\ SwitchCalls /\ UNCHANGED switch
                  \/ drain.pc = "timer" /\ drain'.pc = "complete" /\ SwitchCalls /\ UNCHANGED switch
                  \/ drain.pc = "complete" /\ drain'.pc = "wait" /\ SwitchCalls /\ UNCHANGED switch
                  \/ drain.pc = "wait" /\ drain'.pc = "idle" /\ DrainReturn /\ UNCHANGED switch
<1>1. DrainRanges
  BY DEF TypeInv, Ranges
<1>2. \A pc : Go(pc) => drain'.pc = pc /\ drain'.switch = drain.switch /\ drain'.failed = drain.failed
  BY <1>1 DEF Go, DrainRanges
<1>8. Drain => drain' # drain
  <2>1. Entry \/ DrainInsert => drain'.pc # drain.pc
    BY <1>2 DEF Entry, DrainJump, DrainCodec, DrainRelease, DrainCheck, DrainNumber, DrainInsert, At
  <2>2. DrainCallBefore \/ DrainCallAfter \/ SwitchCollator \/ DrainReturn => drain'.pc # drain.pc
    BY <1>2 DEF DrainCallBefore, DrainCallAfter, SwitchCollator, DrainReturn, At
  <2> QED
    BY <2>1, <2>2, SwitchCallsMove DEF Drain, Entry
<1>3. CASE \E policy \in Policies : DrainBegin(policy)
  <2>1. PICK policy \in Policies : DrainBegin(policy)
    BY <1>3
  <2>2. /\ drain.pc = "idle" /\ drain'.failed = drain.failed /\ UNCHANGED <<switch, DrainSequenceNumber>>
        /\ IsSwitch(policy) => ~switch.InProgress
        /\ drain'.switch = IsSwitch(policy) /\ drain'.pc = IF Plays(policy) THEN "check" ELSE "jump"
    BY <2>1 DEF DrainBegin, At
  <2> QED
    BY <2>1, <2>2
<1>4. CASE (\E isReference \in BOOLEAN : Collate(isReference)) \/ CtoP \/ PtoD
  <2>1. UNCHANGED <<drain, DrainSequenceNumber>>
    BY <1>4 DEF Collate, CtoP, CtoPMarker, CtoPFrame, CtoPControl, CtoPSwitch, PtoD, PtoDExtract,
                PtoDPass, PtoDDiscard, PtoDControl, PtoDSwitch, drn
  <2> QED
    BY <1>8, <2>1
<1>5. CASE CodecOutput \/ DtoMLoop \/ DtoMInHand \/ Manifest \/ PostMExtract
  <2>1. UNCHANGED <<drain, DrainSequenceNumber>>
    BY <1>5 DEF CodecOutput, DtoMLoop, DtoMSelect, DtoMMarker, DtoMExtract, DtoMTimeout, DtoMInHand,
                DtoMManifest, DtoMDiscard, Manifest, PostMExtract, drn
  <2> QED
    BY <1>8, <2>1
<1>6. CASE DrainGiveUp
  BY <1>1, <1>6 DEF DrainGiveUp, DrainRanges
<1>7. CASE Drain
  <2>1. CASE Entry
    BY <1>2, <1>7, <2>1 DEF Entry, DrainJump, DrainCodec, DrainRelease, DrainCheck, DrainNumber, At
  <2>2. CASE DrainInsert
    BY <1>2, <1>7, <2>2 DEF DrainInsert, At
  <2>3. CASE DrainCallBefore
    BY <1>2, <1>7, <2>3 DEF DrainCallBefore, At
  <2>4. CASE DrainCallAfter
    BY <1>2, <1>7, <2>4 DEF DrainCallAfter, At
  <2>5. CASE SwitchCollator
    BY <1>2, <1>7, <2>5 DEF SwitchCollator, At
  <2>6. CASE SwitchCalls
    BY <1>2, <1>7, <2>6 DEF SwitchCalls, At
  <2>7. CASE DrainReturn
    BY <1>2, <1>7, <2>7 DEF DrainReturn, At
  <2> QED
    BY <1>7, <2>1, <2>2, <2>3, <2>4, <2>5, <2>6, <2>7 DEF Drain, Entry
<1> QED
  BY <1>3, <1>4, <1>5, <1>6, <1>7 DEF Next

\* A ring that something is taken from is another.
LEMMA TakenDiffers ==
  ASSUME NEW S, NEW s \in Seq(S), s # <<>>
  PROVE  Tail(s) # s
<1>1. Len(Tail(s)) = Len(s) - 1 /\ Len(s) \in Nat
  BY TailIs
<1>2. ASSUME Tail(s) = s
      PROVE  FALSE
  <2>1. Len(Tail(s)) = Len(s)
    BY <1>2
  <2> QED
    BY <1>1, <2>1
<1> QED
  BY <1>2

\* What a step does to the calls and to the classes.
AllKept == ParserKept /\ CodecKept /\ TimerFewer /\ CompletesFewer
ParserHalts ==
  /\ CtoPControl /\ ParserCalls # {} /\ ParserCalls' = {}
  /\ Once(CollatedFrameRing', {}, "SwitchFrameParser")
  /\ CodecKept /\ TimerFewer /\ CompletesFewer
  /\ switch' = [switch EXCEPT !.halted = @ \cup {"CtoP"}]
CodecHalts ==
  /\ PtoDPass \/ PtoDDiscard \/ PtoDControl
  /\ CodecCalls # {} /\ CodecCalls' = {}
  /\ Once(ParsedFrameRing', Accumulated'["PtoD"], "SwitchCodec")
  /\ ParserKept /\ TimerFewer /\ CompletesFewer
  /\ switch' = [switch EXCEPT !.halted = @ \cup {"PtoD"}]
TimerActs == (DtoMLoop \/ DtoMInHand) /\ TimerRuns /\ ParserKept /\ CodecKept /\ CompletesFewer
CompleteActs == PostMExtract /\ CompleteRuns /\ ParserKept /\ CodecKept /\ TimerFewer
ParserCalled ==
  /\ SwitchCalls /\ At("parser")
  /\ CollatedFrameRing' = Append(CollatedFrameRing, Called("SwitchFrameParser"))
  /\ Once(CollatedFrameRing', {}, "SwitchFrameParser")
  /\ ParserCalls' = {Called("SwitchFrameParser")}
  /\ CodecKept /\ TimerFewer /\ CompletesFewer
CodecCalled ==
  /\ SwitchCalls /\ At("codec class")
  /\ ParsedFrameRing' = Append(ParsedFrameRing, Called("SwitchCodec"))
  /\ Once(ParsedFrameRing', Accumulated'["PtoD"], "SwitchCodec")
  /\ CodecCalls' = {Called("SwitchCodec")}
  /\ ParserKept /\ TimerFewer /\ CompletesFewer
TimerCalled ==
  /\ SwitchCalls /\ At("timer")
  /\ Once(DecodedFrameRing', Accumulated'["DtoM"], "SwitchOutputTimer")
  /\ TimerCalls' = {Called("SwitchOutputTimer")}
  /\ ParserKept /\ CodecKept /\ CompletesFewer
CompleteCalled ==
  /\ SwitchCalls /\ At("complete")
  /\ Once(ManifestedBufferRing', Accumulated'["PostM"], "SwitchComplete")
  /\ Completes' = {Item("SwitchComplete", None, CompleteNumber)}
  /\ ParserKept /\ CodecKept /\ TimerFewer

\* Each step does one of these.
LEMMA SwitchEffects ==
  ASSUME TypeInv, CallOnce, NoneTwice, AtMarker, MaxMessages >= 1, Next
  PROVE  \/ UNCHANGED switch /\ AllKept /\ ~SwitchCalls /\ ~SwitchCollator
         \/ ParserHalts \/ CodecHalts \/ TimerActs \/ CompleteActs
         \/ AllKept /\ (CtoPSwitch \/ PtoDSwitch \/ SwitchCollator)
         \/ ParserCalled \/ CodecCalled \/ TimerCalled \/ CompleteCalled
<1> USE KeptWhere
<1>1. Typed
  BY DEF TypeInv
<1>2. \A pc : Go(pc) => drain'.pc = pc
  BY DEF Go, TypeInv, Ranges, DrainRanges
<1>3. ASSUME UNCHANGED drain
      PROVE  ~SwitchCalls /\ ~SwitchCollator
  BY <1>2, <1>3, SwitchCallsMove DEF SwitchCollator, At
<1>4. CASE \E isReference \in BOOLEAN : Collate(isReference)
  <2>1. /\ UNCHANGED <<drain, switch, Accumulated, ParsedFrameRing, DecodedFrameRing, ManifestedBufferRing>>
        /\ UNCHANGED MarkerInCodedFrameIndex /\ Len(CollatedFrameRing') = Len(CollatedFrameRing) + 1
        /\ CollatedFrameRing \in Seq(CollatedItems)
    BY <1>1, <1>4 DEF Collate, drn, msgs, Typed
  <2>2. ~CtoPControl
    <3>1. CtoPControl => Len(CollatedFrameRing') = Len(CollatedFrameRing) - 1
      BY <2>1, TailIs DEF CtoPControl
    <3>2. Len(CollatedFrameRing) \in Nat
      BY <2>1
    <3> QED
      BY <2>1, <3>1, <3>2
  <2>3. ParserKept
    BY <1>3, <2>1, <2>2, ParserKeptBy
  <2> QED
    BY <1>3, <2>1, <2>3 DEF AllKept
<1>5. CASE CtoPMarker
  <2>1. /\ UNCHANGED <<drain, DecodedFrameRing, ManifestedBufferRing>>
        /\ CollatedFrameRing # <<>> /\ CollatedFrameRing' = Tail(CollatedFrameRing)
        /\ IsMarker(Head(CollatedFrameRing))
    BY <1>5 DEF CtoPMarker, drn
  <2>2. UNCHANGED switch
    BY <1>5, ParserCallReached
  <2>3. ~CtoPControl
    BY <2>1 DEF CtoPControl, IsMarker, IsControl, BeforeCalls, AfterCalls
  <2>4. ParserKept
    BY <1>3, <2>1, <2>3, ParserKeptBy
  <2>5. ~PtoDPass /\ ~PtoDDiscard /\ ~PtoDControl
    <3>2. CollatedFrameRing' # CollatedFrameRing
      BY <1>1, <2>1, TakenDiffers DEF Typed
    <3> QED
      BY <3>2 DEF PtoDPass, PtoDDiscard, PtoDControl, rings
  <2>6. CodecKept
    BY <1>3, <2>1, <2>5, CodecCallsStep
  <2>7. Accumulated'["DtoM"] = Accumulated["DtoM"] /\ Accumulated'["PostM"] = Accumulated["PostM"]
    <3>1. Accumulated' = [Accumulated EXCEPT !["CtoP"] =
                            @ \ Due("CtoP", Head(CollatedFrameRing).Value, AfterCalls)]
      BY <1>5 DEF CtoPMarker
    <3> QED
      BY <3>1, ActedIs DEF Processes, TypeInv
  <2> QED
    BY <1>3, <2>1, <2>2, <2>4, <2>6, <2>7 DEF AllKept
<1>6. CASE CtoPFrame
  <2>1. /\ UNCHANGED <<drain, switch, Accumulated, DecodedFrameRing, ManifestedBufferRing>>
        /\ CollatedFrameRing # <<>> /\ CollatedFrameRing' = Tail(CollatedFrameRing)
        /\ ~IsControl([Head(CollatedFrameRing) EXCEPT !.Value = NextBufferSequenceNumber])
    BY <1>6 DEF CtoPFrame, drn
  <2>2. ~CtoPControl
    <3>1. Head(CollatedFrameRing) \in CollatedItems
      BY <1>1, <2>1, HeadsAre
    <3>2. [Head(CollatedFrameRing) EXCEPT !.Value = NextBufferSequenceNumber].kind = Head(CollatedFrameRing).kind
      BY <3>1 DEF CollatedItems, FrameItems, MarkerItems, Others
    <3> QED
      BY <2>1, <3>2 DEF CtoPControl, IsControl
  <2>4. ParserKept
    BY <1>3, <2>1, <2>2, ParserKeptBy
  <2>5. ~PtoDPass /\ ~PtoDDiscard /\ ~PtoDControl
    <3>2. CollatedFrameRing' # CollatedFrameRing
      BY <1>1, <2>1, TakenDiffers DEF Typed
    <3> QED
      BY <3>2 DEF PtoDPass, PtoDDiscard, PtoDControl, rings
  <2>6. CodecKept
    BY <1>3, <2>1, <2>5, CodecCallsStep
  <2> QED
    BY <1>3, <2>1, <2>4, <2>6 DEF AllKept
<1>7. CASE CtoPControl
  <2>1. /\ UNCHANGED <<drain, ParsedFrameRing, DecodedFrameRing, ManifestedBufferRing, Accumulated>>
        /\ switch' = [switch EXCEPT !.halted = @ \cup {"CtoP"}]
    BY <1>7, ParserCallReached DEF CtoPControl, drn
  <2>2. /\ ParserCalls # {} /\ ParserCalls' = {} /\ Once(CollatedFrameRing', {}, "SwitchFrameParser")
    BY <1>3, <1>7, <2>1, ParserCallsStep
  <2> QED
    BY <1>7, <2>1, <2>2 DEF ParserHalts
<1>8. CASE CtoPSwitch \/ PtoDSwitch
  BY <1>8 DEF CtoPSwitch, PtoDSwitch, AllKept, rings, msgs
<1>9. CASE PtoDExtract
  <2>1. /\ UNCHANGED <<drain, switch, Accumulated, CollatedFrameRing, DecodedFrameRing, ManifestedBufferRing>>
        /\ ~PtoDPass /\ ~PtoDDiscard /\ ~PtoDControl
    BY <1>9 DEF PtoDExtract, PtoDPass, PtoDDiscard, PtoDControl, drn
  <2>2. CodecKept
    BY <1>3, <2>1, CodecCallsStep
  <2> QED
    BY <1>3, <2>1, <2>2 DEF AllKept
<1>10. CASE PtoDPass \/ PtoDDiscard \/ PtoDControl
  <2>1. UNCHANGED <<drain, CollatedFrameRing, DecodedFrameRing, ManifestedBufferRing>>
    BY <1>10 DEF PtoDPass, PtoDDiscard, PtoDControl, rings, drn
  <2>2. Accumulated'["DtoM"] = Accumulated["DtoM"] /\ Accumulated'["PostM"] = Accumulated["PostM"]
    <3>2. CASE PtoDPass \/ PtoDDiscard
      <4>1. Accumulated' = [Accumulated EXCEPT !["PtoD"] = @ \ Due("PtoD", PtoDBuffer.Value, AfterCalls)]
        BY <3>2 DEF PtoDPass, PtoDDiscard, PtoDCallsAfter
      <4> QED
        BY <4>1, ActedIs DEF Processes, TypeInv
    <3>3. CASE PtoDControl
      <4>1. Accumulated' = Accumulated \/ Accumulate("PtoD", Head(ParsedFrameRing))
        BY <3>3 DEF PtoDControl
      <4>2. Accumulate("PtoD", Head(ParsedFrameRing)) =>
              Accumulated'["DtoM"] = Accumulated["DtoM"] /\ Accumulated'["PostM"] = Accumulated["PostM"]
        BY AccumulatedIs DEF Processes, TypeInv
      <4> QED
        BY <4>1, <4>2
    <3> QED
      BY <1>10, <3>2, <3>3
  <2>3. CASE CodecKept /\ UNCHANGED switch
    BY <1>3, <2>1, <2>2, <2>3 DEF AllKept
  <2>4. CASE /\ CodecCalls # {} /\ CodecCalls' = {}
             /\ Once(ParsedFrameRing', Accumulated'["PtoD"], "SwitchCodec")
             /\ switch' = [switch EXCEPT !.halted = @ \cup {"PtoD"}]
    BY <1>10, <2>1, <2>2, <2>4 DEF CodecHalts
  <2> QED
    BY <1>3, <1>10, <2>1, <2>3, <2>4, CodecCallsStep
<1>11. CASE CodecOutput \/ Manifest
  <2>1. /\ UNCHANGED <<drain, switch, Accumulated, CollatedFrameRing, ParsedFrameRing>>
    BY <1>11 DEF CodecOutput, Manifest, drn, msgs
  <2>2. TimerFewer
    <3>1. CASE Manifest
      BY <2>1, <3>1 DEF Manifest
    <3>2. CASE CodecOutput
      <4>1. codec' # codec
        <5>1. codec # <<>> /\ codec' = Tail(codec)
          BY <3>2 DEF CodecOutput
        <5> QED
          BY <1>1, <5>1, TakenDiffers DEF Typed
      <4>2. ~DtoMLoop /\ ~DtoMInHand
        BY <4>1 DEF DtoMLoop, DtoMSelect, DtoMMarker, DtoMExtract, DtoMTimeout, DtoMInHand, DtoMManifest, DtoMDiscard
      <4> QED
        BY <1>3, <2>1, <4>2, TimerCallsStep
    <3> QED
      BY <1>11, <3>1, <3>2
  <2>3. CompletesFewer
    <3>1. CASE CodecOutput
      BY <2>1, <3>1 DEF CodecOutput
    <3>2. CASE Manifest
      <4>1. manifestor' # manifestor
        <5>1. manifestor # <<>> /\ manifestor' = Tail(manifestor)
          BY <3>2 DEF Manifest
        <5> QED
          BY <1>1, <5>1, TakenDiffers DEF Typed
      <4>2. ~PostMExtract
        BY <4>1 DEF PostMExtract
      <4> QED
        BY <1>3, <2>1, <4>2, CompletesStep
    <3> QED
      BY <1>11, <3>1, <3>2
  <2> QED
    BY <1>3, <2>1, <2>2, <2>3 DEF AllKept
<1>12. CASE DtoMLoop \/ DtoMInHand
  <2>1. UNCHANGED <<drain, CollatedFrameRing, ParsedFrameRing>>
    BY <1>12 DEF DtoMLoop, DtoMSelect, DtoMMarker, DtoMExtract, DtoMTimeout, DtoMInHand, DtoMManifest,
                 DtoMDiscard, rings, drn
  <2>2. Accumulated'["PtoD"] = Accumulated["PtoD"]
    <3>1. ~PtoDControl /\ ~PtoDPass /\ ~PtoDDiscard
      <4>1. PtoDControl => ParsedFrameRing' # ParsedFrameRing
        <5>1. ParsedFrameRing # <<>> => Tail(ParsedFrameRing) # ParsedFrameRing
          BY <1>1, TakenDiffers DEF Typed
        <5> QED
          BY <5>1 DEF PtoDControl
      <4>2. PtoDPass \/ PtoDDiscard => PtoDBuffer' # PtoDBuffer
        BY DEF PtoDPass, PtoDDiscard
      <4>3. UNCHANGED PtoDBuffer
        BY <1>12 DEF DtoMLoop, DtoMSelect, DtoMMarker, DtoMExtract, DtoMTimeout, DtoMInHand, DtoMManifest,
                     DtoMDiscard
      <4> QED
        BY <2>1, <4>1, <4>2, <4>3
    <3> QED
      BY <3>1, AccumulatedBy
  <2>3. CompletesFewer
    <3>1. ~PostMExtract
      <4>1. CASE ~DtoMMarker
        <5>1. UNCHANGED ManifestedBufferRing
          BY <1>12, <4>1 DEF DtoMLoop, DtoMSelect, DtoMExtract, DtoMTimeout, DtoMInHand, DtoMManifest,
                             DtoMDiscard, rings
        <5>3. ManifestedBufferRing # <<>> => Tail(ManifestedBufferRing) # ManifestedBufferRing
          BY <1>1, TakenDiffers DEF Typed
        <5> QED
          BY <5>1, <5>3 DEF PostMExtract
      <4>2. CASE DtoMMarker
        <5>1. MarkerFrameBuffer' # MarkerFrameBuffer
          BY <4>2, NothingIs DEF DtoMMarker
        <5> QED
          BY <5>1 DEF PostMExtract, dtom
      <4> QED
        BY <4>1, <4>2
    <3> QED
      BY <1>3, <2>1, <3>1, CompletesStep
  <2>4. CASE TimerFewer /\ UNCHANGED switch
    BY <1>3, <2>1, <2>2, <2>3, <2>4 DEF AllKept
  <2>5. CASE TimerRuns
    BY <1>12, <2>1, <2>2, <2>3, <2>5 DEF TimerActs
  <2> QED
    BY <1>3, <1>12, <2>1, <2>4, <2>5, TimerCallsStep
<1>13. CASE PostMExtract
  <2>1. UNCHANGED <<drain, CollatedFrameRing, ParsedFrameRing, DecodedFrameRing, dtom, PtoDBuffer>>
    BY <1>13 DEF PostMExtract
  <2>2. Accumulated'["PtoD"] = Accumulated["PtoD"] /\ Accumulated'["DtoM"] = Accumulated["DtoM"]
    <3>1. \/ Accumulated' = Accumulated
          \/ Accumulate("PostM", Head(ManifestedBufferRing))
          \/ Accumulated' = [Accumulated EXCEPT !["PostM"] =
               @ \ Due("PostM", Head(ManifestedBufferRing).Value, BeforeCalls \cup AfterCalls)]
      BY <1>13 DEF PostMExtract
    <3>2. Accumulate("PostM", Head(ManifestedBufferRing)) =>
            Accumulated'["PtoD"] = Accumulated["PtoD"] /\ Accumulated'["DtoM"] = Accumulated["DtoM"]
      BY AccumulatedIs DEF Processes, TypeInv
    <3>3. Accumulated' = [Accumulated EXCEPT !["PostM"] =
               @ \ Due("PostM", Head(ManifestedBufferRing).Value, BeforeCalls \cup AfterCalls)] =>
            Accumulated'["PtoD"] = Accumulated["PtoD"] /\ Accumulated'["DtoM"] = Accumulated["DtoM"]
      BY ActedIs DEF Processes, TypeInv
    <3> QED
      BY <3>1, <3>2, <3>3
  <2>3. CASE CompletesFewer /\ UNCHANGED switch
    BY <1>3, <2>1, <2>2, <2>3 DEF AllKept
  <2>4. CASE CompleteRuns
    BY <1>13, <2>1, <2>2, <2>4 DEF CompleteActs
  <2> QED
    BY <1>3, <1>13, <2>1, <2>3, <2>4, CompletesStep
<1>14. CASE (\E policy \in Policies : DrainBegin(policy)) \/ DrainGiveUp
  <2>1. UNCHANGED <<switch, Accumulated, CollatedFrameRing, ParsedFrameRing, DecodedFrameRing, ManifestedBufferRing>>
    BY <1>14 DEF DrainBegin, DrainGiveUp, rings, msgs
  <2>2. ~SwitchCalls /\ ~SwitchCollator
    <3>1. drain.pc \in {"idle", "check"}
      BY <1>14 DEF DrainBegin, DrainGiveUp, At
    <3> QED
      BY <3>1 DEF SwitchCalls, SwitchCollator, At
  <2> QED
    BY <2>1, <2>2 DEF AllKept
<1>15. CASE Entry \/ DrainInsert \/ DrainCallBefore \/ DrainCallAfter \/ DrainReturn
  <2>1. UNCHANGED <<switch, Accumulated, ParsedFrameRing>>
    BY <1>15 DEF Entry, DrainJump, DrainCodec, DrainRelease, DrainCheck, DrainNumber, DrainInsert,
                 DrainCallBefore, DrainCallAfter, DrainReturn, rings, msgs
  <2>2. drain' # drain
    <3>1. drain'.pc # drain.pc
      BY <1>2, <1>15 DEF Entry, DrainJump, DrainCodec, DrainRelease, DrainCheck, DrainNumber, DrainInsert,
                         DrainCallBefore, DrainCallAfter, DrainReturn, At
    <3> QED
      BY <3>1
  <2>3. ~SwitchCalls /\ ~SwitchCollator
    <3>1. drain.pc \in {"jump", "codec", "release", "check", "number", "insert", "before", "after", "wait"}
      BY <1>15 DEF Entry, DrainJump, DrainCodec, DrainRelease, DrainCheck, DrainNumber, DrainInsert,
                 DrainCallBefore, DrainCallAfter, DrainReturn, At
    <3> QED
      BY <3>1 DEF SwitchCalls, SwitchCollator, At
  <2>4. ~CtoPControl /\ ~DtoMLoop /\ ~DtoMInHand /\ ~PostMExtract
    BY <2>2 DEF CtoPControl, DtoMLoop, DtoMSelect, DtoMMarker, DtoMExtract, DtoMTimeout, DtoMInHand,
                DtoMManifest, DtoMDiscard, PostMExtract, drn
  <2>5. ParserKept
    BY <2>3, <2>4, ParserKeptBy
  <2>6. TimerFewer
    BY <2>3, <2>4, TimerCallsStep
  <2>7. CompletesFewer
    BY <2>3, <2>4, CompletesStep
  <2> QED
    BY <2>1, <2>3, <2>5, <2>6, <2>7 DEF AllKept
<1>16. CASE SwitchCollator
  BY <1>16 DEF SwitchCollator, AllKept, rings, msgs
<1>17. CASE SwitchCalls
  <2>1. UNCHANGED <<switch, Accumulated>>
    BY <1>17 DEF SwitchCalls, msgs
  <2>2. CASE At("parser")
    <3>1. UNCHANGED <<ParsedFrameRing, DecodedFrameRing, ManifestedBufferRing>>
      BY <1>17, <2>2 DEF SwitchCalls, At
    <3>2. ~CtoPControl
      BY <1>17, SwitchCallsMove DEF CtoPControl, drn
    <3>3. /\ CollatedFrameRing' = Append(CollatedFrameRing, Called("SwitchFrameParser"))
          /\ Once(CollatedFrameRing', {}, "SwitchFrameParser")
          /\ ParserCalls' = {Called("SwitchFrameParser")}
      BY <1>17, <2>2, <3>2, ParserCallsStep
    <3> QED
      BY <1>17, <2>1, <2>2, <3>1, <3>3 DEF ParserCalled
  <2>3. CASE At("codec class")
    <3>1. UNCHANGED <<CollatedFrameRing, DecodedFrameRing, ManifestedBufferRing>>
      BY <1>17, <2>3 DEF SwitchCalls, At
    <3>2. ~PtoDPass /\ ~PtoDDiscard /\ ~PtoDControl
      BY <1>17, SwitchCallsMove DEF PtoDPass, PtoDDiscard, PtoDControl, drn
    <3>3. /\ ParsedFrameRing' = Append(ParsedFrameRing, Called("SwitchCodec"))
          /\ Once(ParsedFrameRing', Accumulated'["PtoD"], "SwitchCodec")
          /\ CodecCalls' = {Called("SwitchCodec")}
      BY <1>17, <2>3, <3>2, CodecCallsStep
    <3> QED
      BY <1>17, <2>1, <2>3, <3>1, <3>3 DEF CodecCalled
  <2>4. CASE At("timer")
    <3>1. UNCHANGED <<CollatedFrameRing, ParsedFrameRing, ManifestedBufferRing>>
      BY <1>17, <2>4 DEF SwitchCalls, At
    <3>2. ~DtoMLoop /\ ~DtoMInHand
      BY <1>17, SwitchCallsMove DEF DtoMLoop, DtoMSelect, DtoMMarker, DtoMExtract, DtoMTimeout, DtoMInHand,
                                    DtoMManifest, DtoMDiscard, drn
    <3>3. /\ Once(DecodedFrameRing', Accumulated'["DtoM"], "SwitchOutputTimer")
          /\ TimerCalls' = {Called("SwitchOutputTimer")}
      BY <1>17, <2>4, <3>2, TimerCallsStep
    <3> QED
      BY <1>17, <2>1, <2>4, <3>1, <3>3 DEF TimerCalled
  <2>5. CASE At("complete")
    <3>1. UNCHANGED <<CollatedFrameRing, ParsedFrameRing, DecodedFrameRing>>
      BY <1>17, <2>5 DEF SwitchCalls, At
    <3>2. ~PostMExtract
      BY <1>17, SwitchCallsMove DEF PostMExtract
    <3>3. /\ Once(ManifestedBufferRing', Accumulated'["PostM"], "SwitchComplete")
          /\ Completes' = {Item("SwitchComplete", None, CompleteNumber)}
      BY <1>17, <2>5, <3>2, CompletesStep
    <3> QED
      BY <1>17, <2>1, <2>5, <3>1, <3>3 DEF CompleteCalled
  <2> QED
    BY <1>17, <2>2, <2>3, <2>4, <2>5 DEF SwitchCalls
<1> QED
  BY <1>4, <1>5, <1>6, <1>7, <1>8, <1>9, <1>10, <1>11, <1>12, <1>13, <1>14, <1>15, <1>16, <1>17
     DEF Next, CtoP, PtoD, Drain, Entry

-----------------------------------------------------------------------------
\* The numbers at which the switch is complete: of the call, or of the call to
\* be made.
Switching == drain.switch /\ drain.pc \in {"before", "after", "collator"} \cup Making
Ends == {m.Value : m \in Completes} \cup (IF Switching THEN {DrainSequenceNumber + 1} ELSE {})

\* What is past ParseToDecode.
Ahead == InX \cup InF \cup InD \cup InK \cup InH

\* No number of behind the marker is given out before the parser is exchanged,
\* none gets past ParseToDecode before the codec is, so that PostManifest has
\* seen none.
Behind ==
  /\ SeenLast = 0 \/ SeenLast < NextBufferSequenceNumber
  /\ \A w \in Ends :
       /\ w > 0
       /\ ParserDue => NextBufferSequenceNumber <= w
       /\ CodecDue => SeenLast < w /\ \A m \in Ahead : IsBuffer(m) => m.Value < w
       /\ \A m \in ParserCalls \cup CodecCalls : w = m.Value + 1

\* The calls are numbers.
LEMMA CallsAreNumbered ==
  ASSUME TypeInv
  PROVE  /\ \A m \in ParserCalls \cup CodecCalls \cup Completes : m.Value \in Nat
         /\ Ends \subseteq Nat /\ DrainSequenceNumber \in Nat /\ NextBufferSequenceNumber \in Nat
         /\ SeenLast \in Nat
<1>1. Typed /\ CallsTyped /\ DrainSequenceNumber \in Nat /\ NextBufferSequenceNumber \in Nat
  BY DEF TypeInv, Ranges, MessageRanges
<1>2. \A m \in InC \cup InP \cup InR : m.Value \in Nat
  <2>1. InC \subseteq CollatedItems /\ InP \subseteq ParsedItems /\ InR \subseteq ManifestedItems
    BY <1>1, MembersOf DEF Typed, InC, InP, InR
  <2> QED
    BY <2>1, CollatedIs, ParsedIs, ManifestedIs
<1>3. \A p \in Processes : \A m \in Accumulated[p] : m.Value \in Nat
  BY <1>1 DEF CallsTyped, Others
<1>4. \A m \in ParserCalls \cup CodecCalls \cup Completes : m.Value \in Nat
  BY <1>2, <1>3 DEF ParserCalls, CodecCalls, Completes, CallsFor, InC, InP, InR, Processes
<1>5. DrainSequenceNumber + 1 \in Nat
  BY <1>1
<1>6. SeenLast \in Nat
  BY DEF SeenLast, TypeInv, Ranges, MessageRanges, Processes
<1> QED
  BY <1>1, <1>4, <1>5, <1>6 DEF Ends

\* When SwitchComplete runs, neither the parser nor the codec is still to be
\* exchanged.
LEMMA CompletedLast ==
  ASSUME TypeInv, Chain, NoneTwice, Behind, PostMExtract, CompleteRuns
  PROVE  drain.pc \notin Making /\ ~ParserDue /\ ~CodecDue
<1>1. PICK c \in Completes : c.Value <= SeenLast'
  BY DEF CompleteRuns
<1>2. drain.pc \notin Making
  BY <1>1 DEF NoneTwice
<1>3. c.Value \in Ends /\ c.Value \in Nat
  BY <1>1, CallsAreNumbered DEF Ends
<1> DEFINE m == Head(ManifestedBufferRing)
           w == c.Value
<1>4. /\ SeenLast \in Nat /\ SeenLast' \in Nat /\ m \in InX /\ m.Value \in Nat
      /\ SeenLast' \in {SeenLast, m.Value} /\ (SeenLast' = SeenLast \/ ~IsControl(m))
  BY SeenIs
<1>5. ~IsControl(m) => IsBuffer(m) /\ m.Value < NextBufferSequenceNumber
  <2>1. m \in Everywhere
    BY <1>4 DEF Everywhere
  <2>2. m \in ManifestedItems
    BY HeadsAre DEF PostMExtract, TypeInv
  <2> QED
    BY <2>1, <2>2, ManifestedIs DEF Chain, ChainBelow, IsBuffer
<1>6. NextBufferSequenceNumber \in Nat /\ w > 0 /\ (SeenLast = 0 \/ SeenLast < NextBufferSequenceNumber)
  BY <1>3, CallsAreNumbered DEF Behind
<1> HIDE DEF m
<1>7. ~ParserDue
  <2>1. SeenLast' = 0 \/ SeenLast' < NextBufferSequenceNumber
    BY <1>4, <1>5, <1>6
  <2>2. ParserDue => NextBufferSequenceNumber <= w
    BY <1>3 DEF Behind
  <2>3. w <= SeenLast' /\ w > 0 /\ w \in Nat
    BY <1>1, <1>3, <1>6
  <2> HIDE DEF w
  <2> QED
    BY <1>4, <1>6, <2>1, <2>2, <2>3
<1>8. ~CodecDue
  <2>1. CodecDue => SeenLast < w /\ (~IsControl(m) => m.Value < w)
    BY <1>3, <1>4, <1>5 DEF Behind, Ahead
  <2>2. w <= SeenLast' /\ w \in Nat
    BY <1>1, <1>3
  <2> HIDE DEF w
  <2> QED
    BY <1>4, <2>1, <2>2
<1> QED
  BY <1>2, <1>7, <1>8

\* The calls are made, and acted on, once each.
LEMMA PartsStep ==
  ASSUME TypeInv, Chain, CallOnce, NoneTwice, Underway, Exchanged, AtMarker, Behind, MaxMessages >= 1, Next,
         ~drain'.failed
  PROVE  CallOnce' /\ NoneTwice' /\ Underway' /\ Exchanged'
<1>1. Accumulated'["CtoP"] = {}
  BY ParserCallReached
<1>2. /\ switch = [switch EXCEPT !.InProgress = @]
      /\ \A v : /\ [switch EXCEPT !.halted = v].halted = v
                /\ [switch EXCEPT !.halted = v].InProgress = switch.InProgress
                /\ [switch EXCEPT !.halted = v].LastOneOutOfTheCodec = switch.LastOneOutOfTheCodec
                /\ [switch EXCEPT !.halted = v].Collator = switch.Collator
                /\ [switch EXCEPT !.halted = v].FrameParser = switch.FrameParser
                /\ [switch EXCEPT !.halted = v].Codec = switch.Codec
      /\ switch.Collator \in Int
  BY DEF TypeInv, Ranges, SwitchRanges
<1>3. CASE UNCHANGED switch /\ AllKept /\ ~SwitchCalls /\ ~SwitchCollator
  <2>1. CallOnce'
    BY <1>1, <1>3 DEF AllKept, ParserKept, CodecKept, TimerFewer, CompletesFewer, CallOnce
  <2>2. \/ UNCHANGED drain
        \/ /\ drain.pc \notin Making /\ drain'.pc \notin Making
           /\ drain'.switch /\ drain'.pc \notin Making \cup {"wait", "idle"} =>
                (drain.switch /\ drain.pc \notin Making \cup {"wait", "idle"}) \/ ~switch.InProgress
    BY <1>3, DrainWalks DEF Making
  <2>3. /\ ParserCalls' = ParserCalls /\ CodecCalls' = CodecCalls /\ UNCHANGED switch
        /\ TimerCalls' \subseteq TimerCalls /\ Completes' \subseteq Completes
    BY <1>3 DEF AllKept, ParserKept, CodecKept, TimerFewer, CompletesFewer
  <2>4. (drain'.pc = drain.pc /\ drain'.switch = drain.switch) \/ (drain.pc \notin Making /\ drain'.pc \notin Making)
    BY <2>2
  <2>5. NoneTwice'
    BY <1>1, <2>3, <2>4 DEF NoneTwice, Making
  <2>6. (ParserDue' <=> ParserDue) /\ (CodecDue' <=> CodecDue)
    BY <2>3, <2>4 DEF ParserDue, CodecDue, Making
  <2>7. (TimerDue' => TimerDue) /\ (CompleteDue' => CompleteDue)
    BY <2>3, <2>4 DEF TimerDue, CompleteDue, Making
  <2>8. Underway'
    BY <2>2, <2>3, <2>6, <2>7 DEF Underway
  <2>9. Exchanged'
    BY <2>3, <2>6 DEF Exchanged
  <2> QED
    BY <2>1, <2>5, <2>8, <2>9
<1>4. CASE ParserHalts
  <2>1. UNCHANGED drain
    BY <1>4 DEF ParserHalts, CtoPControl, drn
  <2>2. CallOnce'
    BY <1>1, <1>4 DEF ParserHalts, CodecKept, TimerFewer, CompletesFewer, CallOnce
  <2>3. /\ ParserCalls # {} /\ ParserCalls' = {} /\ CodecCalls' = CodecCalls
        /\ TimerCalls' \subseteq TimerCalls /\ Completes' \subseteq Completes
    BY <1>4 DEF ParserHalts, CodecKept, TimerFewer, CompletesFewer
  <2>4. /\ switch'.halted = switch.halted \cup {"CtoP"} /\ switch'.InProgress = switch.InProgress
        /\ switch'.LastOneOutOfTheCodec = switch.LastOneOutOfTheCodec
        /\ switch'.Collator = switch.Collator /\ switch'.FrameParser = switch.FrameParser
        /\ switch'.Codec = switch.Codec
    BY <1>2, <1>4 DEF ParserHalts
  <2>5. NoneTwice'
    BY <1>1, <2>1, <2>3, <2>4 DEF NoneTwice
  <2>6. ParserDue' /\ ParserDue /\ (CodecDue' <=> CodecDue)
    BY <2>1, <2>3, <2>4 DEF ParserDue, CodecDue
  <2>7. (TimerDue' => TimerDue) /\ (CompleteDue' => CompleteDue)
    BY <2>1, <2>3 DEF TimerDue, CompleteDue
  <2>8. Underway'
    BY <2>1, <2>4, <2>6, <2>7 DEF Underway
  <2>9. Exchanged'
    BY <2>4, <2>6 DEF Exchanged
  <2> QED
    BY <2>2, <2>5, <2>8, <2>9
<1>5. CASE CodecHalts
  <2>1. UNCHANGED drain
    BY <1>5 DEF CodecHalts, PtoDPass, PtoDDiscard, PtoDControl, drn
  <2>2. CallOnce'
    BY <1>1, <1>5 DEF CodecHalts, ParserKept, TimerFewer, CompletesFewer, CallOnce
  <2>3. /\ CodecCalls # {} /\ CodecCalls' = {} /\ ParserCalls' = ParserCalls
        /\ TimerCalls' \subseteq TimerCalls /\ Completes' \subseteq Completes
    BY <1>5 DEF CodecHalts, ParserKept, TimerFewer, CompletesFewer
  <2>4. /\ switch'.halted = switch.halted \cup {"PtoD"} /\ switch'.InProgress = switch.InProgress
        /\ switch'.LastOneOutOfTheCodec = switch.LastOneOutOfTheCodec
        /\ switch'.Collator = switch.Collator /\ switch'.FrameParser = switch.FrameParser
        /\ switch'.Codec = switch.Codec
    BY <1>2, <1>5 DEF CodecHalts
  <2>5. NoneTwice'
    BY <1>1, <2>1, <2>3, <2>4 DEF NoneTwice
  <2>6. CodecDue' /\ CodecDue /\ (ParserDue' <=> ParserDue)
    BY <2>1, <2>3, <2>4 DEF ParserDue, CodecDue
  <2>7. (TimerDue' => TimerDue) /\ (CompleteDue' => CompleteDue)
    BY <2>1, <2>3 DEF TimerDue, CompleteDue
  <2>8. Underway'
    BY <2>1, <2>4, <2>6, <2>7 DEF Underway
  <2>9. Exchanged'
    BY <2>4, <2>6 DEF Exchanged
  <2> QED
    BY <2>2, <2>5, <2>8, <2>9
<1>6. CASE TimerActs
  <2>1. UNCHANGED drain
    BY <1>6 DEF TimerActs, DtoMLoop, DtoMSelect, DtoMMarker, DtoMExtract, DtoMTimeout, DtoMInHand,
                DtoMManifest, DtoMDiscard, drn
  <2>2. CallOnce'
    BY <1>1, <1>6 DEF TimerActs, TimerRuns, ParserKept, CodecKept, CompletesFewer, CallOnce
  <2>3. /\ TimerCalls # {} /\ TimerCalls' = {} /\ ParserCalls' = ParserCalls
        /\ CodecCalls' = CodecCalls /\ Completes' \subseteq Completes
    BY <1>6 DEF TimerActs, TimerRuns, ParserKept, CodecKept, CompletesFewer
  <2>4. /\ switch'.halted = switch.halted /\ switch'.InProgress = switch.InProgress
        /\ switch'.LastOneOutOfTheCodec = TRUE
        /\ switch'.Collator = switch.Collator /\ switch'.FrameParser = switch.FrameParser
        /\ switch'.Codec = switch.Codec
    BY <1>6 DEF TimerActs, TimerRuns, TypeInv, Ranges, SwitchRanges
  <2>5. NoneTwice'
    BY <1>1, <2>1, <2>3, <2>4 DEF NoneTwice
  <2>6. (CodecDue' <=> CodecDue) /\ (ParserDue' <=> ParserDue)
    BY <2>1, <2>3, <2>4 DEF ParserDue, CodecDue
  <2>7. ~TimerDue' /\ (CompleteDue' => CompleteDue)
    BY <2>1, <2>3 DEF TimerDue, CompleteDue, NoneTwice
  <2>8. Underway'
    BY <2>1, <2>4, <2>6, <2>7 DEF Underway
  <2>9. Exchanged'
    BY <2>4, <2>6 DEF Exchanged
  <2> QED
    BY <2>2, <2>5, <2>8, <2>9
<1>7. CASE CompleteActs
  <2>1. UNCHANGED drain
    BY <1>7 DEF CompleteActs, PostMExtract
  <2>2. CallOnce'
    BY <1>1, <1>7 DEF CompleteActs, CompleteRuns, ParserKept, CodecKept, TimerFewer, CallOnce
  <2>3. /\ Completes' = {} /\ ParserCalls' = ParserCalls
        /\ CodecCalls' = CodecCalls /\ TimerCalls' \subseteq TimerCalls
    BY <1>7 DEF CompleteActs, CompleteRuns, ParserKept, CodecKept, TimerFewer
  <2>4. /\ switch'.halted = switch.halted /\ switch'.InProgress = FALSE
        /\ switch'.Collator = switch.Collator /\ switch'.FrameParser = switch.FrameParser
        /\ switch'.Codec = switch.Codec
    BY <1>7 DEF CompleteActs, CompleteRuns, TypeInv, Ranges, SwitchRanges
  <2>5. NoneTwice'
    BY <1>1, <2>1, <2>3, <2>4 DEF NoneTwice
  <2>6. drain.pc \notin Making /\ ~ParserDue /\ ~CodecDue
    BY <1>7, CompletedLast DEF CompleteActs
  <2>7. ~CodecDue' /\ ~ParserDue'
    BY <2>1, <2>3, <2>4, <2>6 DEF ParserDue, CodecDue
  <2>8. ~TimerDue' /\ ~CompleteDue'
    <3>1. ~TimerDue
      BY <2>6 DEF Underway
    <3> QED
      BY <2>1, <2>3, <2>6, <3>1 DEF TimerDue, CompleteDue, Making
  <2>9. Underway'
    BY <2>1, <2>4, <2>7, <2>8 DEF Underway
  <2>10. Exchanged'
    BY <2>4, <2>6, <2>7 DEF Exchanged
  <2> QED
    BY <2>2, <2>5, <2>9, <2>10
<1>8. CASE AllKept /\ CtoPSwitch
  <2>1. UNCHANGED drain
    BY <1>8 DEF CtoPSwitch, drn
  <2>2. CallOnce'
    BY <1>1, <1>8 DEF AllKept, ParserKept, CodecKept, TimerFewer, CompletesFewer, CallOnce
  <2>3. /\ ParserCalls' = ParserCalls /\ CodecCalls' = CodecCalls
        /\ TimerCalls' \subseteq TimerCalls /\ Completes' \subseteq Completes
    BY <1>8 DEF AllKept, ParserKept, CodecKept, TimerFewer, CompletesFewer
  <2>4. /\ "CtoP" \in switch.halted /\ switch.LastOneOutOfTheCodec
        /\ switch'.halted = switch.halted \ {"CtoP"} /\ switch'.InProgress = switch.InProgress
        /\ switch'.LastOneOutOfTheCodec = switch.LastOneOutOfTheCodec
        /\ switch'.Collator = switch.Collator /\ switch'.FrameParser = switch.Collator
        /\ switch'.Codec = switch.Codec
    BY <1>8 DEF CtoPSwitch, TypeInv, Ranges, SwitchRanges
  <2>5. NoneTwice'
    BY <1>1, <2>1, <2>3, <2>4 DEF NoneTwice
  <2>6. (CodecDue' <=> CodecDue) /\ ~ParserDue'
    BY <2>1, <2>3, <2>4 DEF ParserDue, CodecDue, NoneTwice
  <2>7. (TimerDue' => TimerDue) /\ (CompleteDue' => CompleteDue)
    BY <2>1, <2>3 DEF TimerDue, CompleteDue
  <2>8. Underway'
    BY <2>1, <2>4, <2>6, <2>7 DEF Underway
  <2>9. Exchanged'
    BY <2>4, <2>6 DEF Exchanged
  <2> QED
    BY <2>2, <2>5, <2>8, <2>9
<1>9. CASE AllKept /\ PtoDSwitch
  <2>1. UNCHANGED drain
    BY <1>9 DEF PtoDSwitch, drn
  <2>2. CallOnce'
    BY <1>1, <1>9 DEF AllKept, ParserKept, CodecKept, TimerFewer, CompletesFewer, CallOnce
  <2>3. /\ ParserCalls' = ParserCalls /\ CodecCalls' = CodecCalls
        /\ TimerCalls' \subseteq TimerCalls /\ Completes' \subseteq Completes
    BY <1>9 DEF AllKept, ParserKept, CodecKept, TimerFewer, CompletesFewer
  <2>4. /\ "PtoD" \in switch.halted /\ switch.LastOneOutOfTheCodec
        /\ switch'.halted = switch.halted \ {"PtoD"} /\ switch'.InProgress = switch.InProgress
        /\ switch'.LastOneOutOfTheCodec = switch.LastOneOutOfTheCodec
        /\ switch'.Collator = switch.Collator /\ switch'.FrameParser = switch.FrameParser
        /\ switch'.Codec = switch.Collator
    BY <1>9 DEF PtoDSwitch, TypeInv, Ranges, SwitchRanges
  <2>5. NoneTwice'
    BY <1>1, <2>1, <2>3, <2>4 DEF NoneTwice
  <2>6. ~CodecDue' /\ (ParserDue' <=> ParserDue)
    BY <2>1, <2>3, <2>4 DEF ParserDue, CodecDue, NoneTwice
  <2>7. (TimerDue' => TimerDue) /\ (CompleteDue' => CompleteDue)
    BY <2>1, <2>3 DEF TimerDue, CompleteDue
  <2>8. Underway'
    BY <2>1, <2>4, <2>6, <2>7 DEF Underway
  <2>9. Exchanged'
    BY <2>4, <2>6 DEF Exchanged
  <2> QED
    BY <2>2, <2>5, <2>8, <2>9
<1>10. CASE AllKept /\ SwitchCollator
  <2>1. drain.pc = "collator" /\ drain'.pc = "parser" /\ drain'.switch = drain.switch /\ drain.switch
    BY <1>10 DEF SwitchCollator, At, Go, TypeInv, Ranges, DrainRanges, Exchanges
  <2>2. CallOnce'
    BY <1>1, <1>10 DEF AllKept, ParserKept, CodecKept, TimerFewer, CompletesFewer, CallOnce
  <2>3. ~switch.InProgress
    BY <2>1 DEF Underway, Making
  <2>4. ~ParserDue /\ ~CodecDue /\ ~TimerDue /\ ~CompleteDue
    BY <2>3 DEF Underway
  <2>5. /\ ParserCalls' = {} /\ CodecCalls' = {} /\ TimerCalls' = {} /\ Completes' = {}
    BY <1>10, <2>4 DEF AllKept, ParserKept, CodecKept, TimerFewer, CompletesFewer, ParserDue, CodecDue,
                       TimerDue, CompleteDue
  <2>6. /\ switch'.halted = switch.halted /\ switch'.InProgress = TRUE
        /\ switch'.LastOneOutOfTheCodec = FALSE
        /\ switch'.Collator = switch.Collator + 1 /\ switch'.FrameParser = switch.FrameParser
        /\ switch'.Codec = switch.Codec
    BY <1>10 DEF SwitchCollator, TypeInv, Ranges, SwitchRanges
  <2>7. "CtoP" \notin switch.halted /\ "PtoD" \notin switch.halted
    BY <2>4 DEF ParserDue, CodecDue
  <2>8. NoneTwice'
    BY <1>1, <2>1, <2>5, <2>6, <2>7 DEF NoneTwice
  <2>9. ParserDue' /\ CodecDue'
    BY <2>1 DEF ParserDue, CodecDue
  <2>10. Underway'
    BY <2>1, <2>6, <2>9 DEF Underway, Making
  <2>11. Exchanged'
    <3>1. switch.FrameParser = switch.Collator /\ switch.Codec = switch.Collator
      BY <2>4 DEF Exchanged
    <3>2. switch'.FrameParser = switch'.Collator - 1 /\ switch'.Codec = switch'.Collator - 1
      BY <1>2, <2>6, <3>1
    <3> QED
      BY <2>9, <3>2 DEF Exchanged
  <2> QED
    BY <2>2, <2>8, <2>10, <2>11
<1>11. CASE ParserCalled
  <2>1. drain.pc = "parser" /\ drain'.pc = "codec class" /\ drain'.switch = drain.switch
    BY <1>11 DEF ParserCalled, SwitchCalls, At, Go, TypeInv, Ranges, DrainRanges
  <2>2. CallOnce'
    BY <1>1, <1>11 DEF ParserCalled, ParserKept, CodecKept, TimerFewer, CompletesFewer, CallOnce
  <2>3. UNCHANGED switch /\ ParserCalls' # {}
        /\ CodecCalls' = CodecCalls /\ TimerCalls' \subseteq TimerCalls /\ Completes' \subseteq Completes
    BY <1>11 DEF ParserCalled, SwitchCalls, ParserKept, CodecKept, TimerFewer, CompletesFewer
  <2>4. NoneTwice'
    BY <1>1, <2>1, <2>3 DEF NoneTwice, Making
  <2>5. ParserDue' = ParserDue /\ CodecDue' = CodecDue
    BY <2>1, <2>3 DEF ParserDue, CodecDue
  <2>6. (TimerDue' => TimerDue) /\ (CompleteDue' => CompleteDue)
    BY <2>1, <2>3 DEF TimerDue, CompleteDue, Making
  <2>7. Underway'
    BY <2>1, <2>3, <2>5, <2>6 DEF Underway, Making
  <2>8. Exchanged'
    BY <2>3, <2>5 DEF Exchanged
  <2> QED
    BY <2>2, <2>4, <2>7, <2>8
<1>12. CASE CodecCalled
  <2>1. drain.pc = "codec class" /\ drain'.pc = "timer" /\ drain'.switch = drain.switch
    BY <1>12 DEF CodecCalled, SwitchCalls, At, Go, TypeInv, Ranges, DrainRanges
  <2>2. CallOnce'
    BY <1>1, <1>12 DEF CodecCalled, ParserKept, CodecKept, TimerFewer, CompletesFewer, CallOnce
  <2>3. UNCHANGED switch /\ CodecCalls' # {}
        /\ ParserCalls' = ParserCalls /\ TimerCalls' \subseteq TimerCalls /\ Completes' \subseteq Completes
    BY <1>12 DEF CodecCalled, SwitchCalls, ParserKept, CodecKept, TimerFewer, CompletesFewer
  <2>4. NoneTwice'
    BY <1>1, <2>1, <2>3 DEF NoneTwice, Making
  <2>5. ParserDue' = ParserDue /\ CodecDue' = CodecDue
    BY <2>1, <2>3 DEF ParserDue, CodecDue
  <2>6. (TimerDue' => TimerDue) /\ (CompleteDue' => CompleteDue)
    BY <2>1, <2>3 DEF TimerDue, CompleteDue, Making
  <2>7. Underway'
    BY <2>1, <2>3, <2>5, <2>6 DEF Underway, Making
  <2>8. Exchanged'
    BY <2>3, <2>5 DEF Exchanged
  <2> QED
    BY <2>2, <2>4, <2>7, <2>8
<1>13. CASE TimerCalled
  <2>1. drain.pc = "timer" /\ drain'.pc = "complete" /\ drain'.switch = drain.switch
    BY <1>13 DEF TimerCalled, SwitchCalls, At, Go, TypeInv, Ranges, DrainRanges
  <2>2. CallOnce'
    BY <1>1, <1>13 DEF TimerCalled, ParserKept, CodecKept, TimerFewer, CompletesFewer, CallOnce
  <2>3. UNCHANGED switch /\ TimerCalls' # {}
        /\ ParserCalls' = ParserCalls /\ CodecCalls' = CodecCalls /\ Completes' \subseteq Completes
    BY <1>13 DEF TimerCalled, SwitchCalls, ParserKept, CodecKept, TimerFewer, CompletesFewer
  <2>4. NoneTwice'
    BY <1>1, <2>1, <2>3 DEF NoneTwice, Making
  <2>5. ParserDue' = ParserDue /\ CodecDue' = CodecDue
    BY <2>1, <2>3 DEF ParserDue, CodecDue
  <2>6. (TimerDue' => TimerDue) /\ (CompleteDue' => CompleteDue)
    BY <2>1, <2>3 DEF TimerDue, CompleteDue, Making
  <2>7. Underway'
    BY <2>1, <2>3, <2>5, <2>6 DEF Underway, Making
  <2>8. Exchanged'
    BY <2>3, <2>5 DEF Exchanged
  <2> QED
    BY <2>2, <2>4, <2>7, <2>8
<1>14. CASE CompleteCalled
  <2>1. drain.pc = "complete" /\ drain'.pc = "wait" /\ drain'.switch = drain.switch
    BY <1>14 DEF CompleteCalled, SwitchCalls, At, Go, TypeInv, Ranges, DrainRanges
  <2>2. CallOnce'
    BY <1>1, <1>14 DEF CompleteCalled, ParserKept, CodecKept, TimerFewer, CompletesFewer, CallOnce
  <2>3. UNCHANGED switch /\ Completes' # {}
        /\ ParserCalls' = ParserCalls /\ CodecCalls' = CodecCalls /\ TimerCalls' \subseteq TimerCalls
    BY <1>14 DEF CompleteCalled, SwitchCalls, ParserKept, CodecKept, TimerFewer, CompletesFewer
  <2>4. NoneTwice'
    BY <1>1, <2>1, <2>3 DEF NoneTwice, Making
  <2>5. ParserDue' = ParserDue /\ CodecDue' = CodecDue
    BY <2>1, <2>3 DEF ParserDue, CodecDue
  <2>6. (TimerDue' => TimerDue) /\ (CompleteDue' => CompleteDue)
    BY <2>1, <2>3 DEF TimerDue, CompleteDue, Making
  <2>7. Underway'
    BY <2>1, <2>3, <2>5, <2>6 DEF Underway, Making
  <2>8. Exchanged'
    BY <2>3, <2>5 DEF Exchanged
  <2> QED
    BY <2>2, <2>4, <2>7, <2>8
<1> QED
  BY <1>3, <1>4, <1>5, <1>6, <1>7, <1>8, <1>9, <1>10, <1>11, <1>12, <1>13, <1>14, SwitchEffects

-----------------------------------------------------------------------------
\* What CollateToParse gives out and sees, and what ParseToDecode sees.
SeenBy(p) == MaximumActualSequenceNumberSeen[p]
LEMMA NumbersBy ==
  ASSUME TypeInv, Coming, Next
  PROVE  /\ \A p \in Processes : SeenBy(p) \in Nat /\ SeenBy(p) <= SeenBy(p)'
         /\ \/ UNCHANGED NextBufferSequenceNumber /\ SeenBy("CtoP")' = SeenBy("CtoP")
            \/ CtoPMarker \/ CtoPFrame
         /\ SeenBy("PtoD")' = SeenBy("PtoD") \/ PtoDExtract
         /\ SeenLast' = SeenLast \/ PostMExtract
         /\ NextBufferSequenceNumber <= NextBufferSequenceNumber'
         /\ CtoPMarker =>
              /\ NextBufferSequenceNumber' = Head(CollatedFrameRing).Value + 1
              /\ Head(CollatedFrameRing).Value <= SeenBy("CtoP")'
         /\ CtoPFrame => NextBufferSequenceNumber' = NextBufferSequenceNumber + 1
         /\ PtoDExtract => Head(ParsedFrameRing).Value <= SeenBy("PtoD")'
<1> USE DEF Processes, SeenBy
<1>1. /\ MaximumActualSequenceNumberSeen \in [Processes -> Nat] /\ NextBufferSequenceNumber \in Nat /\ Typed
  BY DEF TypeInv, Ranges, MessageRanges
<1>2. ASSUME NEW p \in Processes, NEW v \in Nat, See(p, v)
      PROVE  /\ \A q \in Processes : SeenBy(q) \in Nat /\ SeenBy(q) <= SeenBy(q)'
             /\ \A q \in Processes \ {p} : SeenBy(q)' = SeenBy(q)
             /\ v <= SeenBy(p)'
  <2>1. /\ SeenBy(p)' = IF SeenBy(p) >= v THEN SeenBy(p) ELSE v
        /\ \A q \in Processes \ {p} : SeenBy(q)' = SeenBy(q)
    BY <1>1, <1>2, SeeIs
  <2>2. \A q \in Processes : SeenBy(q) \in Nat
    BY <1>1
  <2> QED
    BY <2>1, <2>2
<1>3. CASE CtoPMarker
  <2> DEFINE m == Head(CollatedFrameRing)
  <2>1. CollatedFrameRing # <<>> /\ IsMarker(m) /\ See("CtoP", m.Value) /\ NextBufferSequenceNumber' = m.Value + 1
    BY <1>3 DEF CtoPMarker
  <2>2. m.Value \in Nat /\ 1 \in DOMAIN CollatedFrameRing /\ m = CollatedFrameRing[1]
    <3>1. m.Value \in Nat
      BY <1>1, <2>1, HeadsAre
    <3>2. CollatedFrameRing \in Seq(CollatedItems)
      BY <1>1 DEF Typed
    <3>3. m = CollatedFrameRing[1] /\ Len(CollatedFrameRing) \in Nat \ {0}
      BY <2>1, <3>2, TailIs
    <3>4. 1 \in DOMAIN CollatedFrameRing
      BY <3>2, <3>3, MembersOf
    <3> QED
      BY <3>1, <3>3, <3>4
  <2>3. NextBufferSequenceNumber + 1 - 1 <= m.Value
    BY <2>1, <2>2 DEF Coming
  <2>4. NextBufferSequenceNumber <= NextBufferSequenceNumber'
    BY <1>1, <2>1, <2>2, <2>3
  <2>5. ~CtoPFrame /\ ~PtoDExtract
    BY <1>3, <2>1 DEF CtoPFrame, PtoDExtract, CtoPMarker, IsMarker
  <2> HIDE DEF m
  <2>6. /\ \A q \in Processes : SeenBy(q) \in Nat /\ SeenBy(q) <= SeenBy(q)'
        /\ SeenBy("PtoD")' = SeenBy("PtoD") /\ SeenLast' = SeenLast /\ m.Value <= SeenBy("CtoP")'
    BY <1>2, <2>1, <2>2 DEF SeenLast
  <2> QED
    BY <1>3, <2>1, <2>4, <2>5, <2>6 DEF m
<1>4. CASE CtoPFrame
  <2> DEFINE m == [Head(CollatedFrameRing) EXCEPT !.Value = NextBufferSequenceNumber]
  <2>1. /\ CollatedFrameRing # <<>> /\ ~IsMarker(m) /\ See("CtoP", m.Value)
        /\ NextBufferSequenceNumber' = NextBufferSequenceNumber + 1
    BY <1>4 DEF CtoPFrame
  <2>2. Head(CollatedFrameRing) \in CollatedItems
    BY <1>1, <2>1, HeadsAre
  <2>3. m.Value = NextBufferSequenceNumber /\ m.kind = Head(CollatedFrameRing).kind
    BY <2>2 DEF CollatedItems, FrameItems, MarkerItems, Others
  <2>4. ~CtoPMarker /\ ~PtoDExtract
    <3>1. ~IsMarker(Head(CollatedFrameRing))
      BY <2>1, <2>3 DEF IsMarker
    <3>2. CollatedFrameRing' # CollatedFrameRing
      BY <1>1, <1>4, TakenDiffers DEF Typed, CtoPFrame
    <3> QED
      BY <3>1, <3>2 DEF CtoPMarker, PtoDExtract
  <2>5. NextBufferSequenceNumber <= NextBufferSequenceNumber'
    BY <1>1, <2>1
  <2> HIDE DEF m
  <2>6. /\ \A q \in Processes : SeenBy(q) \in Nat /\ SeenBy(q) <= SeenBy(q)'
        /\ SeenBy("PtoD")' = SeenBy("PtoD") /\ SeenLast' = SeenLast
    BY <1>1, <1>2, <2>1, <2>3 DEF SeenLast
  <2> QED
    BY <1>4, <2>1, <2>4, <2>5, <2>6
<1>5. CASE PtoDExtract
  <2>1. /\ ParsedFrameRing # <<>> /\ See("PtoD", Head(ParsedFrameRing).Value)
        /\ UNCHANGED <<NextBufferSequenceNumber, CollatedFrameRing>>
    BY <1>5 DEF PtoDExtract
  <2>2. Head(ParsedFrameRing).Value \in Nat
    BY <1>1, <2>1, HeadsAre
  <2>3. ~CtoPMarker /\ ~CtoPFrame
    BY <1>1, <2>1, TakenDiffers DEF Typed, CtoPMarker, CtoPFrame
  <2>4. /\ \A q \in Processes : SeenBy(q) \in Nat /\ SeenBy(q) <= SeenBy(q)'
        /\ SeenBy("CtoP")' = SeenBy("CtoP") /\ SeenLast' = SeenLast
        /\ Head(ParsedFrameRing).Value <= SeenBy("PtoD")'
    BY <1>2, <2>1, <2>2 DEF SeenLast
  <2> QED
    BY <1>1, <1>5, <2>1, <2>3, <2>4
<1>6. CASE PostMExtract
  <2>1. UNCHANGED <<NextBufferSequenceNumber, CollatedFrameRing, ParsedFrameRing>>
    BY <1>6 DEF PostMExtract
  <2>2. ~CtoPMarker /\ ~CtoPFrame /\ ~PtoDExtract
    BY <1>1, <2>1, TakenDiffers DEF Typed, CtoPMarker, CtoPFrame, PtoDExtract
  <2>3. See("PostM", Head(ManifestedBufferRing).Value) \/ UNCHANGED MaximumActualSequenceNumberSeen
    BY <1>6 DEF PostMExtract
  <2>4. Head(ManifestedBufferRing).Value \in Nat
    BY <1>1, <1>6, HeadsAre DEF PostMExtract
  <2>5. See("PostM", Head(ManifestedBufferRing).Value) =>
          /\ \A q \in Processes : SeenBy(q) \in Nat /\ SeenBy(q) <= SeenBy(q)'
          /\ SeenBy("CtoP")' = SeenBy("CtoP") /\ SeenBy("PtoD")' = SeenBy("PtoD")
    BY <1>2, <2>4
  <2>6. UNCHANGED MaximumActualSequenceNumberSeen =>
          /\ \A q \in Processes : SeenBy(q) \in Nat /\ SeenBy(q) <= SeenBy(q)'
          /\ SeenBy("CtoP")' = SeenBy("CtoP") /\ SeenBy("PtoD")' = SeenBy("PtoD")
    BY <1>1
  <2> QED
    BY <1>1, <1>6, <2>1, <2>2, <2>3, <2>5, <2>6
<1>7. CASE DtoMLoop
  <2>1. UNCHANGED <<NextBufferSequenceNumber, CollatedFrameRing, ParsedFrameRing>>
    BY <1>7 DEF DtoMLoop, DtoMSelect, DtoMMarker, DtoMExtract, DtoMTimeout, rings
  <2>2. ~CtoPMarker /\ ~CtoPFrame /\ ~PtoDExtract
    BY <1>1, <2>1, TakenDiffers DEF Typed, CtoPMarker, CtoPFrame, PtoDExtract
  <2>3. UNCHANGED MaximumActualSequenceNumberSeen \/ \E v \in Nat : See("DtoM", v)
    <3>1. CASE DtoMSelect
      <4>1. Lowest.Value \in Nat
        BY <1>1, <3>1, SelectedIs, FrameIs DEF DtoMSelect, Typed, TypeInv, Ranges
      <4> QED
        BY <3>1, <4>1 DEF DtoMSelect, TakeFrame
    <3>2. CASE DtoMMarker
      BY <1>1, <3>2, HeadsAre DEF DtoMMarker
    <3>3. CASE DtoMExtract
      <4>1. Head(DecodedFrameRing).Value \in Nat
        BY <1>1, <3>3, HeadsAre DEF DtoMExtract
      <4> QED
        BY <3>3, <4>1 DEF DtoMExtract, TakeFrame, msgs
    <3>4. CASE DtoMTimeout
      BY <3>4 DEF DtoMTimeout, msgs
    <3> QED
      BY <1>7, <3>1, <3>2, <3>3, <3>4 DEF DtoMLoop
  <2>4. (\E v \in Nat : See("DtoM", v)) =>
          /\ \A q \in Processes : SeenBy(q) \in Nat /\ SeenBy(q) <= SeenBy(q)'
          /\ SeenBy("CtoP")' = SeenBy("CtoP") /\ SeenBy("PtoD")' = SeenBy("PtoD") /\ SeenLast' = SeenLast
    BY <1>2 DEF SeenLast
  <2>5. UNCHANGED MaximumActualSequenceNumberSeen =>
          /\ \A q \in Processes : SeenBy(q) \in Nat /\ SeenBy(q) <= SeenBy(q)'
          /\ SeenBy("CtoP")' = SeenBy("CtoP") /\ SeenBy("PtoD")' = SeenBy("PtoD") /\ SeenLast' = SeenLast
    BY <1>1 DEF SeenLast
  <2> QED
    BY <1>1, <2>1, <2>2, <2>3, <2>4, <2>5
<1>8. CASE UNCHANGED <<NextBufferSequenceNumber, MaximumActualSequenceNumberSeen>> /\ ~CtoPMarker /\ ~CtoPFrame /\ ~PtoDExtract
  BY <1>1, <1>8 DEF SeenLast
<1>9. CASE CtoPControl \/ CtoPSwitch \/ PtoDPass \/ PtoDDiscard \/ PtoDControl \/ PtoDSwitch
           \/ CodecOutput \/ DtoMInHand \/ Manifest
  <2>1. UNCHANGED <<NextBufferSequenceNumber, MaximumActualSequenceNumberSeen>>
    BY <1>9 DEF CtoPControl, CtoPSwitch, PtoDPass, PtoDDiscard, PtoDControl, PtoDSwitch,
                CodecOutput, DtoMInHand, DtoMManifest, DtoMDiscard, Manifest, msgs
  <2>2. CASE CtoPMarker \/ CtoPFrame \/ PtoDExtract
    BY <2>2, <1>3, <1>4, <1>5
  <2> QED
    BY <1>8, <2>1, <2>2
<1>10. CASE Drain \/ DrainGiveUp \/ (\E policy \in Policies : DrainBegin(policy))
            \/ (\E isReference \in BOOLEAN : Collate(isReference))
  <2>1. UNCHANGED <<NextBufferSequenceNumber, MaximumActualSequenceNumberSeen>>
    BY <1>10 DEF Drain, DrainJump, DrainCodec, DrainRelease, DrainCheck, DrainNumber, DrainInsert,
                 DrainCallBefore, DrainCallAfter, SwitchCollator, SwitchCalls, DrainReturn, DrainGiveUp,
                 DrainBegin, Collate, msgs
  <2>2. CASE CtoPMarker \/ CtoPFrame \/ PtoDExtract
    BY <2>2, <1>3, <1>4, <1>5
  <2> QED
    BY <1>8, <2>1, <2>2
<1> QED
  BY <1>3, <1>4, <1>5, <1>6, <1>7, <1>9, <1>10 DEF Next, CtoP, PtoD

\* What CollateToParse takes, by its kind.
LEMMA TakenIs ==
  ASSUME TypeInv
  PROVE  /\ CtoPFrame => ~IsMarker(Head(CollatedFrameRing))
         /\ CtoPControl => /\ Head(CollatedFrameRing).kind = "SwitchFrameParser"
                           /\ ~IsMarker(Head(CollatedFrameRing))
<1>1. CollatedFrameRing # <<>> => Head(CollatedFrameRing) \in CollatedItems
  BY HeadsAre DEF TypeInv
<1>2. ASSUME CtoPFrame
      PROVE  ~IsMarker(Head(CollatedFrameRing))
  <2>1. /\ Head(CollatedFrameRing) \in CollatedItems
        /\ ~IsMarker([Head(CollatedFrameRing) EXCEPT !.Value = NextBufferSequenceNumber])
    BY <1>1, <1>2 DEF CtoPFrame
  <2>2. [Head(CollatedFrameRing) EXCEPT !.Value = NextBufferSequenceNumber].kind = Head(CollatedFrameRing).kind
    BY <2>1 DEF CollatedItems, FrameItems, MarkerItems, Others
  <2> QED
    BY <2>1, <2>2 DEF IsMarker
<1>3. ASSUME CtoPControl
      PROVE  Head(CollatedFrameRing).kind = "SwitchFrameParser" /\ ~IsMarker(Head(CollatedFrameRing))
  <2>1. Head(CollatedFrameRing) \in CollatedItems /\ IsControl(Head(CollatedFrameRing))
    BY <1>1, <1>3 DEF CtoPControl
  <2>2. Head(CollatedFrameRing) \in Others({"SwitchFrameParser"})
    BY <2>1, CollatedIs
  <2> QED
    BY <2>2 DEF Others, IsMarker
<1> QED
  BY <1>2, <1>3

\* A marker is sent by DrainInsert.
LEMMA MarkerSentBy ==
  ASSUME TypeInv, Next, ~drain'.failed, MarkerSent'
  PROVE  \/ MarkerSent /\ UNCHANGED DrainSequenceNumber /\ ~DrainJump /\ ~DrainInsert
            /\ ~(\E isReference \in BOOLEAN : Collate(isReference)) /\ ~(SwitchCalls /\ At("parser"))
         \/ DrainInsert /\ UNCHANGED DrainSequenceNumber
<1> USE DrainWalks
<1>1. CASE DrainInsert
  BY <1>1 DEF DrainInsert
<1>2. CASE ~DrainInsert
  <2>1. MarkerSent /\ UNCHANGED DrainSequenceNumber
    <3>1. DrainNumber => drain.pc = "number"
      BY DEF DrainNumber, At
    <3> QED
      BY <1>2, <3>1 DEF MarkerSent
  <2>2. ~DrainJump
    BY <2>1 DEF DrainJump, MarkerSent, At
  <2>3. ~(\E isReference \in BOOLEAN : Collate(isReference))
    BY <2>1 DEF Collate, InSwitchStream, MarkerSent
  <2>4. ~(SwitchCalls /\ At("parser"))
    <3>1. SwitchCalls /\ At("parser") => drain'.pc = "codec class"
      BY DEF SwitchCalls, At, Go, TypeInv, Ranges, DrainRanges
    <3> QED
      BY <3>1 DEF MarkerSent
  <2> QED
    BY <1>2, <2>1, <2>2, <2>3, <2>4
<1> QED
  BY <1>1, <1>2

\* Every step keeps the parser's call behind its marker.
LEMMA AtMarkerStep ==
  ASSUME TypeInv, Coming, CallOnce, NoneTwice, AtMarker, Next, ~drain'.failed
  PROVE  AtMarker'
<1> DEFINE C == CollatedFrameRing
           kind == "SwitchFrameParser"
<1>1. C \in Seq(CollatedItems) /\ NextBufferSequenceNumber \in Nat /\ DrainSequenceNumber \in Nat
  BY DEF TypeInv, Typed, Ranges, MessageRanges
<1>2. DOMAIN C = 1 .. Len(C) /\ Len(C) \in Nat
  BY <1>1, MembersOf
<1>8. PICK n \in Nat : n = Len(C)
  BY <1>2
<1>3. SeenBy("CtoP") \in Nat /\ SeenBy("CtoP") <= SeenBy("CtoP")'
  BY NumbersBy DEF Processes
<1>4. CASE C' = C
  <2>1. ~CtoPMarker /\ ~CtoPFrame /\ ~DrainInsert
    <3>1. ~CtoPMarker /\ ~CtoPFrame
      BY <1>1, <1>4, TakenDiffers DEF CtoPMarker, CtoPFrame
    <3>2. DrainInsert => Len(C') = Len(C) + 1
      BY <1>1 DEF DrainInsert
    <3>3. Len(C') = n
      BY <1>4, <1>8
    <3>4. DrainInsert => n = n + 1
      BY <1>8, <3>2, <3>3
    <3>5. n # n + 1
      OBVIOUS
    <3> QED
      BY <3>1, <3>4, <3>5
  <2>2. UNCHANGED NextBufferSequenceNumber /\ SeenBy("CtoP")' = SeenBy("CtoP")
    BY <2>1, NumbersBy
  <2>3. MarkerSent' => MarkerSent /\ UNCHANGED DrainSequenceNumber
    BY <2>1, MarkerSentBy
  <2> QED
    BY <1>4, <2>2, <2>3 DEF AtMarker, SeenBy
<1>5. CASE (CtoPMarker \/ CtoPFrame \/ CtoPControl) /\ C # <<>> /\ C' = Tail(C)
  <2> DEFINE m == Head(C)
  <2>1. /\ Len(C') = Len(C) - 1 /\ \A i \in 1 .. Len(C) - 1 : C'[i] = C[i + 1]
        /\ Len(C) \in Nat \ {0} /\ m = C[1] /\ C' \in Seq(CollatedItems) /\ m \in CollatedItems
    BY <1>1, <1>5, TailIs
  <2>2. DOMAIN C' = 1 .. Len(C) - 1
    BY <2>1, MembersOf
  <2>3. m.Value \in Nat
    BY <2>1, CollatedIs
  <2>4. MarkerSent' => MarkerSent /\ UNCHANGED DrainSequenceNumber
    <3>1. ~DrainInsert
      <4>1. DrainInsert => Len(C') = Len(C) + 1
        BY <1>1 DEF DrainInsert
      <4> QED
        BY <2>1, <4>1
    <3> QED
      BY <3>1, MarkerSentBy
  <2>5. CASE CtoPMarker
    <3>1. IsMarker(m) /\ NextBufferSequenceNumber' = m.Value + 1 /\ m.Value <= SeenBy("CtoP")'
      BY <2>5, NumbersBy DEF CtoPMarker
    <3>2. \A k \in DOMAIN C : IsMarker(C[k]) => k = 1
      BY <1>2, <2>1, <3>1 DEF Coming
    <3> HIDE DEF m, C
    <3>3. ASSUME MarkerSent'
          PROVE  /\ C' = <<>> /\ NextBufferSequenceNumber' = DrainSequenceNumber' + 1
                 /\ DrainSequenceNumber' <= SeenBy("CtoP")'
      <4>1. MarkerSent /\ UNCHANGED DrainSequenceNumber
        BY <2>4, <3>3
      <4>2. IsMarker(C[Len(C)]) /\ C[Len(C)].Value = DrainSequenceNumber
        BY <1>5, <4>1 DEF AtMarker, C
      <4>3. Len(C) = 1
        <5>1. Len(C) \in DOMAIN C
          BY <1>2, <2>1
        <5> QED
          BY <3>2, <4>2, <5>1
      <4>4. m.Value = DrainSequenceNumber
        BY <2>1, <4>2, <4>3
      <4>5. C' = <<>>
        <5>1. Len(C') = 0
          BY <2>1, <4>3
        <5> QED
          BY <2>1, <5>1
      <4> QED
        BY <3>1, <4>1, <4>4, <4>5
    <3>4. ASSUME NEW s \in DOMAIN C', C'[s].kind = kind
          PROVE  \/ /\ s = 1 /\ NextBufferSequenceNumber' = C'[s].Value + 1
                    /\ C'[s].Value <= SeenBy("CtoP")'
                 \/ /\ s > 1 /\ IsMarker(C'[s - 1]) /\ C'[s - 1].Value = C'[s].Value
      <4>1. s \in 1 .. Len(C) - 1
        BY <2>2
      <4>2. /\ s + 1 \in DOMAIN C /\ s \in DOMAIN C /\ s + 1 > 1 /\ s + 1 # 1 /\ s \in Nat /\ s + 1 - 1 = s
            /\ s # 1 => s > 1 /\ s - 1 \in 1 .. Len(C) - 1 /\ s - 1 + 1 = s
        BY <1>2, <2>1, <4>1
      <4>3. C'[s] = C[s + 1]
        BY <2>1, <4>1
      <4>4. C[s + 1].kind = kind
        BY <3>4, <4>3
      <4>5. IsMarker(C[s]) /\ C[s].Value = C[s + 1].Value
        <5>1. PICK t \in DOMAIN C : t = s + 1
          BY <4>2
        <5>2. C[t].kind = "SwitchFrameParser"
          BY <4>4, <5>1
        <5>3. t > 1 /\ IsMarker(C[t - 1]) /\ C[t - 1].Value = C[t].Value
          BY <4>2, <5>1, <5>2 DEF AtMarker, C
        <5>4. t - 1 = s
          BY <4>2, <5>1
        <5> QED
          BY <5>1, <5>3, <5>4
      <4>6. s = 1
        BY <3>2, <4>2, <4>5
      <4>7. C'[s].Value = m.Value
        BY <2>1, <4>3, <4>5, <4>6
      <4> QED
        BY <3>1, <4>6, <4>7
    <3> QED
      BY <3>3, <3>4 DEF AtMarker, SeenBy, C
  <2>6. CASE CtoPFrame \/ CtoPControl
    <3>1. ~IsMarker(m)
      BY <2>6, TakenIs
    <3> HIDE DEF m, C
    <3>2. ASSUME MarkerSent'
          PROVE  /\ C' # <<>> /\ IsMarker(C'[Len(C')]) /\ C'[Len(C')].Value = DrainSequenceNumber'
      <4>1. MarkerSent /\ UNCHANGED DrainSequenceNumber
        BY <2>4, <3>2
      <4>2. IsMarker(C[Len(C)]) /\ C[Len(C)].Value = DrainSequenceNumber
        BY <1>5, <4>1 DEF AtMarker, C
      <4>3. Len(C) # 1
        BY <2>1, <3>1, <4>2
      <4>4. Len(C') \in 1 .. Len(C) - 1 /\ Len(C') + 1 = Len(C) /\ Len(C') # 0
        BY <2>1, <4>3
      <4>5. C'[Len(C')] = C[Len(C)]
        <5>1. C'[Len(C')] = C[Len(C') + 1]
          BY <2>1, <4>4
        <5> QED
          BY <4>4, <5>1
      <4>6. C' # <<>>
        BY <4>4
      <4> QED
        BY <4>1, <4>2, <4>5, <4>6
    <3>3. ASSUME NEW s \in DOMAIN C', C'[s].kind = kind
          PROVE  s > 1 /\ IsMarker(C'[s - 1]) /\ C'[s - 1].Value = C'[s].Value
      <4>1. s \in 1 .. Len(C) - 1
        BY <2>2
      <4>2. /\ s + 1 \in DOMAIN C /\ s \in DOMAIN C /\ s + 1 > 1 /\ s + 1 # 1 /\ s \in Nat /\ s + 1 - 1 = s
            /\ s # 1 => s > 1 /\ s - 1 \in 1 .. Len(C) - 1 /\ s - 1 + 1 = s
        BY <1>2, <2>1, <4>1
      <4>3. C'[s] = C[s + 1]
        BY <2>1, <4>1
      <4>4. C[s + 1].kind = kind
        BY <3>3, <4>3
      <4>5. IsMarker(C[s]) /\ C[s].Value = C[s + 1].Value
        <5>1. PICK t \in DOMAIN C : t = s + 1
          BY <4>2
        <5>2. C[t].kind = "SwitchFrameParser"
          BY <4>4, <5>1
        <5>3. t > 1 /\ IsMarker(C[t - 1]) /\ C[t - 1].Value = C[t].Value
          BY <4>2, <5>1, <5>2 DEF AtMarker, C
        <5>4. t - 1 = s
          BY <4>2, <5>1
        <5> QED
          BY <5>1, <5>3, <5>4
      <4>6. s # 1
        BY <2>1, <3>1, <4>5
      <4>7. C'[s - 1] = C[s]
        <5>1. s - 1 \in 1 .. Len(C) - 1 /\ s - 1 + 1 = s
          BY <4>2, <4>6
        <5>2. C'[s - 1] = C[s - 1 + 1]
          BY <2>1, <5>1
        <5> QED
          BY <5>1, <5>2
      <4> QED
        BY <4>2, <4>3, <4>5, <4>6, <4>7
    <3> QED
      BY <3>2, <3>3 DEF AtMarker, C
  <2> QED
    BY <1>5, <2>5, <2>6
<1>6. CASE \E e \in CollatedItems : C' = Append(C, e) /\ e.kind # kind
             /\ ((\E isReference \in BOOLEAN : Collate(isReference)) \/ DrainJump
                 \/ (DrainInsert /\ IsMarker(e) /\ e.Value = DrainSequenceNumber))
  <2>1. PICK e \in CollatedItems :
             /\ C' = Append(C, e) /\ e.kind # kind
             /\ ((\E isReference \in BOOLEAN : Collate(isReference)) \/ DrainJump
                 \/ (DrainInsert /\ IsMarker(e) /\ e.Value = DrainSequenceNumber))
    BY <1>6
  <2>2. /\ Len(C') = Len(C) + 1 /\ \A i \in 1 .. Len(C) : C'[i] = C[i]
        /\ C'[Len(C) + 1] = e /\ C' \in Seq(CollatedItems)
    BY <1>1, <2>1, AppendIs
  <2>3. DOMAIN C' = 1 .. Len(C) + 1
    BY <2>2, MembersOf
  <2>4. UNCHANGED NextBufferSequenceNumber /\ SeenBy("CtoP")' = SeenBy("CtoP")
    <3>1. ~CtoPMarker /\ ~CtoPFrame
      <4>1. CtoPMarker \/ CtoPFrame => C # <<>> /\ C' = Tail(C)
        BY DEF CtoPMarker, CtoPFrame
      <4>2. C # <<>> => Len(Tail(C)) = Len(C) - 1
        BY <1>1, TailIs
      <4>3. CtoPMarker \/ CtoPFrame => Len(C') = n - 1
        BY <1>8, <4>1, <4>2
      <4>4. Len(C') = n + 1
        BY <1>8, <2>2
      <4>5. n - 1 # n + 1
        OBVIOUS
      <4> QED
        BY <4>3, <4>4, <4>5
    <3> QED
      BY <3>1, NumbersBy
  <2>5. MarkerSent' => C' # <<>> /\ IsMarker(C'[Len(C')]) /\ C'[Len(C')].Value = DrainSequenceNumber'
    <3>1. MarkerSent' => DrainInsert /\ UNCHANGED DrainSequenceNumber
      BY <2>1, MarkerSentBy
    <3>2. MarkerSent' => IsMarker(e) /\ e.Value = DrainSequenceNumber
      <4>1. ASSUME MarkerSent'
            PROVE  ~DrainJump /\ ~(\E isReference \in BOOLEAN : Collate(isReference))
        <5>1. DrainInsert
          BY <3>1, <4>1
        <5>2. drain.pc = "insert" /\ drain'.pc = "before"
          BY <5>1 DEF DrainInsert, At, Go, TypeInv, Ranges, DrainRanges
        <5> QED
          BY <5>2 DEF DrainJump, Collate, At, drn
      <4> QED
        BY <2>1, <4>1
    <3>3. C' # <<>>
      BY <1>2, <2>2
    <3> QED
      BY <2>2, <3>1, <3>2, <3>3
  <2> HIDE DEF C
  <2>6. ASSUME NEW s \in DOMAIN C', C'[s].kind = kind
        PROVE  s \in DOMAIN C /\ C'[s] = C[s] /\ (s > 1 => C'[s - 1] = C[s - 1])
    <3>1. s # Len(C) + 1
      BY <2>1, <2>2, <2>6
    <3>2. s \in 1 .. Len(C) /\ (s > 1 => s - 1 \in 1 .. Len(C))
      BY <1>2, <2>3, <3>1
    <3> QED
      BY <1>2, <2>2, <3>2
  <2> QED
    BY <2>4, <2>5, <2>6 DEF AtMarker, SeenBy, C
<1>7. CASE SwitchCalls /\ At("parser")
  <2>1. C' = Append(C, Called(kind)) /\ Called(kind) \in CollatedItems
    <3>1. C' = Append(C, Called(kind))
      BY <1>7 DEF SwitchCalls, At, Called, SwitchNumber
    <3> QED
      BY <3>1, MadeItems, ItemSets DEF Called, AfterCalls, TypeInv, Ranges, MessageRanges
  <2>2. /\ Len(C') = Len(C) + 1 /\ \A i \in 1 .. Len(C) : C'[i] = C[i]
        /\ C'[Len(C) + 1] = Called(kind) /\ C' \in Seq(CollatedItems)
    BY <1>1, <2>1, AppendIs
  <2>3. DOMAIN C' = 1 .. Len(C) + 1 /\ Called(kind).Value = DrainSequenceNumber
    BY <2>2, MembersOf DEF Called, Item
  <2>4. UNCHANGED NextBufferSequenceNumber /\ SeenBy("CtoP")' = SeenBy("CtoP")
    BY <1>7, NumbersBy, SwitchCallsMove DEF CtoPMarker, CtoPFrame, drn
  <2>5. ~MarkerSent'
    <3>1. drain'.pc = "codec class"
      BY <1>7 DEF SwitchCalls, At, Go, TypeInv, Ranges, DrainRanges
    <3> QED
      BY <3>1 DEF MarkerSent
  <2>6. MarkerSent
    BY <1>7 DEF MarkerSent, At, TypeInv, Exchanges
  <2>7. \A s \in DOMAIN C : C[s].kind # kind
    <3>1. ParserCalls = {}
      BY <1>7 DEF NoneTwice, At
    <3> QED
      BY <3>1 DEF ParserCalls, CallsFor, ToSet
  <2> HIDE DEF C, kind
  <2>8. ASSUME NEW s \in DOMAIN C', C'[s].kind = kind
        PROVE  \/ /\ s = 1 /\ NextBufferSequenceNumber' = C'[s].Value + 1
                  /\ C'[s].Value <= SeenBy("CtoP")'
               \/ /\ s > 1 /\ IsMarker(C'[s - 1]) /\ C'[s - 1].Value = C'[s].Value
    <3>1. s = Len(C) + 1
      BY <1>2, <2>2, <2>3, <2>7, <2>8
    <3>2. C'[s].Value = DrainSequenceNumber
      BY <2>2, <2>3, <3>1
    <3>3. CASE C = <<>>
      <4>1. NextBufferSequenceNumber = DrainSequenceNumber + 1 /\ DrainSequenceNumber <= SeenBy("CtoP")
        BY <2>6, <3>3 DEF AtMarker, SeenBy, C
      <4>2. s = 1
        <5>1. Len(C) = 0
          BY <3>3
        <5> QED
          BY <3>1, <5>1
      <4> QED
        BY <2>4, <3>2, <4>1, <4>2
    <3>4. CASE C # <<>>
      <4>1. IsMarker(C[Len(C)]) /\ C[Len(C)].Value = DrainSequenceNumber
        BY <2>6, <3>4 DEF AtMarker, C
      <4>2. Len(C) \in 1 .. Len(C) /\ s > 1 /\ s - 1 = Len(C)
        <5>1. Len(C) # 0
          BY <1>1, <3>4
        <5> QED
          BY <1>2, <3>1, <5>1
      <4>3. C'[s - 1] = C[Len(C)]
        BY <2>2, <4>2
      <4> QED
        BY <3>2, <4>1, <4>2, <4>3
    <3> QED
      BY <3>3, <3>4
  <2> QED
    BY <2>5, <2>8 DEF AtMarker, SeenBy, C, kind
<1> QED
  BY <1>4, <1>5, <1>6, <1>7, CollatedBy

-----------------------------------------------------------------------------
\* The marker with this number is on its way to ParseToDecode.
Parsing(v) == \E m \in InC \cup InP : IsMarker(m) /\ m.Value = v
Marked(v)  == v <= SeenBy("PtoD") \/ Parsing(v)

\* ParseToDecode sees the marker of a call, whichever of them comes first; a
\* call that waits there waits for it.
ToParse ==
  /\ MarkerSent \/ drain.pc = "codec class" => Marked(DrainSequenceNumber)
  /\ \A s \in DOMAIN ParsedFrameRing : ParsedFrameRing[s].kind = "SwitchCodec" =>
       /\ Marked(ParsedFrameRing[s].Value)
       /\ \A i \in 1 .. s - 1 : ParsedFrameRing[i].Value <= ParsedFrameRing[s].Value
  /\ \A m \in Accumulated["PtoD"] :
       Parsing(m.Value) \/ (IsMarker(PtoDBuffer) /\ PtoDBuffer.Value = m.Value)

\* A marker leaves the two rings into the hands of ParseToDecode.
LEMMA ParsingStep ==
  ASSUME TypeInv, Coming, Next, NEW v \in Nat
  PROVE  /\ Parsing(v) => \/ Parsing(v)'
                          \/ PtoDExtract /\ IsMarker(Head(ParsedFrameRing)) /\ Head(ParsedFrameRing).Value = v
         /\ Marked(v) => Marked(v)'
<1>1. CollatedFrameRing \in Seq(CollatedItems) /\ ParsedFrameRing \in Seq(ParsedItems) /\ Typed
  BY DEF TypeInv, Typed
<1>2. \A m \in InC : IsMarker(m) => m \in InC' \/ m \in InP'
  <2>1. CASE UNCHANGED CollatedFrameRing
    BY <2>1 DEF InC, ToSet
  <2>2. CASE (CtoPMarker \/ CtoPFrame \/ CtoPControl) /\ CollatedFrameRing # <<>>
             /\ CollatedFrameRing' = Tail(CollatedFrameRing)
    <3>1. InC = InC' \cup {Head(CollatedFrameRing)}
      BY <1>1, <2>2, TailIs DEF InC
    <3>2. CASE CtoPMarker
      <4>1. ParsedFrameRing' = Append(ParsedFrameRing, Head(CollatedFrameRing))
        BY <3>2 DEF CtoPMarker
      <4>2. InP' = InP \cup {Head(CollatedFrameRing)}
        BY <1>1, <4>1, AppendAdds DEF InP
      <4> QED
        BY <3>1, <4>2
    <3>3. CASE CtoPFrame \/ CtoPControl
      BY <3>1, <3>3, TakenIs
    <3> QED
      BY <2>2, <3>2, <3>3
  <2>3. CASE \E e \in CollatedItems : CollatedFrameRing' = Append(CollatedFrameRing, e)
    <3>1. PICK e \in CollatedItems : CollatedFrameRing' = Append(CollatedFrameRing, e)
      BY <2>3
    <3>2. InC' = InC \cup {e}
      BY <1>1, <3>1, AppendAdds DEF InC
    <3> QED
      BY <3>2
  <2>4. CASE SwitchCalls /\ At("parser")
    <3>1. CollatedFrameRing' = Append(CollatedFrameRing, Item("SwitchFrameParser", None, SwitchNumber))
      BY <2>4 DEF SwitchCalls, At
    <3>2. InC' = InC \cup {Item("SwitchFrameParser", None, SwitchNumber)}
      BY <1>1, <3>1, AppendAdds DEF InC
    <3> QED
      BY <3>2
  <2> QED
    BY <2>1, <2>2, <2>3, <2>4, CollatedBy
<1>3. \A m \in InP : IsMarker(m) => m \in InP' \/ (PtoDExtract /\ m = Head(ParsedFrameRing))
  <2>1. CASE UNCHANGED ParsedFrameRing
    BY <2>1 DEF InP, ToSet
  <2>2. CASE \E e \in FrameItems \cup MarkerItems : ParsedFrameRing' = Append(ParsedFrameRing, e)
    <3>1. PICK e \in FrameItems \cup MarkerItems : ParsedFrameRing' = Append(ParsedFrameRing, e)
      BY <2>2
    <3>2. InP' = InP \cup {e}
      BY <1>1, <3>1, AppendAdds DEF InP
    <3> QED
      BY <3>2
  <2>3. CASE PtoDExtract \/ PtoDControl
    <3>1. ParsedFrameRing # <<>> /\ ParsedFrameRing' = Tail(ParsedFrameRing)
      BY <2>3 DEF PtoDExtract, PtoDControl
    <3>2. InP = InP' \cup {Head(ParsedFrameRing)}
      BY <1>1, <3>1, TailIs DEF InP
    <3>3. PtoDControl => ~IsMarker(Head(ParsedFrameRing))
      BY DEF PtoDControl, IsControl, IsMarker, BeforeCalls, AfterCalls
    <3> QED
      BY <2>3, <3>2, <3>3
  <2>4. CASE SwitchCalls /\ At("codec class")
    <3>1. ParsedFrameRing' = Append(ParsedFrameRing, Item("SwitchCodec", None, SwitchNumber))
      BY <2>4 DEF SwitchCalls, At
    <3>2. InP' = InP \cup {Item("SwitchCodec", None, SwitchNumber)}
      BY <1>1, <3>1, AppendAdds DEF InP
    <3> QED
      BY <3>2
  <2> QED
    BY <2>1, <2>2, <2>3, <2>4, ParsedBy
<1>4. Parsing(v) => \/ Parsing(v)'
                    \/ PtoDExtract /\ IsMarker(Head(ParsedFrameRing)) /\ Head(ParsedFrameRing).Value = v
  BY <1>2, <1>3 DEF Parsing
<1>5. SeenBy("PtoD") \in Nat /\ SeenBy("PtoD")' \in Nat /\ SeenBy("PtoD") <= SeenBy("PtoD")'
  <2>1. SeenBy("PtoD") \in Nat /\ SeenBy("PtoD") <= SeenBy("PtoD")'
    BY NumbersBy DEF Processes
  <2>2. TypeInv'
    BY TypeStep
  <2>3. SeenBy("PtoD")' \in Nat
    BY <2>2 DEF TypeInv, Ranges, MessageRanges, SeenBy, Processes
  <2> QED
    BY <2>1, <2>3
<1>6. PtoDExtract => Head(ParsedFrameRing).Value <= SeenBy("PtoD")'
  BY NumbersBy
<1> QED
  BY <1>4, <1>5, <1>6 DEF Marked

\* Who changes what ParseToDecode has in hand.
LEMMA BufferBy ==
  ASSUME Next
  PROVE  UNCHANGED PtoDBuffer \/ PtoDExtract \/ PtoDPass \/ PtoDDiscard
<1>1. CASE CtoP
  BY <1>1 DEF CtoP, CtoPMarker, CtoPFrame, CtoPControl, CtoPSwitch
<1>2. CASE PtoD
  BY <1>2 DEF PtoD, PtoDControl, PtoDSwitch
<1>3. CASE CodecOutput \/ DtoMLoop \/ DtoMInHand \/ Manifest \/ PostMExtract
  BY <1>3 DEF CodecOutput, DtoMLoop, DtoMInHand, DtoMSelect, DtoMMarker, DtoMExtract, DtoMTimeout,
              DtoMManifest, DtoMDiscard, Manifest, PostMExtract
<1>4. CASE Drain \/ DrainGiveUp \/ (\E policy \in Policies : DrainBegin(policy))
           \/ (\E isReference \in BOOLEAN : Collate(isReference))
  BY <1>4 DEF Drain, DrainJump, DrainCodec, DrainRelease, DrainCheck, DrainNumber, DrainInsert,
              DrainCallBefore, DrainCallAfter, SwitchCollator, SwitchCalls, DrainReturn, DrainGiveUp,
              DrainBegin, Collate
<1> QED
  BY <1>1, <1>2, <1>3, <1>4 DEF Next

\* A step keeps every call behind its marker on the way to ParseToDecode.
LEMMA ToParseStep ==
  ASSUME TypeInv, Chain, Coming, CallOnce, NoneTwice, Underway, ToParse, Behind, Next, ~drain'.failed
  PROVE  ToParse'
<1> DEFINE P == ParsedFrameRing
<1>1. P \in Seq(ParsedItems) /\ DrainSequenceNumber \in Nat /\ CallsTyped /\ Typed
  BY DEF TypeInv, Typed, Ranges, MessageRanges
<1>2. DOMAIN P = 1 .. Len(P) /\ Len(P) \in Nat /\ \A i \in 1 .. Len(P) : P[i] \in ParsedItems /\ P[i] \in InP
  BY <1>1, MembersOf DEF InP
<1>3. \A v \in Nat : Marked(v) => Marked(v)'
  BY ParsingStep
<1>4. ASSUME MarkerSent' \/ drain'.pc = "codec class"
      PROVE  Marked(DrainSequenceNumber)' /\ UNCHANGED DrainSequenceNumber
  <2>1. CASE DrainInsert
    <3>1. CollatedFrameRing' = Append(CollatedFrameRing, Item("marker", drain.n, DrainSequenceNumber))
          /\ UNCHANGED DrainSequenceNumber
      BY <2>1 DEF DrainInsert
    <3>2. InC' = InC \cup {Item("marker", drain.n, DrainSequenceNumber)}
      BY <3>1, AppendAdds DEF InC, TypeInv, Typed
    <3>3. IsMarker(Item("marker", drain.n, DrainSequenceNumber))
          /\ Item("marker", drain.n, DrainSequenceNumber).Value = DrainSequenceNumber
      BY DEF Item, IsMarker
    <3>4. \E m \in InC' \cup InP' : IsMarker(m) /\ m.Value = DrainSequenceNumber'
      BY <3>1, <3>2, <3>3
    <3> QED
      BY <3>1, <3>4 DEF Marked, Parsing
  <2>2. CASE ~DrainInsert
    <3>1. MarkerSent \/ drain.pc = "codec class"
      BY <1>4, <2>2, DrainWalks DEF MarkerSent, TypeInv, Exchanges
    <3>2. UNCHANGED DrainSequenceNumber
      <4>1. DrainNumber => drain.pc = "number"
        BY DEF DrainNumber, At
      <4> QED
        BY <3>1, <4>1, DrainWalks DEF MarkerSent
    <3>3. Marked(DrainSequenceNumber)
      BY <3>1 DEF ToParse
    <3>4. PICK v \in Nat : v = DrainSequenceNumber
      BY <1>1
    <3>5. Marked(v)'
      BY <1>3, <3>3, <3>4
    <3> QED
      BY <3>2, <3>4, <3>5 DEF Marked, Parsing
  <2> QED
    BY <2>1, <2>2
<1>5. ASSUME NEW s \in DOMAIN P', P'[s].kind = "SwitchCodec"
      PROVE  \E v \in Nat : /\ v = P'[s].Value /\ Marked(v)'
                            /\ \A i \in 1 .. s - 1 : P'[i].Value <= v
  <2>1. \A t \in DOMAIN P : P[t].kind = "SwitchCodec" =>
          \E v \in Nat : v = P[t].Value /\ Marked(v)' /\ \A i \in 1 .. t - 1 : P[i].Value <= v
    <3>1. ASSUME NEW t \in DOMAIN P, P[t].kind = "SwitchCodec"
          PROVE  P[t].Value \in Nat /\ Marked(P[t].Value) /\ \A i \in 1 .. t - 1 : P[i].Value <= P[t].Value
      BY <1>2, <3>1, ParsedIs DEF ToParse
    <3> QED
      BY <1>3, <3>1
  <2>2. CASE P' = P
    BY <1>5, <2>1, <2>2
  <2>3. CASE \E e \in FrameItems \cup MarkerItems : P' = Append(P, e)
    <3>1. PICK e \in FrameItems \cup MarkerItems : P' = Append(P, e)
      BY <2>3
    <3>2. e \in ParsedItems /\ e.kind # "SwitchCodec"
      BY ItemSets DEF FrameItems, MarkerItems
    <3>3. /\ Len(P') = Len(P) + 1 /\ \A i \in 1 .. Len(P) : P'[i] = P[i]
          /\ P'[Len(P) + 1] = e /\ P' \in Seq(ParsedItems)
      BY <1>1, <3>1, <3>2, AppendIs
    <3>4. DOMAIN P' = 1 .. Len(P) + 1
      BY <3>3, MembersOf
    <3> HIDE DEF P
    <3>5. s # Len(P) + 1
      BY <1>5, <3>2, <3>3
    <3>6. s \in DOMAIN P /\ s \in 1 .. Len(P) /\ \A i \in 1 .. s - 1 : i \in 1 .. Len(P)
      BY <1>2, <3>4, <3>5
    <3>7. P'[s] = P[s] /\ \A i \in 1 .. s - 1 : P'[i] = P[i]
      BY <3>3, <3>6
    <3>8. PICK v \in Nat : v = P[s].Value /\ Marked(v)' /\ \A i \in 1 .. s - 1 : P[i].Value <= v
      BY <1>5, <2>1, <3>6, <3>7
    <3> QED
      BY <3>7, <3>8
  <2>4. CASE P # <<>> /\ P' = Tail(P)
    <3>1. /\ Len(P') = Len(P) - 1 /\ \A i \in 1 .. Len(P) - 1 : P'[i] = P[i + 1]
          /\ Len(P) \in Nat \ {0} /\ P' \in Seq(ParsedItems)
      BY <1>1, <2>4, TailIs
    <3>2. DOMAIN P' = 1 .. Len(P) - 1
      BY <3>1, MembersOf
    <3> HIDE DEF P
    <3>3. s \in 1 .. Len(P) - 1
      BY <3>2
    <3>4. s + 1 \in DOMAIN P /\ \A i \in 1 .. s - 1 : i \in 1 .. Len(P) - 1 /\ i + 1 \in 1 .. (s + 1) - 1
      BY <1>2, <3>1, <3>3
    <3>5. PICK t \in DOMAIN P : t = s + 1
      BY <3>4
    <3>6. P'[s] = P[t] /\ \A i \in 1 .. s - 1 : P'[i] = P[i + 1]
      BY <3>1, <3>3, <3>4, <3>5
    <3>7. PICK v \in Nat : v = P[t].Value /\ Marked(v)' /\ \A i \in 1 .. t - 1 : P[i].Value <= v
      BY <1>5, <2>1, <3>6
    <3>8. \A i \in 1 .. s - 1 : P'[i].Value <= v
      BY <3>4, <3>5, <3>6, <3>7
    <3> QED
      BY <3>6, <3>7, <3>8
  <2>5. CASE SwitchCalls /\ At("codec class")
    <3>1. P' = Append(P, Called("SwitchCodec")) /\ UNCHANGED DrainSequenceNumber
      BY <2>5 DEF SwitchCalls, At, Called, SwitchNumber
    <3>2. Called("SwitchCodec") \in ParsedItems /\ Called("SwitchCodec").Value = DrainSequenceNumber
      BY MadeItems, ItemSets, <1>1 DEF Called, AfterCalls, Item
    <3>3. /\ Len(P') = Len(P) + 1 /\ \A i \in 1 .. Len(P) : P'[i] = P[i]
          /\ P'[Len(P) + 1] = Called("SwitchCodec") /\ P' \in Seq(ParsedItems)
      BY <1>1, <3>1, <3>2, AppendIs
    <3>4. DOMAIN P' = 1 .. Len(P) + 1
      BY <3>3, MembersOf
    <3>5. \A i \in 1 .. Len(P) : P[i].kind # "SwitchCodec"
      <4>1. CodecCalls = {}
        BY <2>5 DEF NoneTwice, At
      <4> QED
        BY <1>2, <4>1 DEF CodecCalls, CallsFor, InP
    <3>6. \A i \in 1 .. Len(P) : P[i].Value \in Nat /\ P[i].Value <= DrainSequenceNumber
      <4>1. ASSUME NEW i \in 1 .. Len(P)
            PROVE  P[i].Value \in Nat /\ P[i].Value < NextBufferSequenceNumber
        <5>1. P[i] \in ParsedItems /\ P[i] \in InP /\ P[i].kind # "SwitchCodec"
          BY <1>2, <3>5
        <5>2. ~IsControl(P[i]) /\ P[i].Value \in Nat
          BY <5>1, ParsedIs DEF Others
        <5> QED
          BY <5>1, <5>2 DEF Chain, ChainBelow, Everywhere
      <4>2. NextBufferSequenceNumber <= DrainSequenceNumber + 1 /\ NextBufferSequenceNumber \in Nat
        <5>1. drain.switch
          BY <2>5 DEF At, TypeInv, Exchanges
        <5>2. DrainSequenceNumber + 1 \in Ends
          BY <2>5, <5>1 DEF Ends, Switching, Making, At
        <5>3. ParserDue
          BY <2>5 DEF At, Underway, TimerDue
        <5> QED
          BY <5>2, <5>3, CallsAreNumbered DEF Behind
      <4> HIDE DEF P
      <4> QED
        BY <1>1, <4>1, <4>2
    <3>7. Marked(DrainSequenceNumber)
      BY <2>5 DEF At, ToParse
    <3>8. PICK v \in Nat : v = DrainSequenceNumber
      BY <1>1
    <3>9. Marked(v)'
      BY <1>3, <3>7, <3>8
    <3> HIDE DEF P
    <3>10. s = Len(P) + 1 \/ s \in 1 .. Len(P)
      BY <1>2, <3>4
    <3>11. s = Len(P) + 1
      <4>1. s \in 1 .. Len(P) => P'[s] = P[s] /\ P[s].kind # "SwitchCodec"
        BY <3>3, <3>5
      <4> QED
        BY <1>5, <3>10, <4>1
    <3>12. P'[s].Value = v
      BY <3>2, <3>3, <3>8, <3>11
    <3>13. \A i \in 1 .. s - 1 : i \in 1 .. Len(P)
      BY <1>2, <3>11
    <3>14. \A i \in 1 .. s - 1 : P'[i].Value <= v
      BY <3>3, <3>6, <3>8, <3>13
    <3> QED
      BY <3>9, <3>12, <3>14
  <2>6. PtoDExtract \/ PtoDControl => P # <<>> /\ P' = Tail(P)
    BY DEF PtoDExtract, PtoDControl
  <2> QED
    BY <2>2, <2>3, <2>4, <2>5, <2>6, ParsedBy
<1>6. ASSUME NEW m \in Accumulated'["PtoD"]
      PROVE  Parsing(m.Value)' \/ (IsMarker(PtoDBuffer') /\ PtoDBuffer'.Value = m.Value)
  <2>1. \A o \in Accumulated["PtoD"] : o.kind = "SwitchCodec" /\ o.Value \in Nat
    BY <1>1 DEF CallsTyped, CallsOf, Others, Processes
  <2>2. CASE PtoDPass \/ PtoDDiscard
    <3>1. PtoDCallsAfter /\ UNCHANGED <<CollatedFrameRing, ParsedFrameRing>> /\ PtoDBuffer # Nothing
      BY <2>2 DEF PtoDPass, PtoDDiscard, rings
    <3>2. m \in Accumulated["PtoD"] /\ m \notin Due("PtoD", PtoDBuffer.Value, AfterCalls)
      <4> DEFINE due == Due("PtoD", PtoDBuffer.Value, AfterCalls)
      <4>1. Accumulated' = [Accumulated EXCEPT !["PtoD"] = @ \ due]
        BY <3>1 DEF PtoDCallsAfter
      <4> HIDE DEF due
      <4>2. Accumulated'["PtoD"] = Accumulated["PtoD"] \ due
        BY <1>1, <4>1, ActedIs DEF Processes
      <4> QED
        BY <1>6, <4>2 DEF due
    <3>3. ~(m.Value <= PtoDBuffer.Value) /\ m.Value \in Nat
      BY <2>1, <3>2 DEF Due, AfterCalls
    <3>4. PtoDBuffer.Value # m.Value
      BY <3>3
    <3>5. Parsing(m.Value)
      BY <3>2, <3>4 DEF ToParse
    <3> QED
      BY <3>1, <3>5 DEF Parsing, InC, InP, ToSet
  <2>3. CASE PtoDControl
    <3> DEFINE h == Head(P)
    <3>1. /\ P # <<>> /\ IsControl(h) /\ UNCHANGED <<CollatedFrameRing, PtoDBuffer>>
          /\ Reached("PtoD", h.Value) => UNCHANGED Accumulated
          /\ ~Reached("PtoD", h.Value) => Accumulate("PtoD", h)
      BY <2>3 DEF PtoDControl
    <3>2. h \in ParsedItems /\ h.Value \in Nat /\ h.kind = "SwitchCodec"
      <4>1. h \in ParsedItems /\ h.Value \in Nat
        BY <1>1, <3>1, HeadsAre
      <4>2. h \in Others({"SwitchCodec"})
        BY <3>1, <4>1, ParsedIs
      <4> QED
        BY <4>1, <4>2 DEF Others
    <3>3. \A v \in Nat : Parsing(v) => Parsing(v)'
      <4>1. ~PtoDExtract
        BY <3>1 DEF PtoDExtract
      <4> QED
        BY <4>1, ParsingStep
    <3>4. CASE m \in Accumulated["PtoD"]
      <4>1. PICK v \in Nat : v = m.Value
        BY <2>1, <3>4
      <4>2. Parsing(v) \/ (IsMarker(PtoDBuffer) /\ PtoDBuffer.Value = v)
        BY <3>4, <4>1 DEF ToParse
      <4>3. Parsing(v)' \/ (IsMarker(PtoDBuffer') /\ PtoDBuffer'.Value = v)
        BY <3>1, <3>3, <4>2
      <4> QED
        BY <4>1, <4>3
    <3>5. CASE m \notin Accumulated["PtoD"]
      <4>1. ~Reached("PtoD", h.Value) /\ m = h
        BY <1>1, <1>6, <3>1, <3>5, AccumulatedIs DEF Processes
      <4>2. Marked(h.Value)
        <5>1. h = P[1] /\ Len(P) \in Nat \ {0}
          BY <1>1, <3>1, TailIs
        <5>2. 1 \in DOMAIN P
          BY <1>2, <5>1
        <5> QED
          BY <3>2, <5>1, <5>2 DEF ToParse
      <4>3. Parsing(h.Value)
        BY <4>1, <4>2 DEF Marked, Reached, SeenBy
      <4>4. PICK v \in Nat : v = h.Value
        BY <3>2
      <4>5. Parsing(v)'
        BY <3>3, <4>3, <4>4
      <4> QED
        BY <4>1, <4>4, <4>5
    <3> QED
      BY <3>4, <3>5
  <2>4. CASE ~PtoDPass /\ ~PtoDDiscard /\ ~PtoDControl
    <3>1. m \in Accumulated["PtoD"]
      BY <1>6, <2>4, AccumulatedBy
    <3>2. PICK v \in Nat : v = m.Value
      BY <2>1, <3>1
    <3>3. Parsing(v) \/ (IsMarker(PtoDBuffer) /\ PtoDBuffer.Value = v)
      BY <3>1, <3>2 DEF ToParse
    <3>4. CASE PtoDExtract
      <4>1. PtoDBuffer = Nothing /\ PtoDBuffer' = Head(P)
        BY <3>4 DEF PtoDExtract
      <4>2. Parsing(v)
        BY <3>3, <4>1, NothingIs
      <4> QED
        BY <3>2, <4>1, <4>2, ParsingStep
    <3>5. CASE ~PtoDExtract
      <4>1. UNCHANGED PtoDBuffer
        BY <2>4, <3>5, BufferBy
      <4> QED
        BY <3>2, <3>3, <3>5, <4>1, ParsingStep
    <3> QED
      BY <3>4, <3>5
  <2> QED
    BY <2>2, <2>3, <2>4
<1>7. MarkerSent' \/ drain'.pc = "codec class" => Marked(DrainSequenceNumber)'
  BY <1>4
<1>8. \A s \in DOMAIN P' : P'[s].kind = "SwitchCodec" =>
        \E v \in Nat : v = P'[s].Value /\ Marked(v)' /\ \A i \in 1 .. s - 1 : P'[i].Value <= v
  BY <1>5
<1>9. \A s \in DOMAIN ParsedFrameRing' : ParsedFrameRing'[s].kind = "SwitchCodec" =>
        /\ ParsedFrameRing'[s].Value <= SeenBy("PtoD")'
           \/ \E m \in InC' \cup InP' : IsMarker(m) /\ m.Value = ParsedFrameRing'[s].Value
        /\ \A i \in 1 .. s - 1 : ParsedFrameRing'[i].Value <= ParsedFrameRing'[s].Value
  BY <1>8 DEF Marked, Parsing
<1>10. \A m \in Accumulated'["PtoD"] :
         (\E o \in InC' \cup InP' : IsMarker(o) /\ o.Value = m.Value)
         \/ (IsMarker(PtoDBuffer') /\ PtoDBuffer'.Value = m.Value)
  BY <1>6 DEF Parsing
<1> QED
  BY <1>7, <1>9, <1>10 DEF ToParse, Marked, Parsing

\* The end of a switch: that of its call or, until that is made, the one of the
\* marker that is in.
LEMMA EndsBy ==
  ASSUME TypeInv, CallOnce, NoneTwice, Underway, AtMarker, MaxMessages >= 1, Next, ~drain'.failed,
         NEW w \in Ends'
  PROVE  w \in Ends \/ (DrainInsert /\ drain'.switch /\ drain'.pc = "before" /\ w = DrainSequenceNumber + 1)
<1>1. CASE w \in {m.Value : m \in Completes'}
  <2>1. \/ Completes' \subseteq Completes
        \/ /\ SwitchCalls /\ At("complete")
           /\ Completes' = {Item("SwitchComplete", None, CompleteNumber)}
    BY SwitchEffects DEF AllKept, ParserHalts, CodecHalts, TimerActs, CompleteActs, CompleteRuns, ParserCalled,
                         CodecCalled, TimerCalled, CompleteCalled, CompletesFewer
  <2>2. CASE Completes' \subseteq Completes
    BY <1>1, <2>2 DEF Ends
  <2>3. CASE At("complete") /\ Completes' = {Item("SwitchComplete", None, CompleteNumber)}
    <3>1. w = DrainSequenceNumber + 1
      BY <1>1, <2>3 DEF Item, CompleteNumber
    <3>2. Switching
      BY <2>3 DEF Switching, Making, At, TypeInv, Exchanges
    <3> QED
      BY <3>1, <3>2 DEF Ends
  <2> QED
    BY <2>1, <2>2, <2>3
<1>2. CASE Switching' /\ w = DrainSequenceNumber' + 1
  <2>1. (Switching /\ UNCHANGED DrainSequenceNumber)
        \/ (DrainInsert /\ drain'.switch /\ drain'.pc = "before" /\ UNCHANGED DrainSequenceNumber)
    <3>1. DrainNumber => drain.pc = "number"
      BY DEF DrainNumber, At
    <3> QED
      BY <1>2, <3>1, DrainWalks DEF Switching, Making, TypeInv, Exchanges
  <2> QED
    BY <1>2, <2>1 DEF Ends
<1>3. w \in {m.Value : m \in Completes'} \/ (Switching' /\ w = DrainSequenceNumber' + 1)
  BY DEF Ends
<1> QED
  BY <1>1, <1>2, <1>3

\* Parser and codec are due from SwitchCollator on, and whose call is made then.
LEMMA DueBy ==
  ASSUME TypeInv, CallOnce, NoneTwice, AtMarker, MaxMessages >= 1, Next, ~drain'.failed
  PROVE  /\ ParserDue' => ParserDue \/ (drain.switch /\ drain.pc = "collator" /\ SwitchCollator)
         /\ CodecDue' => CodecDue \/ (drain.switch /\ drain.pc = "collator" /\ SwitchCollator)
         /\ ParserCalls' \subseteq ParserCalls \/ (At("parser") /\ ParserCalls' = {Called("SwitchFrameParser")})
         /\ CodecCalls' \subseteq CodecCalls \/ (At("codec class") /\ CodecCalls' = {Called("SwitchCodec")})
<1>1. /\ drain'.pc = "parser" => drain.pc = "parser" \/ (drain.switch /\ drain.pc = "collator" /\ SwitchCollator)
      /\ drain'.pc \in {"parser", "codec class"} =>
           drain.pc \in {"parser", "codec class"} \/ (drain.switch /\ drain.pc = "collator" /\ SwitchCollator)
  BY DrainWalks DEF TypeInv, Exchanges
<1>2. /\ ParserCalls' \subseteq ParserCalls \/ (At("parser") /\ ParserCalls' = {Called("SwitchFrameParser")})
      /\ CodecCalls' \subseteq CodecCalls \/ (At("codec class") /\ CodecCalls' = {Called("SwitchCodec")})
  BY SwitchEffects DEF AllKept, ParserHalts, CodecHalts, TimerActs, CompleteActs, ParserCalled,
                       CodecCalled, TimerCalled, CompleteCalled, ParserKept, CodecKept
<1>3. /\ "CtoP" \in switch'.halted => "CtoP" \in switch.halted \/ ParserCalls # {}
      /\ "PtoD" \in switch'.halted => "PtoD" \in switch.halted \/ CodecCalls # {}
  <2>1. \A v : [switch EXCEPT !.halted = v].halted = v
    BY DEF TypeInv, Ranges, SwitchRanges
  <2>2. CASE ParserHalts
    BY <2>1, <2>2 DEF ParserHalts
  <2>3. CASE CodecHalts
    BY <2>1, <2>3 DEF CodecHalts
  <2>4. CASE TimerActs
    BY <2>4 DEF TimerActs, TimerRuns, TypeInv, Ranges, SwitchRanges
  <2>5. CASE CompleteActs
    BY <2>5 DEF CompleteActs, CompleteRuns, TypeInv, Ranges, SwitchRanges
  <2>6. CASE CtoPSwitch \/ PtoDSwitch \/ SwitchCollator
    BY <2>6 DEF CtoPSwitch, PtoDSwitch, SwitchCollator, TypeInv, Ranges, SwitchRanges
  <2>7. CASE UNCHANGED switch \/ SwitchCalls
    BY <2>7 DEF SwitchCalls
  <2> QED
    BY <2>2, <2>3, <2>4, <2>5, <2>6, <2>7, SwitchEffects DEF ParserCalled, CodecCalled, TimerCalled,
                                                            CompleteCalled
<1>4. ParserDue' => ParserDue \/ (drain.switch /\ drain.pc = "collator" /\ SwitchCollator)
  BY <1>1, <1>2, <1>3 DEF ParserDue, At
<1>5. CodecDue' => CodecDue \/ (drain.switch /\ drain.pc = "collator" /\ SwitchCollator)
  BY <1>1, <1>2, <1>3 DEF CodecDue, At
<1> QED
  BY <1>2, <1>4, <1>5

\* CollateToParse gives out no number of behind the marker while the parser's
\* call is to be made, or there and not yet taken.
LEMMA MarkerLimits ==
  ASSUME TypeInv, Coming, AtMarker, Next, NEW v \in Nat,
         (MarkerSent /\ v = DrainSequenceNumber) \/ \E c \in ParserCalls : c.Value = v
  PROVE  NextBufferSequenceNumber <= v + 1 /\ (CtoPMarker \/ CtoPFrame => NextBufferSequenceNumber' <= v + 1)
<1> DEFINE C == CollatedFrameRing
<1>1. C \in Seq(CollatedItems) /\ NextBufferSequenceNumber \in Nat
  BY DEF TypeInv, Typed, Ranges, MessageRanges
<1>2. DOMAIN C = 1 .. Len(C) /\ Len(C) \in Nat
  BY <1>1, MembersOf
<1>3. C # <<>> => Head(C) = C[1] /\ Len(C) \in Nat \ {0}
  BY <1>1, TailIs
<1>4. \/ \E k \in DOMAIN C : IsMarker(C[k]) /\ C[k].Value = v
      \/ NextBufferSequenceNumber = v + 1 /\ (C = <<>> \/ (C # <<>> /\ C[1].kind = "SwitchFrameParser"))
  <2>1. CASE MarkerSent /\ v = DrainSequenceNumber
    <3>1. CASE C = <<>>
      BY <2>1, <3>1 DEF AtMarker
    <3>2. CASE C # <<>>
      <4>1. IsMarker(C[Len(C)]) /\ C[Len(C)].Value = v
        BY <2>1, <3>2 DEF AtMarker
      <4>2. Len(C) \in DOMAIN C
        BY <1>2, <1>3, <3>2
      <4> QED
        BY <4>1, <4>2
    <3> QED
      BY <3>1, <3>2
  <2>2. CASE \E c \in ParserCalls : c.Value = v
    <3>1. PICK s \in DOMAIN C : C[s].kind = "SwitchFrameParser" /\ C[s].Value = v
      BY <1>1, <2>2, MembersOf DEF ParserCalls, CallsFor
    <3>2. CASE s = 1 /\ NextBufferSequenceNumber = C[s].Value + 1
      <4>1. C # <<>>
        BY <1>2, <3>1
      <4> QED
        BY <3>1, <3>2, <4>1
    <3>3. CASE s > 1 /\ IsMarker(C[s - 1]) /\ C[s - 1].Value = C[s].Value
      <4>1. s - 1 \in DOMAIN C
        BY <1>2, <3>1, <3>3
      <4> QED
        BY <3>1, <3>3, <4>1
    <3> QED
      BY <3>1, <3>2, <3>3 DEF AtMarker
  <2> QED
    BY <2>1, <2>2
<1>5. CASE \E k \in DOMAIN C : IsMarker(C[k]) /\ C[k].Value = v
  <2>1. PICK k \in DOMAIN C : IsMarker(C[k]) /\ C[k].Value = v
    BY <1>5
  <2>2. NextBufferSequenceNumber + k - 1 <= v /\ k \in Nat \ {0}
    BY <1>2, <2>1 DEF Coming
  <2>3. CtoPMarker => k = 1 /\ NextBufferSequenceNumber' = v + 1
    <3>1. ASSUME CtoPMarker
          PROVE  k = 1 /\ NextBufferSequenceNumber' = v + 1
      <4>1. C # <<>> /\ IsMarker(Head(C)) /\ NextBufferSequenceNumber' = Head(C).Value + 1
        BY <3>1 DEF CtoPMarker
      <4>2. 1 \in DOMAIN C /\ Head(C) = C[1]
        BY <1>2, <1>3, <4>1
      <4>3. k = 1
        BY <2>1, <4>1, <4>2 DEF Coming
      <4> QED
        BY <2>1, <4>1, <4>2, <4>3
    <3> QED
      BY <3>1
  <2>4. CtoPFrame => k # 1 /\ NextBufferSequenceNumber' = NextBufferSequenceNumber + 1
    <3>1. ASSUME CtoPFrame
          PROVE  k # 1 /\ NextBufferSequenceNumber' = NextBufferSequenceNumber + 1
      <4>1. C # <<>> /\ NextBufferSequenceNumber' = NextBufferSequenceNumber + 1
        BY <3>1 DEF CtoPFrame
      <4>2. ~IsMarker(C[1])
        BY <1>3, <3>1, <4>1, TakenIs
      <4> QED
        BY <2>1, <4>1, <4>2
    <3> QED
      BY <3>1
  <2> HIDE DEF C
  <2>5. NextBufferSequenceNumber + 1 <= v + 1 /\ (k # 1 => NextBufferSequenceNumber + 1 <= v)
    BY <1>1, <2>2
  <2> QED
    BY <1>1, <2>3, <2>4, <2>5
<1>6. CASE NextBufferSequenceNumber = v + 1 /\ (C = <<>> \/ (C # <<>> /\ C[1].kind = "SwitchFrameParser"))
  <2>1. ~CtoPMarker /\ ~CtoPFrame
    <3>1. CtoPMarker \/ CtoPFrame => C # <<>> /\ Head(C) = C[1]
      BY <1>3 DEF CtoPMarker, CtoPFrame
    <3>2. CtoPMarker => Head(C).kind = "marker"
      BY DEF CtoPMarker, IsMarker
    <3>3. CtoPFrame => ~IsControl(Head(C))
      <4>1. ASSUME CtoPFrame
            PROVE  ~IsControl(Head(C))
        <5>1. C # <<>> /\ ~IsControl([Head(C) EXCEPT !.Value = NextBufferSequenceNumber])
          BY <4>1 DEF CtoPFrame
        <5>2. Head(C) \in CollatedItems
          BY <5>1, HeadsAre DEF TypeInv
        <5>3. [Head(C) EXCEPT !.Value = NextBufferSequenceNumber].kind = Head(C).kind
          BY <5>2 DEF CollatedItems, FrameItems, MarkerItems, Others
        <5> QED
          BY <5>1, <5>3 DEF IsControl
      <4> QED
        BY <4>1
    <3> QED
      BY <1>6, <3>1, <3>2, <3>3 DEF IsControl, AfterCalls
  <2> QED
    BY <1>1, <1>6, <2>1
<1> QED
  BY <1>4, <1>5, <1>6

\* What gets past ParseToDecode is taken by it.
LEMMA AheadBy ==
  ASSUME TypeInv, Next
  PROVE  \A m \in Ahead' : IsBuffer(m) => m \in Ahead \/ (PtoDExtract /\ m = Head(ParsedFrameRing))
<1>1. \A m \in InH' : m \in InH \/ (PtoDExtract /\ m = Head(ParsedFrameRing))
  <2>1. PtoDExtract => PtoDBuffer' = Head(ParsedFrameRing)
    BY DEF PtoDExtract
  <2>2. PtoDPass \/ PtoDDiscard => PtoDBuffer' = Nothing
    BY DEF PtoDPass, PtoDDiscard
  <2> QED
    BY <2>1, <2>2, BufferBy DEF InH, InHand
<1>2. CASE Flow
  BY <1>1, <1>2 DEF Flow, Ahead
<1>3. CASE CtoP \/ PtoDControl \/ PtoDSwitch \/ SwitchCollator \/ DrainGiveUp
  <2>1. UNCHANGED <<DecodedFrameRing, dtom, manifestor, ManifestedBufferRing>>
        /\ (codec' = codec \/ codec' = <<>>)
    BY <1>3 DEF CtoP, CtoPMarker, CtoPFrame, CtoPControl, CtoPSwitch, PtoDControl, PtoDSwitch, SwitchCollator,
                DrainGiveUp, rings
  <2>2. /\ InK' \subseteq InK /\ InD' = InD /\ InF' = InF /\ InX' = InX
    BY <2>1 DEF InK, InD, InF, InX, ToSet, dtom, InHand
  <2> QED
    BY <1>1, <2>2 DEF Ahead
<1>4. CASE SwitchCalls
  <2>1. UNCHANGED <<codec, dtom, manifestor>>
    BY <1>4 DEF SwitchCalls
  <2>2. \A m \in InD' : m \in InD \/ ~IsBuffer(m)
    <3>1. DecodedFrameRing' = DecodedFrameRing
          \/ DecodedFrameRing' = Append(DecodedFrameRing, Item("SwitchOutputTimer", None, SwitchNumber))
      BY <1>4 DEF SwitchCalls
    <3>2. DecodedFrameRing \in Seq(DecodedItems)
      BY DEF TypeInv, Typed
    <3>3. CASE DecodedFrameRing' = Append(DecodedFrameRing, Item("SwitchOutputTimer", None, SwitchNumber))
      <4>1. InD' = InD \cup {Item("SwitchOutputTimer", None, SwitchNumber)}
        BY <3>2, <3>3, AppendAdds DEF InD
      <4> QED
        BY <4>1, CallsAreNoBuffers DEF AfterCalls
    <3> QED
      BY <3>1, <3>3 DEF InD, ToSet
  <2>3. \A m \in InR' : m \in InR \/ ~IsBuffer(m)
    <3>1. ManifestedBufferRing' = ManifestedBufferRing
          \/ ManifestedBufferRing' = Append(ManifestedBufferRing, Item("SwitchComplete", None, CompleteNumber))
      BY <1>4 DEF SwitchCalls
    <3>2. ManifestedBufferRing \in Seq(ManifestedItems)
      BY DEF TypeInv, Typed
    <3>3. CASE ManifestedBufferRing' = Append(ManifestedBufferRing, Item("SwitchComplete", None, CompleteNumber))
      <4>1. InR' = InR \cup {Item("SwitchComplete", None, CompleteNumber)}
        BY <3>2, <3>3, AppendAdds DEF InR
      <4> QED
        BY <4>1, CallsAreNoBuffers DEF BeforeCalls
    <3> QED
      BY <3>1, <3>3 DEF InR, ToSet
  <2>4. InK' = InK /\ InF' = InF
    BY <2>1 DEF InK, InF, ToSet, dtom, InHand
  <2>5. \A m \in InX' : m \in InX \/ ~IsBuffer(m)
    BY <2>1, <2>3 DEF InX, InR, ToSet, dtom, InHand
  <2> QED
    BY <1>1, <2>2, <2>4, <2>5 DEF Ahead
<1>5. CASE \/ Downstream \/ Entry \/ DrainInsert \/ Rest
           \/ \E policy \in Policies : DrainBegin(policy)
           \/ \E isReference \in BOOLEAN : Collate(isReference)
  BY <1>2, <1>5, FlowIs DEF TypeInv, Ranges
<1> QED
  BY <1>3, <1>4, <1>5 DEF Next, CtoP, PtoD, DtoMLoop, DtoMInHand, Drain, Downstream, Entry, Rest

\* What is past ParseToDecode is numbered.
LEMMA AheadNumbered ==
  ASSUME TypeInv
  PROVE  \A m \in Ahead : IsBuffer(m) => m.Value \in Nat
<1>1. /\ InK \subseteq CodedItems /\ InD \subseteq DecodedItems /\ ToSet(manifestor) \subseteq FrameItems
      /\ ToSet(ManifestedBufferRing) \subseteq ManifestedItems
  BY MembersOf DEF TypeInv, Typed, InK, InD
<1>2. /\ InH \subseteq FrameItems \cup MarkerItems /\ InF \subseteq MarkerItems
      /\ AccumulatedBufferTable \subseteq FrameItems /\ InHand(DtoMBuffer) \subseteq FrameItems
  BY DEF TypeInv, Typed, InH, InF, InHand
<1>3. Ahead \subseteq CodedItems \cup DecodedItems \cup ManifestedItems \cup FrameItems \cup MarkerItems
  BY <1>1, <1>2 DEF Ahead, InX
<1> QED
  BY <1>3 DEF CodedItems, DecodedItems, ManifestedItems, FrameItems, MarkerItems, DroppedItems, Others

\* While the codec's call is due ParseToDecode takes nothing of behind the marker.
LEMMA ExtractedBelow ==
  ASSUME TypeInv, Chain, Coming, NoneTwice, Underway, ToParse, Behind, PtoDExtract, CodecDue, NEW w \in Ends
  PROVE  Head(ParsedFrameRing).Value < w
<1> DEFINE P == ParsedFrameRing
           h == Head(P)
<1>1. /\ P \in Seq(ParsedItems) /\ P # <<>> /\ ~IsControl(h) /\ PtoDBuffer = Nothing
      /\ "PtoD" \notin switch.halted /\ h.Value \in Nat
  BY HeadsAre DEF TypeInv, Typed, PtoDExtract
<1>10. PICK v \in Nat : v = h.Value
  BY <1>1
<1>2. h = P[1] /\ Len(P) \in Nat \ {0} /\ h \in InP
  BY <1>1, TailIs DEF InP
<1>3. DOMAIN P = 1 .. Len(P) /\ \A m \in ToSet(P) : \E i \in 1 .. Len(P) : m = P[i]
  BY <1>1, MembersOf
<1>4. w \in Nat /\ NextBufferSequenceNumber \in Nat
  BY CallsAreNumbered
<1>5. v < NextBufferSequenceNumber
  BY <1>1, <1>2, <1>10 DEF Chain, ChainBelow, Everywhere
<1>6. CASE drain.pc \in {"parser", "codec class"}
  <2>1. ParserDue
    BY <1>6 DEF Underway, TimerDue
  <2>2. NextBufferSequenceNumber <= w
    BY <2>1 DEF Behind
  <2>3. v < w
    BY <1>4, <1>5, <2>2
  <2> QED
    BY <1>10, <2>3
<1>7. CASE \E s \in DOMAIN P : P[s].kind = "SwitchCodec"
  <2>1. PICK s \in DOMAIN P : P[s].kind = "SwitchCodec"
    BY <1>7
  <2>2. P[s] \in CodecCalls
    <3>1. P[s] \in ToSet(P)
      BY <2>1 DEF ToSet
    <3> QED
      BY <2>1, <3>1 DEF CodecCalls, CallsFor
  <2>3. w = P[s].Value + 1 /\ P[s].Value \in Nat
    BY <2>2, CallsAreNumbered DEF Behind
  <2>4. s \in Nat /\ s > 1
    <3>1. IsControl(P[s])
      BY <2>1 DEF IsControl, AfterCalls
    <3>2. s # 1
      BY <1>1, <1>2, <3>1
    <3> QED
      BY <1>3, <2>1, <3>2
  <2>5. v <= P[s].Value
    <3>1. 1 \in 1 .. s - 1
      BY <2>4
    <3> QED
      BY <1>2, <1>10, <2>1, <3>1 DEF ToParse
  <2>6. v < w
    BY <2>3, <2>5
  <2> QED
    BY <1>10, <2>6
<1>8. CASE \E m \in Accumulated["PtoD"] : m.kind = "SwitchCodec"
  <2>1. PICK m \in Accumulated["PtoD"] : m.kind = "SwitchCodec"
    BY <1>8
  <2>2. m \in CodecCalls
    BY <2>1 DEF CodecCalls, CallsFor
  <2>3. w = m.Value + 1 /\ m.Value \in Nat
    BY <2>2, CallsAreNumbered DEF Behind
  <2>4. Parsing(m.Value)
    BY <1>1, <2>1, NothingIs DEF ToParse
  <2>5. PICK o \in InC \cup InP : IsMarker(o) /\ o.Value = m.Value
    BY <2>4 DEF Parsing
  <2>6. CASE o \in InC
    <3>1. CollatedFrameRing \in Seq(CollatedItems)
      BY DEF TypeInv, Typed
    <3>2. PICK k \in 1 .. Len(CollatedFrameRing) : o = CollatedFrameRing[k]
      BY <2>6, <3>1, MembersOf DEF InC
    <3>3. k \in DOMAIN CollatedFrameRing /\ k \in Nat \ {0}
      BY <3>1, <3>2, MembersOf
    <3>4. NextBufferSequenceNumber + k - 1 <= m.Value
      BY <2>5, <3>2, <3>3 DEF Coming
    <3>5. v < w
      BY <1>4, <1>5, <2>3, <3>3, <3>4
    <3> QED
      BY <1>10, <3>5
  <2>7. CASE o \in InP
    <3>1. PICK i \in 1 .. Len(P) : o = P[i]
      BY <1>3, <2>7 DEF InP
    <3>2. ~IsControl(P[i])
      BY <2>5, <3>1 DEF IsMarker, IsControl, BeforeCalls, AfterCalls
    <3>3. i = 1 \/ h.Value < P[i].Value
      <4>1. i > 1 => 1 \in DOMAIN P /\ i \in DOMAIN P
        BY <1>2, <1>3
      <4> QED
        BY <1>1, <1>2, <3>1, <3>2, <4>1 DEF Chain, ChainRising, Rising
    <3>4. i = 1 => h.Value = m.Value
      BY <1>2, <2>5, <3>1
    <3>5. P[i].Value = m.Value
      BY <2>5, <3>1
    <3>6. v <= m.Value
      BY <1>10, <2>3, <3>3, <3>4, <3>5
    <3>7. v < w
      BY <2>3, <3>6
    <3> QED
      BY <1>10, <3>7
  <2> QED
    BY <2>5, <2>6, <2>7
<1>9. \/ drain.pc \in {"parser", "codec class"} \/ \E m \in Accumulated["PtoD"] : m.kind = "SwitchCodec"
      \/ \E s \in DOMAIN P : P[s].kind = "SwitchCodec"
  <2>1. CodecCalls # {} => \/ \E m \in Accumulated["PtoD"] : m.kind = "SwitchCodec"
                           \/ \E s \in DOMAIN P : P[s].kind = "SwitchCodec"
    BY <1>3 DEF CodecCalls, CallsFor
  <2> QED
    BY <1>1, <2>1 DEF CodecDue
<1> QED
  BY <1>6, <1>7, <1>8, <1>9

\* A step keeps the numbers of behind the marker back.
LEMMA BehindStep ==
  ASSUME TypeInv, Chain, Coming, CallOnce, NoneTwice, Underway, Exchanged, AtMarker, ToParse, Behind,
         MaxMessages >= 1, Next, ~drain'.failed
  PROVE  Behind'
<1>1. /\ SeenLast \in Nat /\ NextBufferSequenceNumber \in Nat /\ DrainSequenceNumber \in Nat /\ Ends \subseteq Nat
      /\ \A m \in ParserCalls \cup CodecCalls : m.Value \in Nat
  BY CallsAreNumbered
<1>2. SeenLast' \in Nat /\ NextBufferSequenceNumber' \in Nat
  BY TypeStep DEF TypeInv, Ranges, MessageRanges, SeenLast, Processes
<1>3. NextBufferSequenceNumber <= NextBufferSequenceNumber'
  BY NumbersBy
<1>4. \A m \in Ahead : IsBuffer(m) => m.Value \in Nat /\ m.Value < NextBufferSequenceNumber
  <2>1. \A m \in Ahead : IsBuffer(m) => m \in Everywhere /\ ~IsControl(m)
    BY DEF Ahead, Everywhere, IsBuffer, IsFrame, IsMarker, IsControl, BeforeCalls, AfterCalls
  <2> QED
    BY <2>1, AheadNumbered DEF Chain, ChainBelow
<1>5. SeenLast' = SeenLast \/ \E m \in Ahead : IsBuffer(m) /\ SeenLast' = m.Value
  <2>1. CASE PostMExtract
    <3>1. Head(ManifestedBufferRing) \in InX /\ Head(ManifestedBufferRing) \in ManifestedItems
      BY <2>1, SeenIs, HeadsAre DEF PostMExtract, TypeInv
    <3>2. ~IsControl(Head(ManifestedBufferRing)) => IsBuffer(Head(ManifestedBufferRing))
      BY <3>1, ManifestedIs DEF IsBuffer
    <3> QED
      BY <2>1, <3>1, <3>2, SeenIs DEF Ahead
  <2> QED
    BY <2>1, NumbersBy
<1>6. SeenLast' = 0 \/ SeenLast' < NextBufferSequenceNumber'
  <2>1. SeenLast = 0 \/ SeenLast < NextBufferSequenceNumber
    BY DEF Behind
  <2> QED
    BY <1>1, <1>2, <1>3, <1>4, <1>5, <2>1
<1>7. CallOnce' /\ NoneTwice' /\ Underway'
  BY PartsStep
<1>8. ASSUME NEW w \in Ends'
      PROVE  /\ w > 0
             /\ ParserDue' => NextBufferSequenceNumber' <= w
             /\ CodecDue' => SeenLast' < w /\ \A m \in Ahead' : IsBuffer(m) => m.Value < w
             /\ \A m \in ParserCalls' \cup CodecCalls' : w = m.Value + 1
  <2>1. CASE DrainInsert /\ drain'.switch /\ drain'.pc = "before" /\ w = DrainSequenceNumber + 1
    <3>1. ~ParserDue' /\ ~CodecDue'
      BY <1>7, <2>1 DEF Underway, Making
    <3>2. ParserCalls' = {} /\ CodecCalls' = {}
      BY <3>1 DEF ParserDue, CodecDue
    <3> QED
      BY <1>1, <2>1, <3>1, <3>2
  <2>2. CASE w \in Ends
    <3>1. w \in Nat /\ w > 0
      BY <1>1, <2>2 DEF Behind
    <3>2. drain.pc \in Making => drain.switch /\ w = DrainSequenceNumber + 1
      BY <2>2 DEF NoneTwice, Ends, Making, TypeInv, Exchanges
    <3>3. SwitchCollator /\ drain.switch /\ drain.pc = "collator" =>
            w = DrainSequenceNumber + 1 /\ NextBufferSequenceNumber <= w /\ ~ParserDue /\ ~CodecDue
      <4>1. ASSUME drain.switch, drain.pc = "collator"
            PROVE  w = DrainSequenceNumber + 1 /\ NextBufferSequenceNumber <= w /\ ~ParserDue /\ ~CodecDue
        <5>1. ~ParserDue /\ ~CodecDue /\ Completes = {}
          BY <4>1 DEF Underway, Making, CompleteDue
        <5>2. w = DrainSequenceNumber + 1
          BY <2>2, <5>1 DEF Ends
        <5>3. MarkerSent
          BY <4>1 DEF MarkerSent
        <5>4. NextBufferSequenceNumber <= DrainSequenceNumber + 1
          BY <1>1, <5>3, MarkerLimits
        <5> QED
          BY <5>1, <5>2, <5>4
      <4> QED
        BY <4>1
    <3>4. ParserDue' => NextBufferSequenceNumber' <= w
      <4>1. ASSUME ParserDue'
            PROVE  NextBufferSequenceNumber' <= w
        <5>1. CASE drain.switch /\ drain.pc = "collator" /\ SwitchCollator
          <6>1. UNCHANGED NextBufferSequenceNumber
            BY <5>1 DEF SwitchCollator
          <6> QED
            BY <3>3, <5>1, <6>1
        <5>2. CASE ParserDue
          <6>1. NextBufferSequenceNumber <= w
            BY <2>2, <5>2 DEF Behind
          <6>2. CASE UNCHANGED NextBufferSequenceNumber
            BY <6>1, <6>2
          <6>3. CASE CtoPMarker \/ CtoPFrame
            <7>1. drain.pc = "parser" \/ ParserCalls # {}
              BY <5>2, <6>3 DEF ParserDue, CtoPMarker, CtoPFrame
            <7>2. CASE drain.pc = "parser"
              <8>1. MarkerSent /\ w = DrainSequenceNumber + 1
                BY <3>2, <7>2 DEF MarkerSent, Making
              <8> QED
                BY <1>1, <6>3, <8>1, MarkerLimits
            <7>3. CASE ParserCalls # {}
              <8>1. PICK c \in ParserCalls : TRUE
                BY <7>3
              <8>2. c.Value \in Nat /\ w = c.Value + 1
                BY <1>1, <2>2, <8>1 DEF Behind
              <8>3. NextBufferSequenceNumber' <= c.Value + 1
                BY <6>3, <8>1, <8>2, MarkerLimits
              <8> QED
                BY <8>2, <8>3
            <7> QED
              BY <7>1, <7>2, <7>3
          <6> QED
            BY <6>2, <6>3, NumbersBy
        <5> QED
          BY <4>1, <5>1, <5>2, DueBy
      <4> QED
        BY <4>1
    <3>5. CodecDue' => SeenLast' < w /\ \A m \in Ahead' : IsBuffer(m) => m.Value < w
      <4>1. ASSUME CodecDue'
            PROVE  SeenLast' < w /\ \A m \in Ahead' : IsBuffer(m) => m.Value < w
        <5>1. SeenLast < w /\ \A m \in Ahead : IsBuffer(m) => m.Value < w
          <6>1. CASE CodecDue
            BY <2>2, <6>1 DEF Behind
          <6>2. CASE drain.switch /\ drain.pc = "collator" /\ SwitchCollator
            <7>1. NextBufferSequenceNumber <= w
              BY <3>3, <6>2
            <7>2. SeenLast = 0 \/ SeenLast < NextBufferSequenceNumber
              BY DEF Behind
            <7> QED
              BY <1>1, <1>4, <3>1, <7>1, <7>2
          <6> QED
            BY <4>1, <6>1, <6>2, DueBy
        <5>2. SeenLast' < w
          BY <1>5, <5>1
        <5>3. PtoDExtract => CodecDue
          <6>1. PtoDExtract => ~SwitchCollator
            BY DEF PtoDExtract, SwitchCollator, At, Go, drn, TypeInv, Ranges, DrainRanges
          <6> QED
            BY <4>1, <6>1, DueBy
        <5>4. PtoDExtract => Head(ParsedFrameRing).Value < w
          BY <2>2, <5>3, ExtractedBelow
        <5> QED
          BY <5>1, <5>2, <5>4, AheadBy
      <4> QED
        BY <4>1
    <3>6. ASSUME NEW m \in ParserCalls' \cup CodecCalls'
          PROVE  w = m.Value + 1
      <4>1. CASE m \in ParserCalls \cup CodecCalls
        BY <2>2, <4>1 DEF Behind
      <4>2. CASE drain.pc \in Making /\ m \in {Called("SwitchFrameParser"), Called("SwitchCodec")}
        <5>1. m.Value = DrainSequenceNumber
          BY <4>2 DEF Called, Item
        <5> QED
          BY <3>2, <4>2, <5>1
      <4> QED
        BY <3>6, <4>1, <4>2, DueBy DEF At, Making
    <3> QED
      BY <3>1, <3>4, <3>5, <3>6
  <2> QED
    BY <2>1, <2>2, EndsBy
<1> QED
  BY <1>6, <1>8 DEF Behind

-----------------------------------------------------------------------------
\* No switch whose drain was given up was begun, or all of it holds.
SwitchParts == CallOnce /\ NoneTwice /\ Underway /\ Exchanged /\ AtMarker /\ ToParse /\ Behind
SwitchInv   == DrainsEntered => SwitchParts

\* It holds of the initial states.
LEMMA SwitchInit == Init => SwitchInv
<1> SUFFICES ASSUME Init
             PROVE  SwitchParts
  BY DEF SwitchInv
<1>1. /\ CollatedFrameRing = <<>> /\ ParsedFrameRing = <<>> /\ DecodedFrameRing = <<>>
      /\ ManifestedBufferRing = <<>> /\ \A p \in Processes : Accumulated[p] = {}
      /\ drain.pc = "idle" /\ ~drain.switch /\ SeenLast = 0
      /\ switch.halted = {} /\ ~switch.InProgress /\ ~switch.LastOneOutOfTheCodec
      /\ switch.Collator = 0 /\ switch.FrameParser = 0 /\ switch.Codec = 0
  BY DEF Init, SeenLast, Processes
<1>2. /\ Accumulated["CtoP"] = {} /\ Accumulated["PtoD"] = {} /\ Accumulated["DtoM"] = {}
      /\ Accumulated["PostM"] = {}
  BY <1>1 DEF Processes
<1>3. DOMAIN <<>> = {} /\ ToSet(<<>>) = {}
  BY DEF ToSet
<1>4. ParserCalls = {} /\ CodecCalls = {} /\ TimerCalls = {} /\ Completes = {}
  BY <1>1, <1>2, <1>3 DEF ParserCalls, CodecCalls, TimerCalls, Completes, CallsFor
<1>5. CallOnce
  BY <1>1, <1>2, <1>3 DEF CallOnce, Once
<1>6. ~ParserDue /\ ~CodecDue /\ ~TimerDue /\ ~CompleteDue
  BY <1>1, <1>4 DEF ParserDue, CodecDue, TimerDue, CompleteDue, Making
<1>7. NoneTwice /\ Exchanged
  BY <1>1, <1>2, <1>4, <1>6 DEF NoneTwice, Exchanged, Making
<1>8. Underway
  BY <1>1, <1>6 DEF Underway
<1>9. AtMarker /\ ToParse
  BY <1>1, <1>2, <1>3 DEF AtMarker, ToParse, MarkerSent
<1>10. Behind
  BY <1>1, <1>4 DEF Behind, Ends, Switching
<1> QED
  BY <1>5, <1>7, <1>8, <1>9, <1>10 DEF SwitchParts

\* Every step keeps it.
LEMMA SwitchStep ==
  MaxMessages >= 1 => (TypeInv /\ Chain /\ Coming /\ SwitchInv /\ [Next]_vars => SwitchInv')
<1> SUFFICES ASSUME MaxMessages >= 1, TypeInv, Chain, Coming, SwitchInv, [Next]_vars, ~drain'.failed
             PROVE  SwitchParts'
  BY DEF SwitchInv, DrainsEntered
<1>1. CASE Next
  <2>1. SwitchParts
    BY <1>1, DrainWalks DEF SwitchInv, DrainsEntered
  <2>2. CallOnce' /\ NoneTwice' /\ Underway' /\ Exchanged'
    BY <1>1, <2>1, PartsStep DEF SwitchParts
  <2>3. AtMarker'
    BY <1>1, <2>1, AtMarkerStep DEF SwitchParts
  <2>4. ToParse'
    BY <1>1, <2>1, ToParseStep DEF SwitchParts
  <2>5. Behind'
    BY <1>1, <2>1, BehindStep DEF SwitchParts
  <2> QED
    BY <2>2, <2>3, <2>4, <2>5 DEF SwitchParts
<1>2. CASE UNCHANGED vars
  <2>1. SwitchParts
    BY <1>2 DEF vars, drn, SwitchInv, DrainsEntered
  <2>2. UNCHANGED <<CollatedFrameRing, ParsedFrameRing, DecodedFrameRing, ManifestedBufferRing, Accumulated,
                    drain, switch, NextBufferSequenceNumber, DrainSequenceNumber, PtoDBuffer,
                    MaximumActualSequenceNumberSeen, codec, dtom, manifestor>>
    BY <1>2 DEF vars, rings, drn, msgs
  <2>3. /\ ParserCalls' = ParserCalls /\ CodecCalls' = CodecCalls /\ TimerCalls' = TimerCalls
        /\ Completes' = Completes
    BY <2>2 DEF ParserCalls, CodecCalls, TimerCalls, Completes, CallsFor, ToSet
  <2>4. /\ (ParserDue' <=> ParserDue) /\ (CodecDue' <=> CodecDue) /\ (TimerDue' <=> TimerDue)
        /\ (CompleteDue' <=> CompleteDue)
    BY <2>2, <2>3 DEF ParserDue, CodecDue, TimerDue, CompleteDue
  <2>5. CallOnce'
    BY <2>1, <2>2 DEF SwitchParts, CallOnce, Once
  <2>6. NoneTwice' /\ Underway' /\ Exchanged'
    BY <2>1, <2>2, <2>3, <2>4 DEF SwitchParts, NoneTwice, Underway, Exchanged
  <2>7. AtMarker'
    BY <2>1, <2>2 DEF SwitchParts, AtMarker, MarkerSent
  <2>8. ToParse'
    <3>1. InC' = InC /\ InP' = InP /\ SeenBy("PtoD")' = SeenBy("PtoD") /\ (MarkerSent' <=> MarkerSent)
      BY <2>2 DEF InC, InP, ToSet, SeenBy, MarkerSent
    <3>2. ToParse
      BY <2>1 DEF SwitchParts
    <3>3. MarkerSent' \/ drain'.pc = "codec class" => Marked(DrainSequenceNumber)'
      BY <2>2, <3>1, <3>2 DEF ToParse, Marked, Parsing
    <3>4. \A s \in DOMAIN ParsedFrameRing' : ParsedFrameRing'[s].kind = "SwitchCodec" =>
            /\ ParsedFrameRing'[s].Value <= SeenBy("PtoD")'
               \/ \E m \in InC' \cup InP' : IsMarker(m) /\ m.Value = ParsedFrameRing'[s].Value
            /\ \A i \in 1 .. s - 1 : ParsedFrameRing'[i].Value <= ParsedFrameRing'[s].Value
      BY <2>2, <3>1, <3>2 DEF ToParse, Marked, Parsing
    <3>5. \A m \in Accumulated'["PtoD"] :
             (\E o \in InC' \cup InP' : IsMarker(o) /\ o.Value = m.Value)
             \/ (IsMarker(PtoDBuffer') /\ PtoDBuffer'.Value = m.Value)
      BY <2>2, <3>1, <3>2 DEF ToParse, Parsing
    <3> QED
      BY <3>3, <3>4, <3>5 DEF ToParse, Marked, Parsing
  <2>9. Behind'
    <3>1. Ahead' = Ahead /\ Ends' = Ends /\ SeenLast' = SeenLast
      BY <2>2, <2>3 DEF Ahead, Ends, Switching, SeenLast, InX, InF, InD, InK, InH, InHand, ToSet, dtom
    <3> QED
      BY <2>1, <2>2, <2>3, <2>4, <3>1 DEF SwitchParts, Behind
  <2> QED
    BY <2>5, <2>6, <2>7, <2>8, <2>9 DEF SwitchParts
<1> QED
  BY <1>1, <1>2

\* SwitchStream takes the next switch when SwitchComplete has run, and by then
\* parser and codec are those of the collator; until then neither is more than
\* one collator behind.  Of the drains that are begun none is given up, each
\* marker gets into the ring in time, and each process has room for one call.
THEOREM SwitchesExchange ==
  MaxMessages >= 1 => (Spec /\ []MarkerInTime => []SwitchedMeansExchanged)
<1> SUFFICES ASSUME MaxMessages >= 1
             PROVE  Spec /\ []MarkerInTime => []SwitchedMeansExchanged
  OBVIOUS
<1> DEFINE IInv == TypeInv /\ Chain /\ Coming /\ SwitchInv
<1>1. Init => IInv
  BY TypeInit, ChainInit, SwitchInit
<1>2. IInv /\ MarkerInTime /\ [Next]_vars => IInv'
  BY TypeStep, ChainStep, ComingStep, SwitchStep
<1>3. IInv => SwitchedMeansExchanged
  <2> SUFFICES ASSUME TypeInv, Underway, Exchanged
               PROVE  /\ ~switch.InProgress =>
                           switch.FrameParser = switch.Collator /\ switch.Codec = switch.Collator
                      /\ switch.FrameParser >= switch.Collator - 1 /\ switch.Codec >= switch.Collator - 1
    BY DEF SwitchInv, SwitchParts, SwitchedMeansExchanged
  <2>1. switch.Collator \in Int
    BY DEF TypeInv, Ranges, SwitchRanges
  <2>2. ~switch.InProgress => ~ParserDue /\ ~CodecDue
    BY DEF Underway
  <2> QED
    BY <2>1, <2>2 DEF Exchanged
<1> QED
  BY <1>1, <1>2, <1>3, PTL DEF Spec

-----------------------------------------------------------------------------
\* The parser's call comes later than the buffer at this place of the ring.
CallBehind(i) ==
  \/ drain.pc = "parser"
  \/ \E s \in DOMAIN CollatedFrameRing : i < s /\ CollatedFrameRing[s].kind = "SwitchFrameParser"
CollatedSides ==
  \A i \in DOMAIN CollatedFrameRing : IsFrame(CollatedFrameRing[i]) =>
    collatedBy[CollatedFrameRing[i].id] =
      IF CallBehind(i) THEN switch.Collator - 1 ELSE switch.Collator

\* What is parsed is of before the marker if its number is.
ParsedSides ==
  \A m \in InP \cup InH : IsFrame(m) =>
    /\ m.id <= collated
    /\ ~CodecDue => collatedBy[m.id] = switch.Collator
    /\ CodecDue => \A w \in Ends :
         collatedBy[m.id] = IF m.Value < w THEN switch.Collator - 1 ELSE switch.Collator

\* The parser is exchanged before numbers of behind the marker are given out,
\* and ParseToDecode has by the time it is halted taken all that are below.
InTurn ==
  /\ ParserDue \/ CodecDue => Ends # {}
  /\ "PtoD" \in switch.halted => PtoDBuffer = Nothing
  /\ \A w \in Ends :
       /\ ParserDue /\ NextBufferSequenceNumber < w => CodecDue /\ "PtoD" \notin switch.halted
       /\ "CtoP" \in switch.halted \/ (CodecDue /\ ~ParserDue) => w <= NextBufferSequenceNumber
       /\ "PtoD" \in switch.halted => \A m \in InP : IsFrame(m) => w <= m.Value

\* What ParseToDecode has seen is below what is still to come to it.
SeenFirst ==
  /\ SeenBy("PtoD") = 0 \/ SeenBy("PtoD") < NextBufferSequenceNumber
  /\ \A m \in InP : IsFrame(m) => SeenBy("PtoD") = 0 \/ SeenBy("PtoD") < m.Value

\* The number of a marker is not the first of all.
EndsLater ==
  /\ drain.pc = "insert" => DrainSequenceNumber > 0
  /\ \A w \in Ends : w > 1

OwnParts == CollatedSides /\ ParsedSides /\ InTurn /\ SeenFirst /\ EndsLater
OwnInv   == DrainsEntered => OwnParts

-----------------------------------------------------------------------------
\* Who makes frames, and who exchanges the collator.
LEMMA InputBy ==
  ASSUME TypeInv, Next
  PROVE  /\ \/ UNCHANGED <<collated, collatedBy>> /\ ~(\E isReference \in BOOLEAN : Collate(isReference))
            \/ /\ \E isReference \in BOOLEAN : Collate(isReference)
               /\ UNCHANGED switch /\ drain.pc # "parser"
               /\ collated' = collated + 1 /\ collated + 1 \in Frames
               /\ collatedBy' = [collatedBy EXCEPT ![collated + 1] = switch.Collator]
               /\ CollatedFrameRing' = Append(CollatedFrameRing, Item("frame", collated + 1, 0))
         /\ \/ switch'.Collator = switch.Collator /\ ~SwitchCollator
            \/ SwitchCollator /\ switch'.Collator = switch.Collator + 1
<1>1. CASE \E isReference \in BOOLEAN : Collate(isReference)
  <2>1. collated \in 0 .. MaxFrames /\ MaxFrames \in Nat /\ Frames = 1 .. MaxFrames
    BY Bounds DEF TypeInv, Ranges, InputRanges
  <2>2. collated < MaxFrames /\ collated' = collated + 1 /\ UNCHANGED <<switch, drn>> /\ ~InSwitchStream
        /\ collatedBy' = [collatedBy EXCEPT ![collated + 1] = switch.Collator]
        /\ CollatedFrameRing' = Append(CollatedFrameRing, Item("frame", collated + 1, 0))
    BY <1>1 DEF Collate
  <2>3. drain.pc # "parser"
    BY <2>2 DEF InSwitchStream, TypeInv, Exchanges
  <2>4. ~SwitchCollator
    BY <2>2 DEF SwitchCollator, At, Go, drn, TypeInv, Ranges, DrainRanges
  <2> QED
    BY <1>1, <2>1, <2>2, <2>3, <2>4
<1>2. CASE SwitchCollator
  <2>1. UNCHANGED input /\ switch'.Collator = switch.Collator + 1
    BY <1>2 DEF SwitchCollator, TypeInv, Ranges, SwitchRanges
  <2> QED
    BY <1>1, <1>2, <2>1 DEF input
<1>3. CASE ~SwitchCollator /\ ~(\E isReference \in BOOLEAN : Collate(isReference))
  <2>1. UNCHANGED input
    BY <1>3 DEF Next, DrainBegin, CtoP, CtoPMarker, CtoPFrame, CtoPControl, CtoPSwitch, PtoD, PtoDExtract,
      PtoDPass, PtoDDiscard, PtoDControl, PtoDSwitch, CodecOutput, DtoMLoop, DtoMSelect, DtoMMarker,
      DtoMExtract, DtoMTimeout, DtoMInHand, DtoMManifest, DtoMDiscard, Manifest, PostMExtract, Drain,
      DrainJump, DrainCodec, DrainRelease, DrainCheck, DrainNumber, DrainInsert, DrainCallBefore,
      DrainCallAfter, SwitchCalls, DrainReturn, DrainGiveUp
  <2>2. switch'.Collator = switch.Collator
    BY <1>3 DEF Next, DrainBegin, CtoP, CtoPMarker, CtoPFrame, CtoPControl, CtoPSwitch, PtoD, PtoDExtract,
      PtoDPass, PtoDDiscard, PtoDControl, PtoDSwitch, PtoDCallsAfter, CodecOutput, DtoMLoop, DtoMSelect,
      DtoMMarker, DtoMExtract, DtoMTimeout, DtoMInHand, DtoMManifest, DtoMDiscard, DtoMCallsAfter, LastOneOut,
      Manifest, PostMExtract, PostMCall, Drain, SwitchFrameParser,
      DrainJump, DrainCodec, DrainRelease, DrainCheck, DrainNumber, DrainInsert, DrainCallBefore,
      DrainCallAfter, SwitchCalls, DrainReturn, DrainGiveUp, TypeInv, Ranges, SwitchRanges
  <2> QED
    BY <1>3, <2>1, <2>2 DEF input
<1> QED
  BY <1>1, <1>2, <1>3

\* Parser and codec are due until they are exchanged.
LEMMA DueEnds ==
  ASSUME TypeInv, CallOnce, NoneTwice, AtMarker, MaxMessages >= 1, Next, ~drain'.failed
  PROVE  /\ ParserDue => ParserDue' \/ (CtoPSwitch /\ "CtoP" \in switch.halted)
         /\ CodecDue => CodecDue' \/ (PtoDSwitch /\ "PtoD" \in switch.halted)
         /\ "CtoP" \in switch'.halted => "CtoP" \in switch.halted \/ ParserHalts
         /\ "PtoD" \in switch'.halted => "PtoD" \in switch.halted \/ CodecHalts
         /\ SwitchCollator => ParserDue' /\ CodecDue'
<1>1. \A v : [switch EXCEPT !.halted = v].halted = v
  BY DEF TypeInv, Ranges, SwitchRanges
<1>2. /\ "CtoP" \in switch.halted => "CtoP" \in switch'.halted \/ CtoPSwitch
      /\ "PtoD" \in switch.halted => "PtoD" \in switch'.halted \/ PtoDSwitch
      /\ "CtoP" \in switch'.halted => "CtoP" \in switch.halted \/ ParserHalts
      /\ "PtoD" \in switch'.halted => "PtoD" \in switch.halted \/ CodecHalts
  <2>1. CASE ParserHalts
    BY <1>1, <2>1 DEF ParserHalts
  <2>2. CASE CodecHalts
    BY <1>1, <2>2 DEF CodecHalts
  <2>3. CASE TimerActs
    BY <2>3 DEF TimerActs, TimerRuns, TypeInv, Ranges, SwitchRanges
  <2>4. CASE CompleteActs
    BY <2>4 DEF CompleteActs, CompleteRuns, TypeInv, Ranges, SwitchRanges
  <2>5. CASE CtoPSwitch \/ PtoDSwitch \/ SwitchCollator
    BY <2>5 DEF CtoPSwitch, PtoDSwitch, SwitchCollator, TypeInv, Ranges, SwitchRanges
  <2>6. CASE UNCHANGED switch \/ SwitchCalls
    BY <2>6 DEF SwitchCalls
  <2> QED
    BY <2>1, <2>2, <2>3, <2>4, <2>5, <2>6, SwitchEffects DEF ParserCalled, CodecCalled, TimerCalled,
                                                            CompleteCalled
<1>3. /\ ParserCalls # {} => ParserCalls' # {} \/ ParserHalts
      /\ CodecCalls # {} => CodecCalls' # {} \/ CodecHalts
  BY SwitchEffects DEF AllKept, ParserHalts, CodecHalts, TimerActs, CompleteActs, ParserCalled,
                       CodecCalled, TimerCalled, CompleteCalled, ParserKept, CodecKept
<1>4. /\ ParserHalts => "CtoP" \in switch'.halted
      /\ CodecHalts => "PtoD" \in switch'.halted
  BY <1>1 DEF ParserHalts, CodecHalts
<1>5. drain.pc = "parser" => drain'.pc = "parser" \/ (SwitchCalls /\ At("parser"))
  BY DrainWalks DEF At
<1>6. drain.pc \in {"parser", "codec class"} =>
        drain'.pc \in {"parser", "codec class"} \/ (SwitchCalls /\ At("codec class"))
  BY DrainWalks DEF At
<1>7. /\ SwitchCalls /\ At("parser") => ParserCalls' # {}
      /\ SwitchCalls /\ At("codec class") => CodecCalls' # {}
  <2>1. ~(SwitchCalls /\ (CtoPControl \/ PtoDPass \/ PtoDDiscard \/ PtoDControl))
    BY SwitchCallsMove DEF CtoPControl, PtoDPass, PtoDDiscard, PtoDControl, drn
  <2>2. SwitchCalls /\ At("parser") => ParserCalls' # {}
    BY <2>1, ParserCallsStep
  <2>3. SwitchCalls /\ At("codec class") => CodecCalls' # {}
    BY <2>1, CodecCallsStep
  <2> QED
    BY <2>2, <2>3
<1>8. SwitchCollator => drain'.pc = "parser"
  BY DEF SwitchCollator, Go, TypeInv, Ranges, DrainRanges
<1> QED
  BY <1>2, <1>3, <1>4, <1>5, <1>6, <1>7, <1>8 DEF ParserDue, CodecDue

\* The completion of a switch that is asked for is there until it is run.
LEMMA CompletesStay ==
  ASSUME TypeInv, CallOnce, NoneTwice, Underway, MaxMessages >= 1, Next, Completes # {}
  PROVE  Completes' # {} \/ (PostMExtract /\ CompleteRuns)
<1> DEFINE R == ManifestedBufferRing
           held == Accumulated["PostM"]
<1>1. R \in Seq(ManifestedItems) /\ held \subseteq Others({"SetDrained", "SwitchComplete"})
  BY CallsOfIs DEF TypeInv, Typed, CallsTyped
<1>2. PICK c \in ToSet(R) \cup held : c.kind = "SwitchComplete"
  BY DEF Completes, CallsFor
<1>3. switch.InProgress
  BY DEF Underway, CompleteDue
<1>4. SUFFICES ASSUME c \notin ToSet(R') \cup Accumulated'["PostM"], ~(PostMExtract /\ CompleteRuns)
               PROVE  Completes' # {}
  BY <1>2 DEF Completes, CallsFor
<1>5. CASE ~PostMExtract
  <2>1. Accumulated'["PostM"] = held
    BY <1>5, AccumulatedBy
  <2>2. CASE UNCHANGED R
    BY <1>2, <1>4, <2>1, <2>2 DEF ToSet
  <2>3. ASSUME NEW e \in ManifestedItems, R' = Append(R, e)
        PROVE  FALSE
    BY <1>1, <1>2, <1>4, <2>1, <2>3, AppendIs
  <2>4. ASSUME NEW t \in Seq(ManifestedItems), \A m \in ToSet(t) : IsFrame(m), R' = R \o t
        PROVE  Completes' # {}
    <3>1. CallsFor(R', held, "SwitchComplete") = CallsFor(R, held, "SwitchComplete")
      BY <1>1, <2>4, FramesAreNoCalls DEF CallOnce
    <3> QED
      BY <2>1, <3>1 DEF Completes
  <2>5. SwitchCalls /\ At("complete") => Completes' # {}
    BY <1>5, CompletesStep
  <2> QED
    BY <1>4, <1>5, <2>2, <2>3, <2>4, <2>5, ManifestedBy
<1>6. SUFFICES ASSUME PostMExtract
               PROVE  Completes' # {}
  BY <1>5
<1>7. UNCHANGED switch
  <2>1. ~SwitchCalls
    BY <1>6, SwitchCallsMove DEF PostMExtract
  <2> QED
    BY <1>4, <1>6, <2>1, CompletesStep
<1>8. R # <<>> /\ R' = Tail(R)
  BY <1>6 DEF PostMExtract
<1>9. \A calls : PostMCall(calls) => \A m \in calls : m.kind # "SwitchComplete"
  BY <1>3, <1>7 DEF PostMCall, TypeInv, Ranges, SwitchRanges
<1> DEFINE m == Head(R)
           due == Due("PostM", m.Value, BeforeCalls \cup AfterCalls)
<1>10. CASE ~IsControl(m) /\ Accumulated' = [Accumulated EXCEPT !["PostM"] = @ \ due] /\ PostMCall(due)
  <2>1. m # c /\ c \notin due
    BY <1>2, <1>9, <1>10 DEF IsControl, BeforeCalls
  <2>2. Accumulated'["PostM"] = held \ due
    BY <1>10, ActedIs, CallsOfIs DEF TypeInv
  <2> QED
    BY <1>1, <1>2, <1>4, <1>8, <2>1, <2>2, TailIs
<1>11. CASE PostMCall({m}) /\ UNCHANGED Accumulated
  <2>1. m # c
    BY <1>2, <1>9, <1>11
  <2> QED
    BY <1>1, <1>2, <1>4, <1>8, <1>11, <2>1, TailIs
<1>12. CASE IsControl(m) /\ Accumulate("PostM", m)
  <2>1. Accumulated'["PostM"] \in {held, held \cup {m}}
    BY <1>12, AccumulatedIs, CallsOfIs DEF TypeInv
  <2>2. c = m
    BY <1>1, <1>2, <1>4, <1>8, <2>1, TailIs
  <2>3. \A o \in held : o.kind # "SwitchComplete"
    <3>1. m = R[1] /\ 1 \in DOMAIN R
      BY <1>1, <1>8, TailIs, MembersOf
    <3> QED
      BY <1>2, <2>2, <3>1 DEF CallOnce, Once
  <2> DEFINE table == {o \in held : o.kind \in AfterCalls <=> m.kind \in AfterCalls}
  <2>4. table = {}
    <3>1. \A o \in held : o.kind \in AfterCalls
      BY <1>1, <2>3 DEF Others, AfterCalls
    <3>2. m.kind \notin AfterCalls
      BY <1>2, <2>2 DEF AfterCalls
    <3> QED
      BY <3>1, <3>2
  <2>5. Cardinality(table) # MaxMessages
    <3>1. Cardinality(table) = 0
      BY <2>4, FS_EmptySet
    <3>2. MaxMessages \in Nat
      BY PipelineAssumption
    <3> QED
      BY <3>1, <3>2
  <2>6. Accumulated' = [Accumulated EXCEPT !["PostM"] = @ \cup {m}]
    BY <1>12, <2>5 DEF Accumulate
  <2>7. m \in Accumulated'["PostM"]
    BY <2>6, CallsOfIs DEF TypeInv, CallsTyped
  <2> QED
    BY <1>2, <1>4, <2>2, <2>7
<1> QED
  BY <1>6, <1>10, <1>11, <1>12 DEF PostMExtract

\* While anything of a switch is due there is the number of its end.
LEMMA EndsStay ==
  ASSUME TypeInv, Chain, CallOnce, NoneTwice, Underway, AtMarker, Behind, MaxMessages >= 1, Next, ~drain'.failed,
         ParserDue \/ CodecDue => Ends # {}, ParserDue' \/ CodecDue'
  PROVE  Ends' # {}
<1>1. CASE SwitchCollator
  <2>1. drain'.pc = "parser" /\ drain.pc = "collator" /\ drain'.switch = drain.switch
    BY <1>1 DEF SwitchCollator, At, Go, TypeInv, Ranges, DrainRanges
  <2>2. Switching'
    BY <2>1 DEF Switching, Making, TypeInv, Exchanges
  <2> QED
    BY <2>2 DEF Ends
<1>2. CASE ~SwitchCollator
  <2>1. ParserDue \/ CodecDue
    BY <1>2, DueBy
  <2>2. CASE Switching
    <3>1. Switching' \/ (SwitchCalls /\ At("complete"))
      BY <2>2, DrainWalks DEF Switching, Making, At
    <3>2. SwitchCalls /\ At("complete") => Completes' # {}
      <4>1. SwitchCalls => ~PostMExtract
        BY SwitchCallsMove DEF PostMExtract
      <4> QED
        BY <4>1, CompletesStep
    <3> QED
      BY <3>1, <3>2 DEF Ends
  <2>3. CASE ~Switching
    <3>1. Completes # {}
      BY <2>1, <2>3 DEF Ends
    <3>2. ~(PostMExtract /\ CompleteRuns)
      BY <2>1, CompletedLast
    <3> QED
      BY <3>1, <3>2, CompletesStay DEF Ends
  <2> QED
    BY <2>2, <2>3
<1> QED
  BY <1>1, <1>2

\* When ParseToDecode is halted it has taken everything of before the marker.
LEMMA CodecHaltsBehind ==
  ASSUME TypeInv, Chain, NoneTwice, Behind, SeenFirst, EndsLater, CodecHalts, NEW w \in Ends
  PROVE  /\ w <= NextBufferSequenceNumber /\ PtoDBuffer' = Nothing
         /\ \A m \in InP' : m \in InP /\ (IsFrame(m) => w <= m.Value)
<1>1. /\ w \in Nat /\ NextBufferSequenceNumber \in Nat /\ \A c \in CodecCalls : c.Value \in Nat /\ w = c.Value + 1
      /\ \A m \in InP \cup InH : m.Value \in Nat
  BY CallsAreNumbered, Numbers DEF Behind, TypeInv, Everywhere
<1>2. Accumulated["PtoD"] \in SUBSET Others({"SwitchCodec"}) /\ ParsedFrameRing \in Seq(ParsedItems)
      /\ "PtoD" \in Processes
  BY CallsOfIs DEF TypeInv, Typed, CallsTyped
<1>3. \A m : IsFrame(m) => ~IsControl(m)
  BY DEF IsFrame, IsControl, BeforeCalls, AfterCalls
<1>4. CASE PtoDPass \/ PtoDDiscard
  <2>1. PtoDBuffer # Nothing /\ UNCHANGED ParsedFrameRing /\ PtoDBuffer' = Nothing /\ PtoDCallsAfter
    BY <1>4 DEF PtoDPass, PtoDDiscard, rings
  <2> DEFINE due == Due("PtoD", PtoDBuffer.Value, AfterCalls)
  <2>2. Accumulated'["PtoD"] = Accumulated["PtoD"] \ due
    BY <1>2, <2>1, ActedIs DEF PtoDCallsAfter, TypeInv
  <2>3. PICK c \in CodecCalls : c \notin CodecCalls'
    BY DEF CodecHalts
  <2>4. c \in due
    BY <2>1, <2>2, <2>3 DEF CodecCalls, CallsFor, ToSet
  <2>5. c.Value <= PtoDBuffer.Value
    BY <2>4 DEF Due
  <2>6. PtoDBuffer \in InH /\ ~IsControl(PtoDBuffer) /\ PtoDBuffer \in Everywhere
    BY <2>1, Numbers DEF TypeInv, InH, InHand, Everywhere
  <2>7. PtoDBuffer.Value < NextBufferSequenceNumber
    BY <2>6 DEF Chain, ChainBelow
  <2>8. \A m \in InP : IsFrame(m) => PtoDBuffer.Value < m.Value
    BY <1>3, <2>6 DEF Chain, ChainLess, Less
  <2>9. InP' = InP
    BY <2>1 DEF InP, ToSet
  <2>10. PtoDBuffer.Value \in Nat
    BY <1>1, <2>6
  <2>11. w <= NextBufferSequenceNumber
    BY <1>1, <2>3, <2>5, <2>7, <2>10
  <2>12. \A m \in InP : IsFrame(m) => w <= m.Value
    BY <1>1, <2>3, <2>5, <2>8, <2>10
  <2> QED
    BY <2>1, <2>9, <2>11, <2>12
<1>5. CASE PtoDControl
  <2> DEFINE h == Head(ParsedFrameRing)
  <2>1. /\ "PtoD" \notin switch.halted /\ UNCHANGED PtoDBuffer /\ PtoDBuffer = Nothing
        /\ ParsedFrameRing # <<>> /\ IsControl(h) /\ ParsedFrameRing' = Tail(ParsedFrameRing)
    BY <1>5 DEF PtoDControl
  <2>2. "PtoD" \in switch'.halted
    BY DEF CodecHalts, TypeInv, Ranges, SwitchRanges
  <2>3. h.Value <= SeenBy("PtoD")
    BY <1>5, <2>1, <2>2 DEF PtoDControl, Reached, SeenBy
  <2>4. h \in CodecCalls
    <3>1. h \in ToSet(ParsedFrameRing) /\ h \in ParsedItems
      BY <1>2, <2>1, TailIs
    <3>2. h.kind = "SwitchCodec"
      BY <2>1, <3>1, ParsedIs DEF Others
    <3> QED
      BY <3>1, <3>2 DEF CodecCalls, CallsFor
  <2>5. SeenBy("PtoD") \in Nat /\ w > 1
    BY <1>2 DEF EndsLater, SeenBy, TypeInv, Ranges, MessageRanges
  <2>6. w = h.Value + 1 /\ h.Value \in Nat
    BY <1>1, <2>4
  <2>7. SeenBy("PtoD") # 0
    BY <2>3, <2>5, <2>6
  <2>8. InP' \subseteq InP
    BY <1>2, <2>1, TailIs DEF InP
  <2>9. w <= NextBufferSequenceNumber
    BY <1>1, <2>3, <2>5, <2>6, <2>7 DEF SeenFirst
  <2>10. \A m \in InP : IsFrame(m) => w <= m.Value
    BY <1>1, <2>3, <2>5, <2>6, <2>7 DEF SeenFirst
  <2> QED
    BY <2>1, <2>8, <2>9, <2>10
<1> QED
  BY <1>4, <1>5 DEF CodecHalts

\* A frame that CollateToParse takes has the parser's call behind it if there
\* is one, and then its number is of before the marker.
LEMMA HeadSide ==
  ASSUME TypeInv, Coming, NoneTwice, AtMarker, Behind, CollatedSides, CtoPFrame
  PROVE  /\ IsFrame(Head(CollatedFrameRing)) =>
              collatedBy[Head(CollatedFrameRing).id] =
                IF ParserDue THEN switch.Collator - 1 ELSE switch.Collator
         /\ ParserDue => \A w \in Ends : NextBufferSequenceNumber < w
<1> DEFINE C == CollatedFrameRing
           h == Head(C)
<1>1. /\ C # <<>> /\ "CtoP" \notin switch.halted /\ C \in Seq(CollatedItems)
      /\ NextBufferSequenceNumber' = NextBufferSequenceNumber + 1
  BY DEF CtoPFrame, TypeInv, Typed
<1>2. h = C[1] /\ h \in CollatedItems /\ DOMAIN C = 1 .. Len(C) /\ Len(C) \in Nat \ {0}
  BY <1>1, TailIs, MembersOf
<1>3. ~IsControl(h)
  BY <1>2 DEF CtoPFrame, IsControl, CollatedItems, FrameItems, MarkerItems, Others
<1>4. CallBehind(1) <=> ParserDue
  <2>1. ASSUME NEW s \in DOMAIN C, C[s].kind = "SwitchFrameParser"
        PROVE  1 < s
    <3>1. IsControl(C[s])
      BY <2>1 DEF IsControl, AfterCalls
    <3> QED
      BY <1>2, <1>3, <3>1
  <2>2. ParserCalls # {} <=> \E s \in DOMAIN C : C[s].kind = "SwitchFrameParser"
    BY <1>1, MembersOf DEF ParserCalls, CallsFor
  <2> QED
    BY <1>1, <2>1, <2>2 DEF CallBehind, ParserDue
<1>5. ASSUME ParserDue, NEW w \in Ends
      PROVE  NextBufferSequenceNumber < w
  <2>1. w \in Nat /\ NextBufferSequenceNumber \in Nat /\ DrainSequenceNumber \in Nat
        /\ \A c \in ParserCalls : c.Value \in Nat
    BY CallsAreNumbered
  <2>2. CASE drain.pc = "parser"
    <3>1. MarkerSent /\ Completes = {}
      BY <2>2 DEF MarkerSent, TypeInv, Exchanges, NoneTwice, Making
    <3>2. w = DrainSequenceNumber + 1
      BY <3>1 DEF Ends
    <3>3. Next
      BY DEF Next, CtoP
    <3>4. NextBufferSequenceNumber' <= DrainSequenceNumber + 1
      BY <2>1, <3>1, <3>3, MarkerLimits
    <3> QED
      BY <1>1, <2>1, <3>2, <3>4
  <2>3. CASE ParserCalls # {}
    <3>1. PICK c \in ParserCalls : TRUE
      BY <2>3
    <3>2. w = c.Value + 1 /\ c.Value \in Nat
      BY <2>1, <3>1 DEF Behind
    <3>3. Next
      BY DEF Next, CtoP
    <3>4. NextBufferSequenceNumber' <= c.Value + 1
      BY <3>1, <3>2, <3>3, MarkerLimits
    <3> QED
      BY <1>1, <2>1, <3>2, <3>4
  <2> QED
    BY <1>1, <1>5, <2>2, <2>3 DEF ParserDue
<1>6. 1 \in DOMAIN C
  BY <1>2
<1> QED
  BY <1>2, <1>4, <1>5, <1>6 DEF CollatedSides

\* What is parsed and not decoded was so before, or CollateToParse has just
\* given it its number.
LEMMA NewlyParsed ==
  ASSUME TypeInv, Next, NEW m \in InP' \cup InH', IsFrame(m)
  PROVE  \/ m \in InP \cup InH /\ (m \in InP' => m \in InP)
         \/ /\ CtoPFrame /\ m = [Head(CollatedFrameRing) EXCEPT !.Value = NextBufferSequenceNumber]
            /\ m \in InP' /\ m.Value = NextBufferSequenceNumber /\ IsFrame(Head(CollatedFrameRing))
            /\ m.id = Head(CollatedFrameRing).id /\ Head(CollatedFrameRing).id \in Frames
<1> DEFINE P == ParsedFrameRing
<1>1. P \in Seq(ParsedItems)
  BY DEF TypeInv, Typed
<1>2. m \in InH' => m \in InH \/ (PtoDExtract /\ m \in InP)
  <2>1. PtoDExtract => PtoDBuffer' = Head(P) /\ Head(P) \in InP
    BY <1>1, TailIs DEF PtoDExtract, InP
  <2>2. PtoDPass \/ PtoDDiscard => PtoDBuffer' = Nothing
    BY DEF PtoDPass, PtoDDiscard
  <2> QED
    BY <2>1, <2>2, BufferBy DEF InH, InHand
<1>3. SUFFICES ASSUME m \in InP'
               PROVE  \/ m \in InP
                      \/ /\ CtoPFrame
                         /\ m = [Head(CollatedFrameRing) EXCEPT !.Value = NextBufferSequenceNumber]
                         /\ m.Value = NextBufferSequenceNumber /\ IsFrame(Head(CollatedFrameRing))
                         /\ m.id = Head(CollatedFrameRing).id /\ Head(CollatedFrameRing).id \in Frames
  BY <1>2
<1>4. CASE UNCHANGED P
  BY <1>3, <1>4 DEF InP, ToSet
<1>5. CASE CtoPMarker
  <2>1. P' = Append(P, Head(CollatedFrameRing)) /\ IsMarker(Head(CollatedFrameRing))
        /\ Head(CollatedFrameRing) \in CollatedItems
    BY <1>5, HeadsAre DEF CtoPMarker, TypeInv
  <2>2. Head(CollatedFrameRing) \in ParsedItems /\ ~IsFrame(Head(CollatedFrameRing))
    BY <2>1, CollatedIs, ItemSets, MarkerIs
  <2>3. ToSet(P') = ToSet(P) \cup {Head(CollatedFrameRing)}
    BY <1>1, <2>1, <2>2, AppendIs
  <2> QED
    BY <1>3, <2>2, <2>3 DEF InP
<1>6. CASE CtoPFrame
  <2> DEFINE h == Head(CollatedFrameRing)
             n == [h EXCEPT !.Value = NextBufferSequenceNumber]
  <2>1. P' = P \/ (IsFrame(n) /\ P' = Append(P, n))
    BY <1>6 DEF CtoPFrame
  <2>2. h \in CollatedItems /\ NextBufferSequenceNumber \in Nat
    BY <1>6, HeadsAre DEF CtoPFrame, TypeInv, Ranges, MessageRanges
  <2>3. IsFrame(n) => IsFrame(h)
    BY <2>2 DEF IsFrame, CollatedItems, FrameItems, MarkerItems, Others
  <2>4. IsFrame(n) => n \in FrameItems /\ n.Value = NextBufferSequenceNumber /\ n.id = h.id /\ h.id \in Frames
    BY <2>2, <2>3, CollatedIs, FrameIs
  <2>5. IsFrame(n) /\ P' = Append(P, n) => ToSet(P') = ToSet(P) \cup {n}
    BY <1>1, <2>4, ItemSets, AppendIs
  <2> HIDE DEF n
  <2>6. m \in InP \/ (IsFrame(n) /\ m = n)
    BY <1>3, <2>1, <2>5 DEF InP, ToSet
  <2> QED
    BY <1>6, <2>3, <2>4, <2>6 DEF n
<1>7. CASE PtoDExtract \/ PtoDControl
  <2>1. P # <<>> /\ P' = Tail(P)
    BY <1>7 DEF PtoDExtract, PtoDControl
  <2> QED
    BY <1>1, <1>3, <2>1, TailIs DEF InP
<1>8. CASE SwitchCalls /\ At("codec class")
  <2>1. P' = P \/ P' = Append(P, Item("SwitchCodec", None, SwitchNumber))
    BY <1>8 DEF SwitchCalls
  <2>2. Item("SwitchCodec", None, SwitchNumber) \in ParsedItems
        /\ ~IsFrame(Item("SwitchCodec", None, SwitchNumber))
    <3>1. SwitchNumber \in Nat
      BY DEF SwitchNumber, TypeInv, Ranges, MessageRanges
    <3> QED
      BY <3>1, MadeItems, ItemSets DEF AfterCalls, IsFrame, Item
  <2>3. P' = Append(P, Item("SwitchCodec", None, SwitchNumber)) =>
          ToSet(P') = ToSet(P) \cup {Item("SwitchCodec", None, SwitchNumber)}
    BY <1>1, <2>2, AppendIs
  <2> QED
    BY <1>3, <2>1, <2>2, <2>3 DEF InP, ToSet
<1> QED
  BY <1>4, <1>5, <1>6, <1>7, <1>8, ParsedBy

\* The frames in the ring of collation stay on their side of the parser's call.
LEMMA CollatedSidesStep ==
  ASSUME TypeInv, CallOnce, NoneTwice, Underway, AtMarker, MaxMessages >= 1, Next, ~drain'.failed, CollatedSides
  PROVE  CollatedSides'
<1> DEFINE C == CollatedFrameRing
<1>1. C \in Seq(CollatedItems) /\ DOMAIN C = 1 .. Len(C) /\ Len(C) \in Nat
  BY MembersOf DEF TypeInv, Typed
<1>2. \A i \in DOMAIN C : IsFrame(C[i]) => C[i].id \in 1 .. collated /\ C[i].id \in Frames
  <2> SUFFICES ASSUME NEW i \in DOMAIN C, IsFrame(C[i])
               PROVE  C[i].id \in 1 .. collated /\ C[i].id \in Frames
    OBVIOUS
  <2>1. C[i] \in FrameItems
    BY <1>1, CollatedIs, MembersOf
  <2>2. C[i].id \in Nat /\ C[i].id > 0 /\ C[i].id \in Frames
    BY <2>1, FrameId, FrameIs
  <2> QED
    BY <2>2 DEF TypeInv, InputOrder, Ranges, InputRanges
<1>3. CASE \E isReference \in BOOLEAN : Collate(isReference)
  <2> DEFINE e == Item("frame", collated + 1, 0)
  <2>1. /\ drain.pc # "parser" /\ UNCHANGED switch /\ drain' = drain
        /\ collated + 1 \in Frames /\ C' = Append(C, e)
        /\ collatedBy' = [collatedBy EXCEPT ![collated + 1] = switch.Collator]
    BY <1>3, InputBy DEF Collate, drn
  <2>2. e \in CollatedItems /\ IsFrame(e) /\ e.id = collated + 1 /\ e.kind # "SwitchFrameParser"
    BY <2>1, MadeItems, ItemSets DEF IsFrame, Item
  <2>3. DOMAIN C' = 1 .. Len(C) + 1 /\ (\A i \in 1 .. Len(C) : C'[i] = C[i]) /\ C'[Len(C) + 1] = e
    BY <1>1, <2>1, <2>2, AppendIs, MembersOf
  <2>4. collatedBy \in [Frames -> 0 .. MaxDrains] /\ collated \in Nat
    BY DEF TypeInv, Ranges, InputRanges
  <2>5. collatedBy'[collated + 1] = switch.Collator
        /\ \A f \in Frames : f # collated + 1 => collatedBy'[f] = collatedBy[f]
    BY <2>1, <2>4
  <2> HIDE DEF e
  <2>6. ASSUME NEW i \in DOMAIN C', IsFrame(C'[i])
        PROVE  collatedBy'[C'[i].id] = IF CallBehind(i)' THEN switch'.Collator - 1 ELSE switch'.Collator
    <3>1. CallBehind(i)' <=> \E s \in DOMAIN C' : i < s /\ C'[s].kind = "SwitchFrameParser"
      BY <2>1 DEF CallBehind
    <3>2. CASE i \in 1 .. Len(C)
      <4>1. CallBehind(i)' <=> CallBehind(i)
        BY <1>1, <2>1, <2>2, <2>3, <3>1 DEF CallBehind
      <4>2. C[i].id # collated + 1 /\ C[i].id \in Frames /\ IsFrame(C[i]) /\ C'[i] = C[i]
        BY <1>1, <1>2, <2>3, <2>4, <2>6, <3>2
      <4> QED
        BY <1>1, <2>1, <2>5, <3>2, <4>1, <4>2 DEF CollatedSides
    <3>3. CASE i = Len(C) + 1
      <4>1. ~CallBehind(i)'
        BY <1>1, <2>3, <3>1, <3>3
      <4> QED
        BY <2>1, <2>2, <2>3, <2>5, <3>3, <4>1
    <3> QED
      BY <1>1, <2>3, <3>2, <3>3
  <2> QED
    BY <2>6 DEF CollatedSides
<1>4. CASE SwitchCollator
  <2>1. drain.pc = "collator" /\ drain'.pc = "parser" /\ UNCHANGED <<C, collatedBy>>
    BY <1>4 DEF SwitchCollator, At, Go, TypeInv, Ranges, DrainRanges, rings, input
  <2>2. drain.switch /\ ~ParserDue
    BY <2>1 DEF TypeInv, Exchanges, Underway, Making
  <2>3. \A i \in DOMAIN C : ~CallBehind(i)
    BY <1>1, <2>1, <2>2, MembersOf DEF CallBehind, ParserDue, ParserCalls, CallsFor
  <2>4. switch'.Collator = switch.Collator + 1 /\ switch.Collator \in Int
    BY <1>4, InputBy DEF TypeInv, Ranges, SwitchRanges
  <2>5. \A i \in DOMAIN C : CallBehind(i)'
    BY <2>1 DEF CallBehind
  <2> QED
    BY <2>1, <2>3, <2>4, <2>5 DEF CollatedSides
<1>5. CASE ~(\E isReference \in BOOLEAN : Collate(isReference)) /\ ~SwitchCollator
  <2>1. UNCHANGED collatedBy /\ switch'.Collator = switch.Collator
    BY <1>5, InputBy
  <2>2. drain'.pc = "parser" => drain.pc = "parser"
    BY <1>5, DrainWalks
  <2>3. CASE SwitchCalls /\ At("parser")
    <3> DEFINE e == Called("SwitchFrameParser")
    <3>1. C' = Append(C, e)
      <4>1. ~CtoPControl
        BY <2>3, SwitchCallsMove DEF CtoPControl, drn
      <4> QED
        BY <2>3, <4>1, ParserCallsStep
    <3>2. e \in CollatedItems /\ e.kind = "SwitchFrameParser" /\ ~IsFrame(e)
      <4>1. DrainSequenceNumber \in Nat
        BY CallsAreNumbered
      <4> QED
        BY <4>1, MadeItems, ItemSets DEF Called, Item, AfterCalls, IsFrame
    <3>3. DOMAIN C' = 1 .. Len(C) + 1 /\ (\A i \in 1 .. Len(C) : C'[i] = C[i]) /\ C'[Len(C) + 1] = e
      BY <1>1, <3>1, <3>2, AppendIs, MembersOf
    <3> HIDE DEF e
    <3>4. ASSUME NEW i \in DOMAIN C', IsFrame(C'[i])
          PROVE  collatedBy'[C'[i].id] = IF CallBehind(i)' THEN switch'.Collator - 1 ELSE switch'.Collator
      <4>1. i \in 1 .. Len(C) /\ C'[i] = C[i]
        BY <1>1, <3>2, <3>3, <3>4
      <4>2. CallBehind(i)
        BY <2>3 DEF CallBehind, At
      <4>3. Len(C) + 1 \in DOMAIN C' /\ i < Len(C) + 1
        BY <1>1, <3>3, <4>1
      <4>4. CallBehind(i)'
        BY <3>2, <3>3, <4>3 DEF CallBehind
      <4> QED
        BY <1>1, <2>1, <3>4, <4>1, <4>2, <4>4 DEF CollatedSides
    <3> QED
      BY <3>4 DEF CollatedSides
  <2>4. CASE ~(SwitchCalls /\ At("parser"))
    <3>1. drain'.pc = "parser" <=> drain.pc = "parser"
      BY <2>2, <2>4, DrainWalks DEF At
    <3>2. CASE UNCHANGED C
      BY <2>1, <3>1, <3>2 DEF CollatedSides, CallBehind
    <3>3. CASE C # <<>> /\ C' = Tail(C)
      <4>1. DOMAIN C' = 1 .. Len(C) - 1 /\ \A i \in 1 .. Len(C) - 1 : C'[i] = C[i + 1]
        BY <1>1, <3>3, TailIs, MembersOf
      <4>2. ASSUME NEW i \in DOMAIN C'
            PROVE  i + 1 \in DOMAIN C /\ C'[i] = C[i + 1] /\ (CallBehind(i)' <=> CallBehind(i + 1))
        <5>1. i + 1 \in DOMAIN C /\ C'[i] = C[i + 1] /\ i \in Nat
          BY <1>1, <4>1
        <5>2. ASSUME NEW s \in DOMAIN C', i < s, C'[s].kind = "SwitchFrameParser"
              PROVE  \E t \in DOMAIN C : i + 1 < t /\ C[t].kind = "SwitchFrameParser"
          <6>1. s + 1 \in DOMAIN C /\ i + 1 < s + 1 /\ C[s + 1].kind = "SwitchFrameParser"
            BY <1>1, <4>1, <5>1, <5>2
          <6> QED
            BY <6>1
        <5>3. ASSUME NEW s \in DOMAIN C, i + 1 < s, C[s].kind = "SwitchFrameParser"
              PROVE  \E t \in DOMAIN C' : i < t /\ C'[t].kind = "SwitchFrameParser"
          <6>1. s - 1 \in DOMAIN C' /\ i < s - 1 /\ C'[s - 1].kind = "SwitchFrameParser"
            BY <1>1, <4>1, <5>1, <5>3
          <6> QED
            BY <6>1
        <5> QED
          BY <3>1, <5>1, <5>2, <5>3 DEF CallBehind
      <4> QED
        BY <2>1, <4>2 DEF CollatedSides
    <3>4. ASSUME NEW e \in CollatedItems, ~IsFrame(e), e.kind # "SwitchFrameParser", C' = Append(C, e)
          PROVE  CollatedSides'
      <4>1. DOMAIN C' = 1 .. Len(C) + 1 /\ (\A i \in 1 .. Len(C) : C'[i] = C[i]) /\ C'[Len(C) + 1] = e
        BY <1>1, <3>4, AppendIs, MembersOf
      <4>2. ASSUME NEW i \in DOMAIN C', IsFrame(C'[i])
            PROVE  collatedBy'[C'[i].id] = IF CallBehind(i)' THEN switch'.Collator - 1 ELSE switch'.Collator
        <5>1. i \in DOMAIN C /\ C'[i] = C[i]
          BY <1>1, <3>4, <4>1, <4>2
        <5>2. CallBehind(i)' <=> CallBehind(i)
          BY <1>1, <3>1, <3>4, <4>1 DEF CallBehind
        <5> QED
          BY <2>1, <4>2, <5>1, <5>2 DEF CollatedSides
      <4> QED
        BY <4>2 DEF CollatedSides
    <3>5. DrainJump => \E e \in CollatedItems : ~IsFrame(e) /\ e.kind # "SwitchFrameParser" /\ C' = Append(C, e)
      <4>1. Item("jump", None, 0) \in CollatedItems
        BY MadeItems, ItemSets
      <4> QED
        BY <4>1 DEF DrainJump, IsFrame, Item
    <3> QED
      BY <1>5, <2>4, <3>2, <3>3, <3>4, <3>5, CollatedBy DEF IsFrame, IsMarker
  <2> QED
    BY <2>3, <2>4
<1> QED
  BY <1>3, <1>4, <1>5

\* A marker goes in before anything of its switch is due.
LEMMA InsertedBefore ==
  ASSUME TypeInv, Underway, Next, ~drain'.failed, DrainInsert, drain'.switch
  PROVE  ~ParserDue /\ ~CodecDue /\ drain.pc = "insert"
<1>1. drain.pc = "insert" /\ drain.switch
  BY DrainRecordIs DEF DrainInsert, At, TypeInv, Ranges
<1> QED
  BY <1>1 DEF Underway, Making

\* The ends of switches that are known while something of one is due.
LEMMA EndsWhileDue ==
  ASSUME TypeInv, CallOnce, NoneTwice, Underway, AtMarker, MaxMessages >= 1, Next, ~drain'.failed,
         ParserDue' \/ CodecDue'
  PROVE  Ends' \subseteq Ends
<1>1. SUFFICES ASSUME NEW w \in Ends', DrainInsert, drain'.switch
               PROVE  FALSE
  BY EndsBy
<1>2. ~ParserDue /\ ~CodecDue /\ drain.pc = "insert"
  BY <1>1, InsertedBefore
<1>3. ~(drain.pc = "collator")
  BY <1>2
<1> QED
  BY <1>2, <1>3, DueBy

\* The collator is exchanged when nothing is due and every number given out is
\* of before the marker.
LEMMA CollatorAtEnd ==
  ASSUME TypeInv, Coming, NoneTwice, Underway, AtMarker, Next, SwitchCollator
  PROVE  /\ ~ParserDue /\ ~CodecDue /\ \A w \in Ends : NextBufferSequenceNumber <= w
         /\ UNCHANGED <<rings, input, PtoDBuffer, NextBufferSequenceNumber>> /\ drain'.pc = "parser"
<1>1. drain.pc = "collator" /\ drain.switch
  BY DEF SwitchCollator, At, TypeInv, Exchanges
<1>2. ~ParserDue /\ ~CodecDue /\ Completes = {}
  BY <1>1 DEF Underway, Making, CompleteDue
<1>3. \A w \in Ends : w = DrainSequenceNumber + 1
  BY <1>2 DEF Ends
<1>4. MarkerSent /\ DrainSequenceNumber \in Nat
  BY <1>1, CallsAreNumbered DEF MarkerSent
<1>5. NextBufferSequenceNumber <= DrainSequenceNumber + 1
  BY <1>4, MarkerLimits
<1>6. drain'.pc = "parser" /\ UNCHANGED <<rings, input, PtoDBuffer, NextBufferSequenceNumber>>
  BY DEF SwitchCollator, Go, TypeInv, Ranges, DrainRanges
<1> QED
  BY <1>2, <1>3, <1>5, <1>6

\* The frames that are parsed stay on their side of the marker.
LEMMA ParsedSidesStep ==
  ASSUME TypeInv, Chain, Coming, CallOnce, NoneTwice, Underway, AtMarker, Behind, MaxMessages >= 1, Next,
         ~drain'.failed, CollatedSides, ParsedSides, InTurn
  PROVE  ParsedSides'
<1>1. NextBufferSequenceNumber \in Nat /\ Ends \subseteq Nat /\ collated \in Nat /\ switch.Collator \in Int
      /\ collatedBy \in [Frames -> 0 .. MaxDrains]
  BY CallsAreNumbered DEF TypeInv, Ranges, InputRanges, SwitchRanges
<1>2. \A f \in Frames : f <= collated => f <= collated' /\ collatedBy'[f] = collatedBy[f]
  <2> SUFFICES ASSUME NEW f \in Frames, f <= collated
               PROVE  f <= collated' /\ collatedBy'[f] = collatedBy[f]
    OBVIOUS
  <2>1. f # collated + 1 /\ f \in Nat
    BY <1>1, Bounds
  <2> QED
    BY <1>1, <2>1, InputBy
<1>3. ASSUME NEW m \in InP' \cup InH', IsFrame(m)
      PROVE  /\ m.id <= collated'
             /\ ~CodecDue' => collatedBy'[m.id] = switch'.Collator
             /\ CodecDue' => \A w \in Ends' :
                  collatedBy'[m.id] = IF m.Value < w THEN switch'.Collator - 1 ELSE switch'.Collator
  <2>1. CASE m \in InP \cup InH /\ (m \in InP' => m \in InP)
    <3>1. /\ m.id <= collated
          /\ ~CodecDue => collatedBy[m.id] = switch.Collator
          /\ CodecDue => \A w \in Ends :
               collatedBy[m.id] = IF m.Value < w THEN switch.Collator - 1 ELSE switch.Collator
      BY <1>3, <2>1 DEF ParsedSides
    <3>2. m.id \in Frames /\ m.Value \in Nat /\ m.Value < NextBufferSequenceNumber
      <4>1. m \in ParsedItems
        BY <2>1, MembersOf, ItemSets DEF InP, InH, InHand, TypeInv, Typed
      <4>2. m \in FrameItems
        BY <1>3, <4>1, ParsedIs
      <4> QED
        BY <2>1, <4>2, FrameIs DEF Chain, ChainBelow, Everywhere
    <3>3. m.id <= collated' /\ collatedBy'[m.id] = collatedBy[m.id]
      BY <1>2, <3>1, <3>2
    <3>4. CASE SwitchCollator
      <4>1. switch'.Collator = switch.Collator + 1 /\ CodecDue'
        BY <3>4, InputBy, DueEnds
      <4>2. \A w \in Ends' : m.Value < w
        <5>1. Ends' \subseteq Ends
          BY <4>1, EndsWhileDue
        <5> QED
          BY <1>1, <3>2, <3>4, <5>1, CollatorAtEnd
      <4>3. collatedBy[m.id] = switch.Collator
        BY <3>1, <3>4, CollatorAtEnd
      <4> QED
        BY <1>1, <3>3, <4>1, <4>2, <4>3
    <3>5. CASE ~SwitchCollator
      <4>1. switch'.Collator = switch.Collator
        BY <3>5, InputBy
      <4>2. CASE CodecDue'
        <5>1. CodecDue
          BY <3>5, <4>2, DueBy
        <5>2. Ends' \subseteq Ends
          BY <4>2, EndsWhileDue
        <5> QED
          BY <3>1, <3>3, <4>1, <4>2, <5>1, <5>2
      <4>3. CASE ~CodecDue' /\ CodecDue
        <5>1. PtoDSwitch /\ "PtoD" \in switch.halted
          BY <4>3, DueEnds
        <5>2. m \in InP
          BY <2>1, <5>1 DEF InTurn, InH, InHand
        <5>3. PICK w \in Ends : TRUE
          BY <4>3 DEF InTurn
        <5>4. w <= m.Value /\ w \in Nat
          BY <1>1, <1>3, <5>1, <5>2 DEF InTurn
        <5>5. ~(m.Value < w)
          BY <3>2, <5>4
        <5> QED
          BY <3>1, <3>3, <4>1, <4>3, <5>3, <5>5
      <4>4. CASE ~CodecDue' /\ ~CodecDue
        BY <3>1, <3>3, <4>1, <4>4
      <4> QED
        BY <4>2, <4>3, <4>4
    <3> QED
      BY <3>4, <3>5
  <2>2. CASE /\ CtoPFrame /\ m = [Head(CollatedFrameRing) EXCEPT !.Value = NextBufferSequenceNumber]
             /\ m \in InP' /\ m.Value = NextBufferSequenceNumber /\ IsFrame(Head(CollatedFrameRing))
             /\ m.id = Head(CollatedFrameRing).id /\ Head(CollatedFrameRing).id \in Frames
    <3>1. UNCHANGED switch /\ UNCHANGED <<collated, collatedBy, drain>> /\ CollatedFrameRing # <<>>
      BY <2>2 DEF CtoPFrame, input, drn
    <3>2. m.id <= collated /\ m.id \in Frames
      <4>1. 1 \in DOMAIN CollatedFrameRing /\ Head(CollatedFrameRing) = CollatedFrameRing[1]
        BY <3>1, TailIs, MembersOf DEF TypeInv, Typed
      <4> QED
        BY <2>2, <4>1 DEF TypeInv, InputOrder
    <3>3. collatedBy[m.id] = IF ParserDue THEN switch.Collator - 1 ELSE switch.Collator
      BY <2>2, HeadSide
    <3>4. ~SwitchCollator /\ ~PtoDSwitch
      <4>1. ~SwitchCollator
        BY <3>1 DEF SwitchCollator, At, Go, TypeInv, Ranges, DrainRanges
      <4>2. CollatedFrameRing' # CollatedFrameRing
        BY <2>2, <3>1, TakenDiffers DEF CtoPFrame, TypeInv, Typed
      <4>3. ~PtoDSwitch
        BY <4>2 DEF PtoDSwitch, rings
      <4> QED
        BY <4>1, <4>3
    <3>5. CodecDue' <=> CodecDue
      BY <3>4, DueBy, DueEnds
    <3>6. CASE CodecDue'
      <4>1. Ends' \subseteq Ends
        BY <3>6, EndsWhileDue
      <4>2. ASSUME NEW w \in Ends
            PROVE  NextBufferSequenceNumber < w <=> ParserDue
        <5>1. ParserDue => NextBufferSequenceNumber < w
          BY <2>2, HeadSide
        <5>2. ~ParserDue => w <= NextBufferSequenceNumber
          BY <3>5, <3>6 DEF InTurn
        <5> QED
          BY <1>1, <5>1, <5>2
      <4> QED
        BY <2>2, <3>1, <3>2, <3>3, <3>6, <4>1, <4>2
    <3>7. CASE ~CodecDue'
      <4>1. ~ParserDue
        <5>1. SUFFICES ASSUME ParserDue
                       PROVE  FALSE
          OBVIOUS
        <5>2. PICK w \in Ends : TRUE
          BY <5>1 DEF InTurn
        <5>3. NextBufferSequenceNumber < w
          BY <2>2, <5>1, HeadSide
        <5> QED
          BY <3>5, <3>7, <5>1, <5>2, <5>3 DEF InTurn
      <4> QED
        BY <3>1, <3>2, <3>3, <3>7, <4>1
    <3> QED
      BY <3>6, <3>7
  <2> QED
    BY <1>3, <2>1, <2>2, NewlyParsed
<1> QED
  BY <1>3 DEF ParsedSides

\* Parser and codec are exchanged in turn.
LEMMA InTurnStep ==
  ASSUME TypeInv, Chain, Coming, CallOnce, NoneTwice, Underway, AtMarker, Behind, MaxMessages >= 1, Next,
         ~drain'.failed, InTurn, SeenFirst, EndsLater
  PROVE  InTurn'
<1>1. /\ NextBufferSequenceNumber \in Nat /\ NextBufferSequenceNumber' \in Nat /\ Ends \subseteq Nat
      /\ NextBufferSequenceNumber <= NextBufferSequenceNumber'
  BY NumbersBy, CallsAreNumbered, TypeStep DEF TypeInv, Ranges, MessageRanges
<1>2. ParserDue' \/ CodecDue' => Ends' # {}
  BY EndsStay DEF InTurn
<1>3. "PtoD" \in switch'.halted => PtoDBuffer' = Nothing
  <2>1. CASE CodecHalts
    <3>1. PtoDBuffer' = Nothing
      BY <2>1 DEF CodecHalts, PtoDPass, PtoDDiscard, PtoDControl
    <3> QED
      BY <3>1
  <2>2. CASE "PtoD" \in switch.halted
    BY <2>2, BufferBy DEF InTurn, PtoDExtract, PtoDPass, PtoDDiscard
  <2> QED
    BY <2>1, <2>2, DueEnds
<1>4. ASSUME NEW w \in Ends', ParserDue' \/ CodecDue'
      PROVE  /\ ParserDue' /\ NextBufferSequenceNumber' < w => CodecDue' /\ "PtoD" \notin switch'.halted
             /\ "CtoP" \in switch'.halted \/ (CodecDue' /\ ~ParserDue') => w <= NextBufferSequenceNumber'
             /\ "PtoD" \in switch'.halted => \A m \in InP' : IsFrame(m) => w <= m.Value
  <2>1. w \in Ends /\ w \in Nat
    BY <1>1, <1>4, EndsWhileDue
  <2>2. ASSUME CodecHalts
        PROVE  w <= NextBufferSequenceNumber /\ \A m \in InP' : m \in InP /\ (IsFrame(m) => w <= m.Value)
    BY <2>1, <2>2, CodecHaltsBehind
  <2>3. ParserDue' /\ NextBufferSequenceNumber' < w => CodecDue' /\ "PtoD" \notin switch'.halted
    <3> SUFFICES ASSUME ParserDue', NextBufferSequenceNumber' < w
                 PROVE  CodecDue' /\ "PtoD" \notin switch'.halted
      OBVIOUS
    <3>1. ~CodecHalts
      BY <1>1, <2>1, <2>2
    <3>2. CASE SwitchCollator
      <4>1. CodecDue' /\ ~CodecDue
        BY <3>2, DueEnds, CollatorAtEnd
      <4> QED
        BY <3>1, <4>1, DueEnds DEF CodecDue
    <3>3. CASE ~SwitchCollator
      <4>1. ParserDue
        BY <3>3, DueBy
      <4>3. NextBufferSequenceNumber < w
        BY <1>1, <2>1
      <4>2. CodecDue /\ "PtoD" \notin switch.halted
        BY <2>1, <4>1, <4>3 DEF InTurn
      <4> QED
        BY <3>1, <4>2, DueEnds
    <3> QED
      BY <3>2, <3>3
  <2>4. "CtoP" \in switch'.halted \/ (CodecDue' /\ ~ParserDue') => w <= NextBufferSequenceNumber'
    <3>1. CASE "CtoP" \in switch.halted \/ (CodecDue /\ ~ParserDue)
      <4>1. w <= NextBufferSequenceNumber
        BY <2>1, <3>1 DEF InTurn
      <4> QED
        BY <1>1, <2>1, <4>1
    <3>2. CASE ParserHalts
      <4> DEFINE h == Head(CollatedFrameRing)
      <4>1. h.kind = "SwitchFrameParser" /\ CollatedFrameRing # <<>> /\ CollatedFrameRing \in Seq(CollatedItems)
        BY <3>2, TakenIs DEF ParserHalts, CtoPControl, TypeInv, Typed
      <4>2. h = CollatedFrameRing[1] /\ 1 \in DOMAIN CollatedFrameRing /\ h \in ToSet(CollatedFrameRing)
        BY <4>1, TailIs, MembersOf
      <4>3. h \in ParserCalls
        BY <4>1, <4>2 DEF ParserCalls, CallsFor
      <4>4. w = h.Value + 1
        BY <2>1, <4>3 DEF Behind
      <4>5. NextBufferSequenceNumber = h.Value + 1
        BY <4>1, <4>2 DEF AtMarker
      <4> QED
        BY <1>1, <4>4, <4>5
    <3>3. CodecDue' /\ ~ParserDue' => "CtoP" \in switch.halted \/ (CodecDue /\ ~ParserDue)
      <4>1. ~ParserDue' => ~SwitchCollator
        BY DueEnds
      <4> QED
        BY <4>1, DueBy, DueEnds
    <3> QED
      BY <3>1, <3>2, <3>3, DueEnds
  <2>5. ASSUME "PtoD" \in switch'.halted, NEW m \in InP', IsFrame(m)
        PROVE  w <= m.Value
    <3>1. CASE CodecHalts
      BY <2>2, <2>5, <3>1
    <3>2. CASE "PtoD" \in switch.halted
      <4>1. CodecDue
        BY <3>2 DEF CodecDue
      <4>2. w <= NextBufferSequenceNumber
        BY <1>1, <2>1, <3>2, <4>1 DEF InTurn
      <4>3. m \in InP \/ m.Value = NextBufferSequenceNumber
        BY <2>5, NewlyParsed
      <4> QED
        BY <2>1, <2>5, <3>2, <4>2, <4>3 DEF InTurn
    <3> QED
      BY <2>5, <3>1, <3>2, DueEnds
  <2> QED
    BY <2>3, <2>4, <2>5
<1>5. /\ "CtoP" \in switch'.halted => ParserDue'
      /\ "PtoD" \in switch'.halted => CodecDue'
  BY DEF ParserDue, CodecDue
<1> QED
  BY <1>2, <1>3, <1>4, <1>5 DEF InTurn

\* What ParseToDecode sees next is above what it has seen.
LEMMA SeenFirstStep ==
  ASSUME TypeInv, Chain, Coming, Next, SeenFirst
  PROVE  SeenFirst'
<1>1. /\ NextBufferSequenceNumber \in Nat /\ NextBufferSequenceNumber' \in Nat
      /\ NextBufferSequenceNumber <= NextBufferSequenceNumber'
      /\ SeenBy("PtoD") \in Nat /\ \A m \in InP \cup InH : m.Value \in Nat
  BY NumbersBy, TypeStep, Numbers DEF TypeInv, Ranges, MessageRanges, Everywhere, Processes
<1>2. CASE PtoDExtract
  <2> DEFINE h == Head(ParsedFrameRing)
  <2>1. /\ ParsedFrameRing # <<>> /\ ParsedFrameRing \in Seq(ParsedItems) /\ ~IsControl(h)
        /\ ParsedFrameRing' = Tail(ParsedFrameRing) /\ UNCHANGED NextBufferSequenceNumber
        /\ See("PtoD", h.Value)
    BY <1>2 DEF PtoDExtract, TypeInv, Typed
  <2>2. h \in InP /\ h.Value \in Nat /\ h.Value < NextBufferSequenceNumber
    BY <1>1, <2>1, TailIs DEF InP, Chain, ChainBelow, Everywhere
  <2>3. SeenBy("PtoD")' \in {SeenBy("PtoD"), h.Value}
    BY <2>1, <2>2, SeeIs DEF SeenBy, TypeInv, Ranges, MessageRanges, Processes
  <2>4. \A m \in InP' : m \in InP /\ (IsFrame(m) => h.Value < m.Value)
    <3>1. Less({h}, ToSet(Tail(ParsedFrameRing)))
      BY <2>1, RisingTail, ParsedIs DEF Chain, ChainRising
    <3>2. ToSet(Tail(ParsedFrameRing)) \subseteq InP
      BY <2>1, TailIs DEF InP
    <3>3. \A m : IsFrame(m) => ~IsControl(m)
      BY DEF IsFrame, IsControl, BeforeCalls, AfterCalls
    <3> QED
      BY <2>1, <3>1, <3>2, <3>3 DEF Less, InP
  <2> QED
    BY <2>1, <2>2, <2>3, <2>4 DEF SeenFirst
<1>3. CASE ~PtoDExtract
  <2>1. SeenBy("PtoD")' = SeenBy("PtoD")
    BY <1>3, NumbersBy
  <2>2. SeenBy("PtoD") = 0 \/ SeenBy("PtoD") < NextBufferSequenceNumber'
    BY <1>1 DEF SeenFirst
  <2>3. ASSUME NEW m \in InP', IsFrame(m)
        PROVE  SeenBy("PtoD") = 0 \/ SeenBy("PtoD") < m.Value
    <3>1. m \in InP \/ m.Value = NextBufferSequenceNumber
      BY <2>3, NewlyParsed
    <3> QED
      BY <2>3, <3>1 DEF SeenFirst
  <2> QED
    BY <2>1, <2>2, <2>3 DEF SeenFirst
<1> QED
  BY <1>2, <1>3

\* No switch ends with the first number.
LEMMA EndsLaterStep ==
  ASSUME TypeInv, CallOnce, NoneTwice, Underway, AtMarker, MaxMessages >= 1, Next, ~drain'.failed, EndsLater
  PROVE  EndsLater'
<1>1. DrainSequenceNumber \in Nat /\ NextBufferSequenceNumber \in Nat /\ RingSize \in Nat /\ RingSize > 0
  BY CallsAreNumbered, Bounds
<1>2. drain'.pc = "insert" => DrainSequenceNumber' > 0
  <2> SUFFICES ASSUME drain'.pc = "insert"
               PROVE  DrainSequenceNumber' > 0
    OBVIOUS
  <2>1. CASE DrainNumber
    BY <1>1, <2>1 DEF DrainNumber, MarkerNumber
  <2>2. CASE ~DrainNumber
    <3>1. drain.pc = "insert" /\ UNCHANGED DrainSequenceNumber
      <4>1. Entry => DrainNumber \/ drain'.pc # "insert"
        BY DrainMoves DEF TypeInv, Ranges
      <4> QED
        BY <2>2, <4>1, DrainWalks
    <3> QED
      BY <3>1 DEF EndsLater
  <2> QED
    BY <2>1, <2>2
<1>3. ASSUME NEW w \in Ends'
      PROVE  w > 1
  <2>1. CASE DrainInsert /\ w = DrainSequenceNumber + 1
    <3>1. drain.pc = "insert"
      BY <2>1 DEF DrainInsert, At
    <3> QED
      BY <1>1, <2>1, <3>1 DEF EndsLater
  <2> QED
    BY <2>1, EndsBy DEF EndsLater
<1> QED
  BY <1>2, <1>3 DEF EndsLater

\* It holds of the initial states.
LEMMA OwnInit == Init => OwnInv
<1> SUFFICES ASSUME Init
             PROVE  OwnParts
  BY DEF OwnInv
<1>1. /\ CollatedFrameRing = <<>> /\ ParsedFrameRing = <<>> /\ DecodedFrameRing = <<>>
      /\ ManifestedBufferRing = <<>> /\ \A p \in Processes : Accumulated[p] = {}
      /\ drain.pc = "idle" /\ ~drain.switch /\ switch.halted = {} /\ PtoDBuffer = Nothing
      /\ SeenBy("PtoD") = 0
  BY DEF Init, SeenBy, Processes
<1>2. DOMAIN <<>> = {} /\ ToSet(<<>>) = {}
  BY DEF ToSet
<1>3. Accumulated["PtoD"] = {} /\ Accumulated["PostM"] = {}
  BY <1>1 DEF Processes
<1>4. InP = {} /\ InH = {}
  BY <1>1, <1>2 DEF InP, InH, InHand
<1>5. ParserCalls = {} /\ CodecCalls = {} /\ Completes = {} /\ Ends = {}
  BY <1>1, <1>2, <1>3 DEF ParserCalls, CodecCalls, Completes, CallsFor, Ends, Switching
<1>6. ~ParserDue /\ ~CodecDue
  BY <1>1, <1>5 DEF ParserDue, CodecDue
<1>7. CollatedSides /\ ParsedSides
  BY <1>1, <1>2, <1>4 DEF CollatedSides, ParsedSides
<1>8. InTurn /\ SeenFirst /\ EndsLater
  BY <1>1, <1>4, <1>5, <1>6 DEF InTurn, SeenFirst, EndsLater
<1> QED
  BY <1>7, <1>8 DEF OwnParts

\* Every step keeps it.
LEMMA OwnStep ==
  MaxMessages >= 1 => (TypeInv /\ Chain /\ Coming /\ SwitchInv /\ OwnInv /\ [Next]_vars => OwnInv')
<1> SUFFICES ASSUME MaxMessages >= 1, TypeInv, Chain, Coming, SwitchInv, OwnInv, [Next]_vars, ~drain'.failed
             PROVE  OwnParts'
  BY DEF OwnInv, DrainsEntered
<1>1. CASE Next
  <2>1. SwitchParts /\ OwnParts
    BY <1>1, DrainWalks DEF SwitchInv, OwnInv, DrainsEntered
  <2>2. CollatedSides' /\ ParsedSides'
    BY <1>1, <2>1, CollatedSidesStep, ParsedSidesStep DEF SwitchParts, OwnParts
  <2>3. InTurn'
    BY <1>1, <2>1, InTurnStep DEF SwitchParts, OwnParts
  <2>4. SeenFirst' /\ EndsLater'
    BY <1>1, <2>1, SeenFirstStep, EndsLaterStep DEF SwitchParts, OwnParts
  <2> QED
    BY <2>2, <2>3, <2>4 DEF OwnParts
<1>2. CASE UNCHANGED vars
  <2>1. OwnParts
    BY <1>2 DEF vars, drn, OwnInv, DrainsEntered
  <2>2. UNCHANGED <<CollatedFrameRing, ParsedFrameRing, ManifestedBufferRing, Accumulated, collated, collatedBy,
                    drain, switch, NextBufferSequenceNumber, DrainSequenceNumber, PtoDBuffer,
                    MaximumActualSequenceNumberSeen>>
    BY <1>2 DEF vars, rings, drn, msgs, input
  <2>3. /\ ParserCalls' = ParserCalls /\ CodecCalls' = CodecCalls /\ Completes' = Completes
        /\ InP' = InP /\ InH' = InH /\ SeenBy("PtoD")' = SeenBy("PtoD")
    BY <2>2 DEF ParserCalls, CodecCalls, Completes, CallsFor, ToSet, InP, InH, InHand, SeenBy
  <2>4. (ParserDue' <=> ParserDue) /\ (CodecDue' <=> CodecDue) /\ Ends' = Ends
    BY <2>2, <2>3 DEF ParserDue, CodecDue, Ends, Switching
  <2>5. CollatedSides'
    BY <2>1, <2>2 DEF OwnParts, CollatedSides, CallBehind
  <2>6. ParsedSides'
    BY <2>1, <2>2, <2>3, <2>4 DEF OwnParts, ParsedSides
  <2>7. InTurn'
    BY <2>1, <2>2, <2>3, <2>4 DEF OwnParts, InTurn
  <2>8. SeenFirst' /\ EndsLater'
    BY <2>1, <2>2, <2>3, <2>4 DEF OwnParts, SeenFirst, EndsLater
  <2> QED
    BY <2>5, <2>6, <2>7, <2>8 DEF OwnParts
<1> QED
  BY <1>1, <1>2

\* A frame is parsed by the parser of its collator.
LEMMA ParsedIsOwn ==
  ASSUME TypeInv, Coming, NoneTwice, Exchanged, AtMarker, Behind, CollatedSides, Next
  PROVE  ParsedByOwn
<1> SUFFICES ASSUME NEW m \in InP', m \notin InP, IsFrame(m)
             PROVE  collatedBy[m.id] = switch.FrameParser
  BY DEF ParsedByOwn, FramesInto, InP
<1>1. CtoPFrame /\ IsFrame(Head(CollatedFrameRing)) /\ m.id = Head(CollatedFrameRing).id
  BY NewlyParsed
<1> QED
  BY <1>1, HeadSide DEF Exchanged

\* It is decoded by the codec of its collator.
LEMMA DecodedIsOwn ==
  ASSUME TypeInv, Chain, Exchanged, Behind, ParsedSides, InTurn, Next
  PROVE  DecodedByOwn
<1> SUFFICES ASSUME NEW m \in ToSet(codec'), m \notin ToSet(codec), IsFrame(m)
             PROVE  collatedBy[m.id] = switch.Codec
  BY DEF DecodedByOwn, FramesInto
<1>1. codec \in Seq(CodedItems)
  BY DEF TypeInv, Typed
<1>2. PtoDPass /\ m = PtoDBuffer /\ PtoDBuffer # Nothing
  <2>1. CASE PtoDPass
    <3>1. PtoDBuffer # Nothing /\ PtoDBuffer \in CodedItems
      BY <2>1, HeadsAre, ItemSets DEF PtoDPass, TypeInv
    <3>2. CodecUnmarked \in Seq(CodedItems) /\ ToSet(CodecUnmarked) \subseteq ToSet(codec)
      BY <1>1, RisingUnmarked DEF Chain, ChainRising
    <3>3. ToSet(codec') \subseteq ToSet(codec) \cup {PtoDBuffer}
      BY <1>1, <2>1, <3>1, <3>2, AppendIs DEF PtoDPass
    <3> QED
      BY <2>1, <3>1, <3>3
  <2>2. CASE ~PtoDPass
    <3>1. \/ UNCHANGED codec \/ codec' = <<>> \/ (codec # <<>> /\ codec' = Tail(codec))
          \/ codec' = [i \in DOMAIN codec |-> IF IsFrame(codec[i])
                 THEN [codec[i] EXCEPT !.kind = "dropped"] ELSE codec[i]]
      BY <2>2 DEF Next, Collate, DrainBegin, CtoP, CtoPMarker, CtoPFrame, CtoPControl, CtoPSwitch, PtoD, PtoDExtract,
        PtoDDiscard, PtoDControl, PtoDSwitch, CodecOutput, DtoMLoop, DtoMSelect, DtoMMarker,
        DtoMExtract, DtoMTimeout, DtoMInHand, DtoMManifest, DtoMDiscard, Manifest, PostMExtract, Drain,
        DrainJump, DrainCodec, DrainRelease, DrainCheck, DrainNumber, DrainInsert, DrainCallBefore,
        DrainCallAfter, SwitchCollator, SwitchCalls, DrainReturn, DrainGiveUp
    <3>2. UNCHANGED codec \/ codec' = <<>> \/ (codec # <<>> /\ codec' = Tail(codec)) => m \in ToSet(codec)
      <4>1. codec' = <<>> => ToSet(codec') = {}
        BY DEF ToSet
      <4>2. codec # <<>> /\ codec' = Tail(codec) => ToSet(codec') \subseteq ToSet(codec)
        BY <1>1, TailIs
      <4>3. UNCHANGED codec => ToSet(codec') = ToSet(codec)
        BY DEF ToSet
      <4> QED
        BY <4>1, <4>2, <4>3
    <3>3. ASSUME codec' = [i \in DOMAIN codec |-> IF IsFrame(codec[i])
                             THEN [codec[i] EXCEPT !.kind = "dropped"] ELSE codec[i]]
          PROVE  FALSE
      <4>1. PICK i \in DOMAIN codec : m = codec'[i]
        BY <3>3 DEF ToSet
      <4>2. codec[i] \in CodedItems /\ codec[i] \in ToSet(codec)
        BY <1>1, <4>1, MembersOf
      <4>3. IsFrame(codec[i])
        BY <3>3, <4>1, <4>2
      <4>4. m = [codec[i] EXCEPT !.kind = "dropped"]
        BY <3>3, <4>1, <4>3
      <4>5. m.kind = "dropped"
        BY <4>2, <4>3, <4>4, CodedIs, FrameIs, DroppedIs
      <4> QED
        BY <4>5 DEF IsFrame
    <3> QED
      BY <3>1, <3>2, <3>3
  <2> QED
    BY <2>1, <2>2
<1>3. m \in InH /\ m \in Ahead /\ IsBuffer(m)
  BY <1>2 DEF InH, InHand, Ahead, IsBuffer
<1>4. CASE ~CodecDue
  BY <1>3, <1>4 DEF ParsedSides, Exchanged
<1>5. CASE CodecDue
  <2>1. PICK w \in Ends : TRUE
    BY <1>5 DEF InTurn
  <2>2. m.Value < w
    BY <1>3, <1>5, <2>1 DEF Behind
  <2> QED
    BY <1>3, <1>5, <2>1, <2>2 DEF ParsedSides, Exchanged
<1> QED
  BY <1>4, <1>5

\* No parser or codec meets a frame of the other side of the marker.  Of the
\* drains that are begun none is given up, each marker gets into the ring in
\* time, and each process has room for one call.
THEOREM OwnParserAndCodec ==
  MaxMessages >= 1 => (Spec /\ []MarkerInTime => [][DrainsEntered => ParsedByOwn /\ DecodedByOwn]_vars)
<1> SUFFICES ASSUME MaxMessages >= 1
             PROVE  Spec /\ []MarkerInTime => [][DrainsEntered => ParsedByOwn /\ DecodedByOwn]_vars
  OBVIOUS
<1> DEFINE IInv == TypeInv /\ Chain /\ Coming /\ SwitchInv /\ OwnInv
<1>1. Init => IInv
  BY TypeInit, ChainInit, SwitchInit, OwnInit
<1>2. IInv /\ MarkerInTime /\ [Next]_vars => IInv'
  BY TypeStep, ChainStep, ComingStep, SwitchStep, OwnStep
<1>3. IInv /\ [Next]_vars => [DrainsEntered => ParsedByOwn /\ DecodedByOwn]_vars
  BY ParsedIsOwn, DecodedIsOwn DEF SwitchInv, SwitchParts, OwnInv, OwnParts
<1> QED
  BY <1>1, <1>2, <1>3, PTL DEF Spec
=============================================================================
