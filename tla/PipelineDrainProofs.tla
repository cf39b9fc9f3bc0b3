------------------------- MODULE PipelineDrainProofs ------------------------
(***************************************************************************)
(* What a drain of StreamPipeline leaves behind, when it begins after the  *)
(* one before it is done and is not part of a switch: nobody discards, and *)
(* of what is ahead of its marker no frame is left, or one reference frame,*)
(* and the time mapping is reset after the last of them.                   *)
(*                                                                         *)
(* The inductive invariant is AloneInv over TypeInv of PipelineProofs: its *)
(* parts say where the marker is, who has still to see it, and what may be *)
(* ahead of it; ResetInv adds where the resets of the time mapping are.    *)
(***************************************************************************)
EXTENDS PipelineProofs

-----------------------------------------------------------------------------
(***************************************************************************)
(* Drains that begin when the ones before them are done.                   *)
(***************************************************************************)
\* No drain is part of a switch.
DrainsOnly == \A n \in Markers : \A policy \in MayBe[n] : ~IsSwitch(policy)

\* Between the numbering of a marker and its insertion no more buffers pass
\* than a ring can hold, those that are in the ring already included.
InsertedInTime ==
  drain.alone /\ drain.pc = "insert" =>
    NextBufferSequenceNumber + Len(CollatedFrameRing) <= DrainSequenceNumber

\* The rings of CollateToParse and PostManifest, and whether there is a marker.
InC == ToSet(CollatedFrameRing)
InR == ToSet(ManifestedBufferRing)
MarkerIn(S) == \E m \in S : IsMarker(m)
\* From the ring of collation to the hand of DecodeToManifest.
Upstream == InC \cup InP \cup InH \cup InK \cup InD \cup InF

\* No process is halted or will be.
Unswitched ==
  /\ ~drain.switch /\ switch.halted = {}
  /\ Accumulated["CtoP"] = {} /\ Accumulated["PtoD"] = {}
  /\ \A m \in InC \cup InP : ~IsControl(m)

\* PostManifest has seen only numbers that CollateToParse has given, and no
\* marker that is still to come.
SeenLast == MaximumActualSequenceNumberSeen["PostM"]
SeenBelow ==
  /\ SeenLast = 0 \/ SeenLast < NextBufferSequenceNumber
  /\ \A m \in InC \cup Everywhere : IsMarker(m) => SeenLast < m.Value

\* A marker on its way to PostManifest is above whatever is ahead of it.
MarkerAbove ==
  \A j \in DOMAIN ManifestedBufferRing : IsMarker(ManifestedBufferRing[j]) =>
    \A i \in 1 .. j - 1 : ~IsControl(ManifestedBufferRing[i]) =>
      ManifestedBufferRing[i].Value < ManifestedBufferRing[j].Value

\* Each frame is in one place, those parsed were collated before those that are
\* not, and only the deferred one is without its index.
Ascending ==
  /\ \A m, o \in Everywhere : IsFrame(m) /\ IsFrame(o) /\ m.id = o.id => m = o
  /\ \A m \in Everywhere : IsFrame(m) =>
       m.id <= collated /\ \A o \in InC : IsFrame(o) => m.id < o.id
  /\ \A m \in Everywhere : IsFrame(m) /\ ~HasIndex(m.id) => m.id = parser.deferred
  /\ parser.deferred # None => reference[parser.deferred] /\ parser.deferred <= collated

\* The call that sets the drained event, and where it is.
IsSetDrained(m) == m.kind = "SetDrained"
Calls == InR \cup Accumulated["PostM"]
\* No marker is on its way.
Entering == drain.n = 0 \/
  drain.pc \in {"jump", "codec", "release", "check", "number", "insert"}

\* There is no marker but that of this drain, and one call to set its event.
OneMarker ==
  /\ \A m \in InC \cup Everywhere : IsMarker(m) => ~Entering /\ m.Value = DrainSequenceNumber
  /\ \A m \in Calls : IsSetDrained(m) =>
       /\ ~Entering /\ ~Drained /\ drain.pc \notin {"before", "after"}
       /\ m.Value = DrainSequenceNumber
  /\ Drained => /\ drain.n > 0 /\ drain.pc \notin {"insert", "before", "after"}
                /\ ~Entering => DrainSequenceNumber <= SeenLast
  /\ drain.pc = "insert" => DrainSequenceNumber > 0
  /\ ~Entering => MarkerIn(InC) \/ DrainSequenceNumber < NextBufferSequenceNumber
  /\ \A i, j \in DOMAIN ManifestedBufferRing :
       IsSetDrained(ManifestedBufferRing[i]) /\ IsSetDrained(ManifestedBufferRing[j]) => i = j
  /\ \A m \in InR, o \in Accumulated["PostM"] : ~(IsSetDrained(m) /\ IsSetDrained(o))

\* Whoever discards will see the marker.
Discarding ==
  /\ drain.n = 0 => \A p \in {"CtoP", "PtoD", "DtoM"} : ~DiscardingUntilMarkerFrame[p]
  /\ ~Entering =>
       /\ DiscardingUntilMarkerFrame["CtoP"] => MarkerIn(InC)
       /\ DiscardingUntilMarkerFrame["PtoD"] => MarkerIn(InC \cup InP)
       /\ DiscardingUntilMarkerFrame["DtoM"] => MarkerIn(Upstream)

\* A jump is ahead of the marker.
IsJump(m) == m.kind = "jump"
JumpAhead ==
  \A i \in DOMAIN CollatedFrameRing : IsJump(CollatedFrameRing[i]) =>
    \/ Entering
    \/ \E k \in DOMAIN CollatedFrameRing : i < k /\ IsMarker(CollatedFrameRing[k])
Jumped == drain.pc # "jump" /\ \A m \in InC : ~IsJump(m)

\* A drain that discards: ParseToDecode passes on nothing that is ahead of the
\* marker, and what passed it before the jump has its index once the jump is seen.
Passed(m) == ~Entering /\ DrainSequenceNumber < m.Value
Kept ==
  drain.n > 0 /\ drain.discard =>
    /\ ~DiscardingUntilMarkerFrame["PtoD"] =>
         /\ ~Entering /\ DrainSequenceNumber < NextBufferSequenceNumber
         /\ \A m \in InP \cup InH : IsFrame(m) => Passed(m)
    /\ Jumped => \A m \in InK \cup InD \cup AccumulatedBufferTable :
         IsFrame(m) => HasIndex(m.id) \/ Passed(m)

\* Once the marker is past DecodeToManifest no frame from ahead of it is left,
\* or one reference frame.
Flushed ==
  ~Entering /\ ~MarkerIn(Upstream) =>
    /\ drain.discard => Before(DrainSequenceNumber) = {}
    /\ Before(DrainSequenceNumber) \subseteq AccumulatedBufferTable \cup InHand(DtoMBuffer)
    /\ \A m, o \in Before(DrainSequenceNumber) : m = o /\ reference[m.id]

\* All of it together, for drains begun when those before were done.
Sound ==
  /\ Chain /\ Coming /\ Unswitched /\ SeenBelow /\ MarkerAbove /\ Ascending /\ OneMarker /\ Discarding
  /\ JumpAhead /\ Kept /\ Flushed
AloneInv == drain.alone => Sound

-----------------------------------------------------------------------------
\* What takes buffers from ParseToDecode on, and what puts calls among them.
Downstream ==
  \/ PtoDExtract \/ PtoDPass \/ PtoDDiscard \/ CodecOutput
  \/ DtoMSelect \/ DtoMMarker \/ DtoMExtract \/ DtoMTimeout \/ DtoMManifest \/ DtoMDiscard
  \/ Manifest \/ PostMExtract
\* What a drain does before its marker goes in, and what it does after.
Entry == DrainJump \/ DrainCodec \/ DrainRelease \/ DrainCheck \/ DrainNumber
Rest  == DrainCallBefore \/ DrainCallAfter \/ DrainReturn

\* A stream that is not switched and whose drains each find no marker ahead.
LEMMA AloneNext ==
  ASSUME DrainsOnly, TypeInv, Unswitched, Coming, OneMarker, Next
  PROVE  \/ \E isReference \in BOOLEAN : Collate(isReference)
         \/ CtoPMarker \/ CtoPFrame \/ Downstream \/ Entry \/ DrainInsert \/ Rest
         \/ \E policy \in Policies : DrainBegin(policy) /\ ~IsSwitch(policy)
<1>1. Typed /\ DrainRanges /\ Exchanges  BY DEF TypeInv, Ranges
<1>2. ~CtoPControl
  <2>1. ASSUME CollatedFrameRing # <<>> PROVE ~IsControl(Head(CollatedFrameRing))
    BY <1>1, <2>1, TailIs DEF Typed, Unswitched, InC
  <2> QED BY <2>1 DEF CtoPControl
<1>3. ~PtoDControl
  <2>1. ASSUME ParsedFrameRing # <<>> PROVE ~IsControl(Head(ParsedFrameRing))
    BY <1>1, <2>1, TailIs DEF Typed, Unswitched, InP
  <2> QED BY <2>1 DEF PtoDControl
<1>4. ~CtoPSwitch /\ ~PtoDSwitch  BY DEF CtoPSwitch, PtoDSwitch, Unswitched
<1>5. ~SwitchCollator /\ ~SwitchCalls
  BY <1>1 DEF SwitchCollator, SwitchCalls, At, Exchanges, Unswitched
<1>6. ~DrainGiveUp
  <2>1. ASSUME DrainGiveUp PROVE FALSE
    <3>1. Entering /\ MarkerInCodedFrameIndex # None  BY <2>1 DEF DrainGiveUp, At, Entering
    <3>2. PICK k \in DOMAIN CollatedFrameRing : IsMarker(CollatedFrameRing[k])
      BY <3>1 DEF Coming
    <3>3. CollatedFrameRing[k] \in InC  BY DEF InC, ToSet
    <3> QED BY <3>1, <3>2, <3>3 DEF OneMarker
  <2> QED BY <2>1
<1>7. ASSUME NEW policy \in Policies, DrainBegin(policy) PROVE ~IsSwitch(policy)
  <2>1. policy \in MayBe[drain.n + 1] /\ drain.n < MaxDrains  BY <1>7 DEF DrainBegin
  <2>2. drain.n \in 0 .. MaxDrains  BY <1>1 DEF DrainRanges
  <2>3. drain.n + 1 \in Markers  BY <2>1, <2>2, Bounds
  <2> QED BY <2>1, <2>3 DEF DrainsOnly
<1> QED BY <1>2, <1>3, <1>4, <1>5, <1>6, <1>7
        DEF Next, CtoP, PtoD, DtoMLoop, DtoMInHand, Drain, Downstream, Entry, Rest

-----------------------------------------------------------------------------
\* What a drain changes.
LEMMA DrainRecordIs ==
  ASSUME DrainRanges
  PROVE  /\ \A pc : Go(pc) => /\ drain'.pc = pc /\ drain'.n = drain.n /\ drain'.discard = drain.discard
                               /\ drain'.alone = drain.alone /\ drain'.switch = drain.switch
         /\ \A policy \in Policies : DrainBegin(policy) =>
              /\ drain'.pc = IF Plays(policy) THEN "check" ELSE "jump"
              /\ drain.pc = "idle"
              /\ drain'.n = drain.n + 1 /\ drain'.n > 0 /\ drain'.discard = ~Plays(policy)
              /\ drain'.switch = IsSwitch(policy)
              /\ drain'.alone = (drain.n = 0 \/ (drain.alone /\ Drained))
<1>1. ASSUME NEW pc, Go(pc)
      PROVE  /\ drain'.pc = pc /\ drain'.n = drain.n /\ drain'.discard = drain.discard
             /\ drain'.alone = drain.alone /\ drain'.switch = drain.switch
  BY <1>1 DEF Go, DrainRanges
<1>2. ASSUME NEW policy \in Policies, DrainBegin(policy)
      PROVE  /\ drain'.pc = IF Plays(policy) THEN "check" ELSE "jump"
             /\ drain.pc = "idle"
             /\ drain'.n = drain.n + 1 /\ drain'.n > 0 /\ drain'.discard = ~Plays(policy)
             /\ drain'.switch = IsSwitch(policy)
             /\ drain'.alone = (drain.n = 0 \/ (drain.alone /\ Drained))
  <2>1. drain' = [pc |-> IF Plays(policy) THEN "check" ELSE "jump", n |-> drain.n + 1,
               discard |-> ~Plays(policy), switch |-> IsSwitch(policy),
               failed |-> drain.failed, alone |-> drain.n = 0 \/ (drain.alone /\ Drained)]
        /\ drain.pc = "idle"
    BY <1>2 DEF DrainBegin, At
  <2>2. drain.n \in 0 .. MaxDrains  BY DEF DrainRanges
  <2>3. drain.n + 1 > 0  BY <2>2, Bounds
  <2> QED BY <2>1, <2>3
<1> QED BY <1>1, <1>2

\* The steps by their place among those of a drain.
LEMMA DrainMoves ==
  ASSUME DrainRanges
  PROVE  /\ Downstream \/ CtoPMarker \/ CtoPFrame => UNCHANGED drain
         /\ \A isReference \in BOOLEAN : Collate(isReference) => UNCHANGED drain
         /\ Entry => /\ Entering /\ Entering' /\ drain.pc # "idle"
                     /\ drain'.n = drain.n /\ drain'.discard = drain.discard
                     /\ drain'.alone = drain.alone /\ drain'.switch = drain.switch
                     /\ ~DrainNumber => drain'.pc # "insert" /\ UNCHANGED DrainSequenceNumber
         /\ DrainInsert \/ Rest =>
              /\ drain'.n = drain.n /\ drain'.discard = drain.discard
              /\ drain'.alone = drain.alone /\ drain'.switch = drain.switch
              /\ UNCHANGED DrainSequenceNumber
         /\ DrainInsert => Entering /\ drain.pc = "insert" /\ drain'.pc = "before"
         /\ Rest => /\ drain.pc \in {"before", "after", "wait"}
                    /\ drain'.pc \in {"after", "collator", "wait", "idle"}
<1> USE DrainRecordIs
<1>1. Downstream \/ CtoPMarker \/ CtoPFrame => UNCHANGED drain
  BY DEF Downstream, PtoDExtract, PtoDPass, PtoDDiscard, CodecOutput, DtoMSelect, DtoMMarker, DtoMExtract,
     DtoMTimeout, DtoMManifest, DtoMDiscard, Manifest, PostMExtract, CtoPMarker, CtoPFrame, drn
<1>2. \A isReference \in BOOLEAN : Collate(isReference) => UNCHANGED drain
  BY DEF Collate, drn
<1>3. ASSUME Entry
      PROVE  /\ Entering /\ Entering' /\ drain.pc # "idle"
             /\ drain'.n = drain.n /\ drain'.discard = drain.discard
             /\ drain'.alone = drain.alone /\ drain'.switch = drain.switch
             /\ ~DrainNumber => drain'.pc # "insert" /\ UNCHANGED DrainSequenceNumber
  BY <1>3 DEF Entry, DrainJump, DrainCodec, DrainRelease, DrainCheck, DrainNumber, At, Entering
<1>4. ASSUME DrainInsert \/ Rest
      PROVE  /\ drain'.n = drain.n /\ drain'.discard = drain.discard
             /\ drain'.alone = drain.alone /\ drain'.switch = drain.switch
             /\ UNCHANGED DrainSequenceNumber
  BY <1>4 DEF DrainInsert, Rest, DrainCallBefore, DrainCallAfter, DrainReturn
<1>5. DrainInsert => Entering /\ drain.pc = "insert" /\ drain'.pc = "before"
  BY DEF DrainInsert, At, Entering
<1>6. Rest => /\ drain.pc \in {"before", "after", "wait"}
              /\ drain'.pc \in {"after", "collator", "wait", "idle"}
  BY DEF Rest, DrainCallBefore, DrainCallAfter, DrainReturn, At
<1> QED BY <1>1, <1>2, <1>3, <1>4, <1>5, <1>6

-----------------------------------------------------------------------------
\* What travels as a buffer, and the table and the hand of DecodeToManifest.
IsBuffer(m) == IsFrame(m) \/ IsMarker(m)
InT == AccumulatedBufferTable
InB == InHand(DtoMBuffer)

\* From one stage a buffer goes to the next, and ParseToDecode passes on what
\* it does not discard.
Flow ==
  /\ \A m \in InP' : m \in InP
  /\ \A m \in InH' : m \in InH \cup InP
  /\ \A m \in InK' : IsBuffer(m) => m \in InK \/ (m \in InH /\ ~DiscardingUntilMarkerFrame["PtoD"])
  /\ \A m \in InD' : IsBuffer(m) => m \in InD \cup InK
  /\ \A m \in InF' : m \in InF \cup InD
  /\ \A m \in InT' : m \in InT \cup InD
  /\ \A m \in InB' : m \in InB \cup InT \cup InD
  /\ \A m \in InX' : IsBuffer(m) => m \in InX \cup InF \cup InD

\* A call is neither a frame nor a marker.
LEMMA CallsAreNoBuffers ==
  \A kind \in BeforeCalls \cup AfterCalls : \A v : ~IsBuffer(Item(kind, None, v))
BY DEF BeforeCalls, AfterCalls, IsBuffer, IsFrame, IsMarker, Item

\* The codec without its marker, and a ring with something more.
LEMMA UnmarkedSubset ==
  ASSUME NEW S, codec \in Seq(S)
  PROVE  CodecUnmarked \in Seq(S) /\ ToSet(CodecUnmarked) \subseteq ToSet(codec)
<1>1. CASE CodecUnmarked = codec  BY <1>1
<1>2. ASSUME NEW k \in 1 .. Len(codec), CodecUnmarked \in Seq(S),
             Len(CodecUnmarked) = Len(codec) - 1,
             \A i \in 1 .. Len(codec) - 1 :
               CodecUnmarked[i] = IF i < k THEN codec[i] ELSE codec[i + 1]
      PROVE  ToSet(CodecUnmarked) \subseteq ToSet(codec)
  <2> DEFINE u == CodecUnmarked
             at(i) == IF i < k THEN i ELSE i + 1
  <2>1. DOMAIN u = 1 .. Len(codec) - 1 /\ DOMAIN codec = 1 .. Len(codec) /\ Len(codec) \in Nat
    BY <1>2
  <2>2. ASSUME NEW i \in DOMAIN u PROVE at(i) \in DOMAIN codec /\ u[i] = codec[at(i)]
    BY <1>2, <2>1
  <2> HIDE DEF u, at
  <2>3. ToSet(u) \subseteq ToSet(codec)  BY <2>2 DEF ToSet
  <2> QED BY <2>3 DEF u
<1> QED BY <1>1, <1>2, UnmarkedIs
\* What a ring holds when something is put in.
LEMMA AppendAdds ==
  ASSUME NEW S, NEW s \in Seq(S), NEW e
  PROVE  ToSet(Append(s, e)) = ToSet(s) \cup {e}
<1>1. s \in Seq(S \cup {e}) /\ e \in S \cup {e}  BY MembersOf
<1> QED BY <1>1, AppendIs

\* The first half of the way, up to the codec.
LEMMA FlowIn ==
  ASSUME Typed, PtoDExtract \/ PtoDPass \/ PtoDDiscard \/ CodecOutput \/ DrainCodec \/ DrainCallBefore
  PROVE  Flow
<1>1. CASE PtoDExtract
  <2>1. /\ ParsedFrameRing # <<>> /\ ParsedFrameRing' = Tail(ParsedFrameRing)
        /\ PtoDBuffer' = Head(ParsedFrameRing)
        /\ UNCHANGED <<codec, DecodedFrameRing, dtom, manifestor, ManifestedBufferRing>>
    BY <1>1 DEF PtoDExtract
  <2>2. InP' \subseteq InP /\ InH' \subseteq InP
    BY <2>1, TailIs DEF InP, InH, InHand, Typed
  <2>3. InK' = InK /\ InD' = InD /\ InF' = InF /\ InX' = InX /\ InT' = InT /\ InB' = InB
    BY <2>1 DEF InK, InD, InF, InX, InT, InB, ToSet, dtom
  <2> QED BY <2>2, <2>3 DEF Flow
<1>2. CASE PtoDPass
  <2> DEFINE k == IF IsMarker(PtoDBuffer) THEN CodecUnmarked ELSE codec
  <2>1. /\ PtoDBuffer # Nothing /\ PtoDBuffer' = Nothing /\ ~DiscardingUntilMarkerFrame["PtoD"]
        /\ codec' = Append(k, PtoDBuffer)
        /\ UNCHANGED <<ParsedFrameRing, DecodedFrameRing, dtom, manifestor, ManifestedBufferRing>>
    BY <1>2 DEF PtoDPass, rings
  <2>2. k \in Seq(CodedItems) /\ ToSet(k) \subseteq InK
    <3>1. codec \in Seq(CodedItems)  BY DEF Typed
    <3>2. CodecUnmarked \in Seq(CodedItems) /\ ToSet(CodecUnmarked) \subseteq ToSet(codec)
      BY <3>1, UnmarkedSubset
    <3> QED BY <3>1, <3>2 DEF InK
  <2>3. PtoDBuffer \in CodedItems /\ InH = {PtoDBuffer} /\ InH' = {}
    BY <2>1, ItemSets, HeadsAre DEF InH, InHand
  <2> HIDE DEF k
  <2>4. InK' = ToSet(k) \cup {PtoDBuffer}  BY <2>1, <2>2, <2>3, AppendIs DEF InK
  <2>5. InP' = InP /\ InD' = InD /\ InF' = InF /\ InX' = InX /\ InT' = InT /\ InB' = InB
    BY <2>1 DEF InP, InD, InF, InX, InT, InB, ToSet, dtom
  <2> QED BY <2>1, <2>2, <2>3, <2>4, <2>5 DEF Flow
<1>3. CASE PtoDDiscard
  <2>1. /\ PtoDBuffer' = Nothing
        /\ UNCHANGED <<ParsedFrameRing, codec, DecodedFrameRing, dtom, manifestor, ManifestedBufferRing>>
    BY <1>3 DEF PtoDDiscard, rings
  <2>2. /\ InP' = InP /\ InH' = {} /\ InK' = InK /\ InD' = InD /\ InF' = InF /\ InX' = InX
        /\ InT' = InT /\ InB' = InB
    BY <2>1 DEF InP, InH, InK, InD, InF, InX, InT, InB, InHand, ToSet, dtom
  <2> QED BY <2>2 DEF Flow
<1>4. CASE CodecOutput
  <2>1. /\ codec # <<>> /\ codec' = Tail(codec)
        /\ \/ DecodedFrameRing' = DecodedFrameRing
           \/ Head(codec).kind # "dropped" /\ DecodedFrameRing' = Append(DecodedFrameRing, Head(codec))
        /\ UNCHANGED <<ParsedFrameRing, PtoDBuffer, dtom, manifestor, ManifestedBufferRing>>
    BY <1>4 DEF CodecOutput
  <2>2. Head(codec) \in InK /\ InK' \subseteq InK  BY <2>1, TailIs DEF InK, Typed
  <2>3. Head(codec).kind # "dropped" => Head(codec) \in DecodedItems
    BY <2>1, HeadsAre, CodedIs, ItemSets
  <2>4. InD' \subseteq InD \cup InK
    <3>1. CASE DecodedFrameRing' = DecodedFrameRing  BY <3>1 DEF InD, ToSet
    <3>2. CASE Head(codec).kind # "dropped" /\ DecodedFrameRing' = Append(DecodedFrameRing, Head(codec))
      <4>1. InD' = InD \cup {Head(codec)}  BY <3>2, <2>3, AppendIs DEF InD, Typed
      <4> QED BY <4>1, <2>2
    <3> QED BY <3>1, <3>2, <2>1
  <2>5. InP' = InP /\ InH' = InH /\ InF' = InF /\ InX' = InX /\ InT' = InT /\ InB' = InB
    BY <2>1 DEF InP, InH, InF, InX, InT, InB, ToSet, dtom
  <2> QED BY <2>2, <2>4, <2>5 DEF Flow
<1>5. CASE DrainCodec
  <2>1. /\ codec' = [i \in DOMAIN codec |-> IF IsFrame(codec[i])
                       THEN [codec[i] EXCEPT !.kind = "dropped"] ELSE codec[i]]
        /\ UNCHANGED <<ParsedFrameRing, PtoDBuffer, DecodedFrameRing, dtom, manifestor,
                       ManifestedBufferRing>>
    BY <1>5 DEF DrainCodec, rings
  <2>2. ASSUME NEW m \in InK', IsBuffer(m) PROVE m \in InK
    <3>1. PICK i \in DOMAIN codec : m = codec'[i]  BY <2>1 DEF InK, ToSet
    <3>2. codec[i] \in InK  BY DEF InK, ToSet
    <3>3. codec[i] \in CodedItems  BY MembersOf DEF Typed
    <3>4. ~IsFrame(codec[i])
      <4>1. ASSUME IsFrame(codec[i]) PROVE FALSE
        <5>1. m = [codec[i] EXCEPT !.kind = "dropped"] /\ codec[i] \in FrameItems
          BY <4>1, <3>1, <3>3, <2>1, CodedIs
        <5>2. m \in DroppedItems  BY <5>1, FrameIs
        <5> QED BY <5>2, <2>2, DroppedIs DEF IsBuffer
      <4> QED BY <4>1
    <3> QED BY <3>1, <3>2, <3>4, <2>1
  <2>3. InP' = InP /\ InH' = InH /\ InD' = InD /\ InF' = InF /\ InX' = InX /\ InT' = InT /\ InB' = InB
    BY <2>1 DEF InP, InH, InD, InF, InX, InT, InB, ToSet, dtom
  <2> QED BY <2>2, <2>3 DEF Flow
<1>6. CASE DrainCallBefore
  <2> DEFINE e == Item("ResetTimeMapping", None, DrainSequenceNumber)
  <2>1. ~IsBuffer(e)  BY CallsAreNoBuffers DEF BeforeCalls
  <2>2. /\ DecodedFrameRing' = Append(DecodedFrameRing, e)
        /\ UNCHANGED <<ParsedFrameRing, PtoDBuffer, codec, dtom, manifestor, ManifestedBufferRing>>
    BY <1>6 DEF DrainCallBefore
  <2> HIDE DEF e
  <2>3. InD' \subseteq InD \cup {e}  BY <2>2, AppendAdds DEF InD, Typed
  <2>4. InP' = InP /\ InH' = InH /\ InK' = InK /\ InF' = InF /\ InX' = InX /\ InT' = InT /\ InB' = InB
    BY <2>2 DEF InP, InH, InK, InF, InX, InT, InB, ToSet, dtom
  <2> QED BY <2>1, <2>3, <2>4 DEF Flow
<1> QED BY <1>1, <1>2, <1>3, <1>4, <1>5, <1>6

\* The second half, from DecodeToManifest on.
LEMMA FlowOut ==
  ASSUME Typed, ParseRanges,
         \/ DtoMSelect \/ DtoMMarker \/ DtoMExtract \/ DtoMTimeout \/ DtoMManifest \/ DtoMDiscard
         \/ Manifest \/ PostMExtract \/ DrainRelease \/ DrainCallAfter
  PROVE  Flow
<1>1. CASE DtoMSelect
  <2>1. /\ Selectable /\ DtoMBuffer' = Lowest
        /\ AccumulatedBufferTable' = AccumulatedBufferTable \ {Lowest}
        /\ UNCHANGED <<ParsedFrameRing, PtoDBuffer, codec, DecodedFrameRing,
                       MarkerFrameBuffer, manifestor, ManifestedBufferRing>>
    BY <1>1 DEF DtoMSelect, TakeFrame, rings
  <2>2. Lowest \in AccumulatedBufferTable  BY <2>1, SelectedIs DEF Typed
  <2>3. InP' = InP /\ InH' = InH /\ InK' = InK /\ InD' = InD /\ InF' = InF
    BY <2>1 DEF InP, InH, InK, InD, InF, ToSet
  <2>4. InT' \subseteq InT /\ InB' \subseteq InT /\ InX' \subseteq InX
    BY <2>1, <2>2 DEF InT, InB, InX, InHand, ToSet
  <2> QED BY <2>3, <2>4 DEF Flow
<1>2. CASE DtoMMarker
  <2>1. /\ MarkerFrameBuffer' = Nothing /\ MarkerFrameBuffer # Nothing /\ MarkerFrameBuffer \in MarkerItems
        /\ ManifestedBufferRing' = Append(ManifestedBufferRing, MarkerFrameBuffer)
        /\ UNCHANGED <<ParsedFrameRing, PtoDBuffer, codec, DecodedFrameRing,
                       AccumulatedBufferTable, DtoMBuffer, manifestor>>
    BY <1>2, NothingIs DEF DtoMMarker, Typed
  <2>2. ToSet(ManifestedBufferRing') = ToSet(ManifestedBufferRing) \cup {MarkerFrameBuffer}
    BY <2>1, AppendAdds DEF Typed
  <2>3. InX' \subseteq InX \cup InF /\ InF' = {}
    BY <2>1, <2>2 DEF InX, InF, InHand, ToSet
  <2>4. InP' = InP /\ InH' = InH /\ InK' = InK /\ InD' = InD /\ InT' = InT /\ InB' = InB
    BY <2>1 DEF InP, InH, InK, InD, InT, InB, ToSet
  <2> QED BY <2>3, <2>4 DEF Flow
<1>3. CASE DtoMExtract
  <2> DEFINE m == Head(DecodedFrameRing)
  <2>1. /\ DecodedFrameRing # <<>> /\ DecodedFrameRing' = Tail(DecodedFrameRing)
        /\ UNCHANGED <<ParsedFrameRing, PtoDBuffer, codec, manifestor, ManifestedBufferRing>>
        /\ \/ UNCHANGED <<AccumulatedBufferTable, MarkerFrameBuffer, DtoMBuffer>>
           \/ /\ MarkerFrameBuffer' = m
              /\ UNCHANGED <<AccumulatedBufferTable, DtoMBuffer>>
           \/ /\ DtoMBuffer' = m
              /\ UNCHANGED <<AccumulatedBufferTable, MarkerFrameBuffer>>
           \/ /\ AccumulatedBufferTable' = AccumulatedBufferTable \cup {m}
              /\ UNCHANGED <<MarkerFrameBuffer, DtoMBuffer>>
    BY <1>3 DEF DtoMExtract, TakeFrame
  <2>2. m \in InD /\ InD' \subseteq InD  BY <2>1, TailIs DEF InD, Typed
  <2> HIDE DEF m
  <2>3. /\ InT' \subseteq InT \cup {m} /\ InB' \subseteq InB \cup {m} /\ InF' \subseteq InF \cup {m}
        /\ InX' \subseteq InX \cup {m}
    BY <2>1 DEF InT, InB, InF, InX, InHand, ToSet
  <2>4. InP' = InP /\ InH' = InH /\ InK' = InK
    BY <2>1 DEF InP, InH, InK, ToSet
  <2> QED BY <2>2, <2>3, <2>4 DEF Flow
<1>4. CASE DtoMTimeout
  <2>1. UNCHANGED <<ParsedFrameRing, PtoDBuffer, codec, DecodedFrameRing, AccumulatedBufferTable,
                    MarkerFrameBuffer, DtoMBuffer, manifestor, ManifestedBufferRing>>
    BY <1>4 DEF DtoMTimeout, rings
  <2>2. /\ InP' = InP /\ InH' = InH /\ InK' = InK /\ InD' = InD /\ InF' = InF /\ InX' = InX
        /\ InT' = InT /\ InB' = InB
    BY <2>1 DEF InP, InH, InK, InD, InF, InX, InT, InB, ToSet
  <2> QED BY <2>2 DEF Flow
<1>5. CASE DtoMManifest \/ DtoMDiscard
  <2>1. /\ DtoMBuffer # Nothing /\ DtoMBuffer' = Nothing
        /\ manifestor' = manifestor \/ manifestor' = Append(manifestor, DtoMBuffer)
        /\ UNCHANGED <<ParsedFrameRing, PtoDBuffer, codec, DecodedFrameRing,
                       AccumulatedBufferTable, MarkerFrameBuffer, ManifestedBufferRing>>
    BY <1>5 DEF DtoMManifest, DtoMDiscard, rings
  <2>2. ToSet(manifestor') \subseteq ToSet(manifestor) \cup {DtoMBuffer}
    <3>1. CASE manifestor' = manifestor  BY <3>1 DEF ToSet
    <3>2. CASE manifestor' = Append(manifestor, DtoMBuffer)
      BY <3>2, AppendAdds DEF Typed
    <3> QED BY <3>1, <3>2, <2>1
  <2>3. InX' \subseteq InX /\ InB' = {} /\ InT' = InT
    BY <2>1, <2>2 DEF InX, InB, InT, InHand, ToSet
  <2>4. InP' = InP /\ InH' = InH /\ InK' = InK /\ InD' = InD /\ InF' = InF
    BY <2>1 DEF InP, InH, InK, InD, InF, ToSet
  <2> QED BY <2>3, <2>4 DEF Flow
<1>6. CASE Manifest
  <2>1. /\ manifestor # <<>> /\ manifestor' = Tail(manifestor)
        /\ ManifestedBufferRing' = Append(ManifestedBufferRing, Head(manifestor))
        /\ UNCHANGED <<ParsedFrameRing, PtoDBuffer, codec, DecodedFrameRing, dtom>>
    BY <1>6 DEF Manifest
  <2>2. /\ Head(manifestor) \in ToSet(manifestor)
        /\ ToSet(manifestor') \subseteq ToSet(manifestor)
    BY <2>1, TailIs DEF Typed
  <2>3. ToSet(ManifestedBufferRing') = ToSet(ManifestedBufferRing) \cup {Head(manifestor)}
    BY <2>1, AppendAdds DEF Typed
  <2>4. InX' \subseteq InX  BY <2>1, <2>2, <2>3 DEF InX, dtom
  <2>5. InP' = InP /\ InH' = InH /\ InK' = InK /\ InD' = InD /\ InF' = InF /\ InT' = InT /\ InB' = InB
    BY <2>1 DEF InP, InH, InK, InD, InF, InT, InB, ToSet, dtom
  <2> QED BY <2>4, <2>5 DEF Flow
<1>7. CASE PostMExtract
  <2>1. /\ ManifestedBufferRing # <<>> /\ ManifestedBufferRing' = Tail(ManifestedBufferRing)
        /\ UNCHANGED <<ParsedFrameRing, PtoDBuffer, codec, DecodedFrameRing, dtom, manifestor>>
    BY <1>7 DEF PostMExtract
  <2>2. ToSet(ManifestedBufferRing') \subseteq ToSet(ManifestedBufferRing)
    BY <2>1, TailIs DEF Typed
  <2>3. InX' \subseteq InX  BY <2>1, <2>2 DEF InX, InHand, ToSet, dtom
  <2>4. InP' = InP /\ InH' = InH /\ InK' = InK /\ InD' = InD /\ InF' = InF /\ InT' = InT /\ InB' = InB
    BY <2>1 DEF InP, InH, InK, InD, InF, InT, InB, ToSet, dtom
  <2> QED BY <2>3, <2>4 DEF Flow
<1>8. CASE DrainRelease
  <2>1. PICK shown \in 0 .. Min({1, Len(manifestor)}) :
          /\ manifestor' = SubSeq(manifestor, 1, shown)
          /\ ManifestedBufferRing' =
               ManifestedBufferRing \o SubSeq(manifestor, shown + 1, Len(manifestor))
    BY <1>8 DEF DrainRelease
  <2>2. UNCHANGED <<ParsedFrameRing, PtoDBuffer, codec, DecodedFrameRing, dtom>>
    BY <1>8 DEF DrainRelease
  <2>3. ToSet(manifestor') \cup ToSet(ManifestedBufferRing')
          = ToSet(manifestor) \cup ToSet(ManifestedBufferRing)
    <3>1. manifestor \in Seq(FrameItems) /\ ManifestedBufferRing \in Seq(ManifestedItems)
          /\ FrameItems \subseteq ManifestedItems
      BY ItemSets DEF Typed
    <3> QED BY <2>1, <3>1, ReleasedIs
  <2>4. InX' = InX  BY <2>2, <2>3 DEF InX, dtom
  <2>5. InP' = InP /\ InH' = InH /\ InK' = InK /\ InD' = InD /\ InF' = InF /\ InT' = InT /\ InB' = InB
    BY <2>2 DEF InP, InH, InK, InD, InF, InT, InB, ToSet, dtom
  <2> QED BY <2>4, <2>5 DEF Flow
<1>9. CASE DrainCallAfter
  <2> DEFINE e == Item("SetDrained", None, DrainSequenceNumber)
  <2>1. ~IsBuffer(e)  BY CallsAreNoBuffers DEF AfterCalls
  <2>2. /\ ManifestedBufferRing' = Append(ManifestedBufferRing, e)
        /\ UNCHANGED <<ParsedFrameRing, PtoDBuffer, codec, DecodedFrameRing, dtom, manifestor>>
    BY <1>9 DEF DrainCallAfter
  <2> HIDE DEF e
  <2>3. ToSet(ManifestedBufferRing') = ToSet(ManifestedBufferRing) \cup {e}
    BY <2>2, AppendAdds DEF Typed
  <2>4. InX' \subseteq InX \cup {e}  BY <2>2, <2>3 DEF InX, ToSet, dtom
  <2>5. InP' = InP /\ InH' = InH /\ InK' = InK /\ InD' = InD /\ InF' = InF /\ InT' = InT /\ InB' = InB
    BY <2>2 DEF InP, InH, InK, InD, InF, InT, InB, ToSet, dtom
  <2> QED BY <2>1, <2>4, <2>5 DEF Flow
<1> QED BY <1>1, <1>2, <1>3, <1>4, <1>5, <1>6, <1>7, <1>8, <1>9

\* Steps that move no buffer.
LEMMA FlowStill ==
  ASSUME \/ UNCHANGED vars \/ DrainJump \/ DrainCheck \/ DrainNumber \/ DrainInsert \/ DrainReturn
         \/ \E policy \in Policies : DrainBegin(policy)
         \/ \E isReference \in BOOLEAN : Collate(isReference)
  PROVE  Flow /\ Everywhere' = Everywhere /\ InX' = InX
<1>1. UNCHANGED <<ParsedFrameRing, PtoDBuffer, codec, DecodedFrameRing, dtom, manifestor,
                  ManifestedBufferRing>>
  BY DEF vars, rings, DrainJump, DrainCheck, DrainNumber, DrainInsert, DrainReturn, DrainBegin, Collate
<1>2. /\ InP' = InP /\ InH' = InH /\ InK' = InK /\ InD' = InD /\ InF' = InF /\ InX' = InX
      /\ InT' = InT /\ InB' = InB
  BY <1>1 DEF InP, InH, InK, InD, InF, InX, InT, InB, ToSet, dtom
<1> QED BY <1>2 DEF Flow, Everywhere

\* Nothing but CollateToParse brings in buffers.
LEMMA FlowIs ==
  ASSUME Typed, ParseRanges,
         \/ UNCHANGED vars \/ Downstream \/ Entry \/ DrainInsert \/ Rest
         \/ \E policy \in Policies : DrainBegin(policy)
         \/ \E isReference \in BOOLEAN : Collate(isReference)
  PROVE  /\ Flow
         /\ \A m \in Everywhere' : IsBuffer(m) => m \in Everywhere
         /\ \A m \in Upstream' : IsBuffer(m) =>
              m \in Upstream \/ m \in InC'
<1>1. Flow  BY FlowIn, FlowOut, FlowStill DEF Downstream, Entry, Rest
<1>2. \A m \in Everywhere' : IsBuffer(m) => m \in Everywhere  BY <1>1 DEF Flow, Everywhere
<1>3. \A m \in Upstream' : IsBuffer(m) => m \in Upstream \/ m \in InC'
  BY <1>1 DEF Flow, Upstream
<1> QED BY <1>1, <1>2, <1>3

-----------------------------------------------------------------------------
\* What CollateToParse takes in, and what it leaves alone.
Received ==
  /\ CollatedFrameRing # <<>> /\ CollatedFrameRing' = Tail(CollatedFrameRing)
  /\ InC = InC' \cup {Head(CollatedFrameRing)}
  /\ InH' = InH /\ InK' = InK /\ InD' = InD /\ InF' = InF /\ InX' = InX /\ InT' = InT /\ InB' = InB
  /\ UNCHANGED <<collated, reference, switch, ManifestedBufferRing, DtoMBuffer, Drained,
                 DrainSequenceNumber, drain>>
  /\ \A p \in Processes : Accumulated'[p] = Accumulated[p]
  /\ SeenLast' = SeenLast
  /\ \A p \in {"PtoD", "DtoM"} : DiscardingUntilMarkerFrame'[p] = DiscardingUntilMarkerFrame[p]

\* CollateToParse takes the marker: it goes to the ring of ParseToDecode as it is.
LEMMA MarkerReceived ==
  ASSUME TypeInv, Unswitched, Coming, CtoPMarker
  PROVE  /\ Received /\ UNCHANGED parse
         /\ ~DiscardingUntilMarkerFrame'["CtoP"]
         /\ LET m == Head(CollatedFrameRing) IN
            /\ m \in InC /\ m \in MarkerItems /\ IsMarker(m)
            /\ InP' = InP \cup {m}
            /\ NextBufferSequenceNumber <= m.Value /\ NextBufferSequenceNumber' = m.Value + 1
            /\ \A o \in InC' : ~IsMarker(o)
<1> DEFINE m == Head(CollatedFrameRing)
<1>0. Typed /\ CallsTyped /\ MessageRanges  BY DEF TypeInv, Ranges
<1>1. /\ CollatedFrameRing # <<>> /\ CollatedFrameRing' = Tail(CollatedFrameRing) /\ IsMarker(m)
      /\ NextBufferSequenceNumber' = m.Value + 1
      /\ See("CtoP", m.Value) /\ StopDiscarding("CtoP")
      /\ ParsedFrameRing' = Append(ParsedFrameRing, m)
      /\ UNCHANGED <<DecodedFrameRing, ManifestedBufferRing, input, PtoDBuffer, NonDecoded,
                     codec, dtom, mappingReset, manifestor, drn>>
  BY DEF CtoPMarker
<1>2. UNCHANGED <<parse, switch>> /\ \A p \in Processes : Accumulated'[p] = Accumulated[p]
  <2>1. Due("CtoP", m.Value, AfterCalls) = {}  BY DueIs DEF Unswitched
  <2>2. UNCHANGED <<parse, switch>> /\ Accumulated' = [Accumulated EXCEPT !["CtoP"] = @ \ {}]
    BY <2>1 DEF CtoPMarker
  <2>3. Accumulated = [p \in Processes |-> Accumulated[p]]  BY <1>0 DEF CallsTyped
  <2>4. DOMAIN Accumulated = Processes  BY <2>3
  <2> QED BY <2>2, <2>4
<1>3. m \in MarkerItems /\ m.Value \in Nat  BY <1>0, <1>1, HeadsAre, CollatedIs
<1>4. /\ m \in InC /\ InC = InC' \cup {m} /\ m = CollatedFrameRing[1] /\ 1 \in DOMAIN CollatedFrameRing
  BY <1>0, <1>1, TailIs, MembersOf DEF Typed, InC
<1> HIDE DEF m
<1>5. InP' = InP \cup {m}  BY <1>0, <1>1, AppendAdds DEF Typed, InP
<1>6. NextBufferSequenceNumber <= m.Value
  <2>1. NextBufferSequenceNumber + 1 - 1 <= CollatedFrameRing[1].Value
    BY <1>4, <1>1 DEF Coming
  <2> QED BY <2>1, <1>4, <1>0 DEF MessageRanges
<1>7. ASSUME NEW o \in InC' PROVE ~IsMarker(o)
  <2>1. /\ DOMAIN Tail(CollatedFrameRing) = 1 .. Len(CollatedFrameRing) - 1
        /\ Len(CollatedFrameRing) \in Nat
        /\ \A i \in 1 .. Len(CollatedFrameRing) - 1 :
             Tail(CollatedFrameRing)[i] = CollatedFrameRing[i + 1]
    BY <1>0, <1>1, TailIs, MembersOf DEF Typed
  <2>2. PICK i \in 1 .. Len(CollatedFrameRing) - 1 : o = CollatedFrameRing[i + 1]
    BY <2>1, <1>1 DEF InC, ToSet
  <2>3. i + 1 \in DOMAIN CollatedFrameRing /\ i + 1 # 1
    BY <2>1, <1>0, MembersOf DEF Typed
  <2> QED BY <2>2, <2>3, <1>1, <1>4 DEF Coming
<1>8. SeenLast' = SeenLast
  BY <1>0, <1>1, <1>3, SeeIs DEF MessageRanges, SeenLast, Processes
<1>9. /\ ~DiscardingUntilMarkerFrame'["CtoP"]
      /\ \A p \in {"PtoD", "DtoM"} : DiscardingUntilMarkerFrame'[p] = DiscardingUntilMarkerFrame[p]
  BY <1>0, <1>1 DEF MessageRanges, StopDiscarding
<1>10. /\ InH' = InH /\ InK' = InK /\ InD' = InD /\ InF' = InF /\ InX' = InX /\ InT' = InT /\ InB' = InB
  BY <1>1 DEF InH, InK, InD, InF, InX, InT, InB, ToSet, dtom
<1>11. UNCHANGED <<collated, reference, switch, ManifestedBufferRing, DtoMBuffer, Drained,
                   DrainSequenceNumber, drain>>
  BY <1>1, <1>2 DEF input, drn, dtom
<1>12. CollatedFrameRing # <<>> /\ CollatedFrameRing' = Tail(CollatedFrameRing) /\ InC = InC' \cup {m}
  BY <1>1, <1>4
<1>13. Received  BY <1>2, <1>8, <1>9, <1>10, <1>11, <1>12 DEF Received, m
<1> QED BY <1>1, <1>2, <1>3, <1>4, <1>5, <1>6, <1>7, <1>9, <1>13 DEF m

\* A frame with the number it is given.
NumberedNow(m) == [m EXCEPT !.Value = NextBufferSequenceNumber]

\* CollateToParse takes a frame or a jump: it is numbered and parsed, or dropped.
LEMMA FrameReceived ==
  ASSUME TypeInv, Unswitched, CtoPFrame
  PROVE  /\ Received /\ UNCHANGED DiscardingUntilMarkerFrame
         /\ NextBufferSequenceNumber' = NextBufferSequenceNumber + 1
         /\ LET h == Head(CollatedFrameRing)
                m == NumberedNow(h) IN
            /\ h \in InC /\ h \in CollatedItems /\ ~IsMarker(h)
            /\ \/ InP' = InP /\ UNCHANGED parse /\ ~IsJump(h)
               \/ InP' = InP /\ IsJump(h) /\ ParseJump
               \/ /\ IsFrame(h) /\ ~IsJump(h) /\ ParseFrame(h.id)
                  /\ InP' = InP \cup {m}
                  /\ m \in FrameItems /\ m.id = h.id /\ m.Value = NextBufferSequenceNumber
<1> DEFINE h == Head(CollatedFrameRing)
           m == NumberedNow(h)
<1>0. Typed /\ CallsTyped /\ MessageRanges /\ NextBufferSequenceNumber \in Nat
  BY DEF TypeInv, Ranges, MessageRanges
<1>1. /\ CollatedFrameRing # <<>> /\ CollatedFrameRing' = Tail(CollatedFrameRing)
      /\ ~IsMarker(m) /\ See("CtoP", m.Value)
      /\ \/ m.kind = "jump" /\ ParseJump /\ UNCHANGED ParsedFrameRing
         \/ IsFrame(m) /\ UNCHANGED <<parse, ParsedFrameRing>>
         \/ IsFrame(m) /\ ParseFrame(m.id) /\ ParsedFrameRing' = Append(ParsedFrameRing, m)
      /\ NextBufferSequenceNumber' = NextBufferSequenceNumber + 1
      /\ UNCHANGED <<DecodedFrameRing, ManifestedBufferRing, input, switch,
                     DiscardingUntilMarkerFrame, PtoDBuffer,
                     codec, dtom, Accumulated, manifestor, drn>>
  BY DEF CtoPFrame, NumberedNow
<1>2. h \in CollatedItems  BY <1>0, <1>1, HeadsAre
<1>3. /\ h \in InC /\ InC = InC' \cup {h}
  BY <1>0, <1>1, TailIs DEF Typed, InC
<1>4. m.kind = h.kind /\ m.id = h.id /\ m.Value = NextBufferSequenceNumber
  BY <1>2 DEF CollatedItems, FrameItems, MarkerItems, Others, NumberedNow
<1>5. ASSUME IsFrame(m) PROVE m \in FrameItems
  <2>1. h \in FrameItems  BY <1>2, <1>4, <1>5, CollatedIs DEF IsFrame
  <2> QED BY <2>1, <1>0, FrameIs DEF NumberedNow
<1> HIDE DEF m, h
<1>6. SeenLast' = SeenLast
  BY <1>0, <1>1, <1>4, SeeIs DEF MessageRanges, SeenLast, Processes
<1>7. /\ InH' = InH /\ InK' = InK /\ InD' = InD /\ InF' = InF /\ InX' = InX /\ InT' = InT /\ InB' = InB
  BY <1>1 DEF InH, InK, InD, InF, InX, InT, InB, ToSet, dtom
<1>8. Received
  BY <1>1, <1>3, <1>6, <1>7 DEF Received, input, drn, dtom, h
<1>9. /\ ~IsMarker(h) /\ (IsFrame(m) <=> IsFrame(h)) /\ (m.kind = "jump" <=> IsJump(h))
      /\ IsFrame(h) => ~IsJump(h)
  BY <1>1, <1>4 DEF IsMarker, IsFrame, IsJump
<1>10. UNCHANGED ParsedFrameRing => InP' = InP  BY DEF InP, ToSet
<1>11. ParsedFrameRing' = Append(ParsedFrameRing, m) => InP' = InP \cup {m}
  BY <1>0, AppendAdds DEF Typed, InP
<1>12. \/ InP' = InP /\ UNCHANGED parse /\ ~IsJump(h)
       \/ InP' = InP /\ IsJump(h) /\ ParseJump
       \/ /\ IsFrame(h) /\ ~IsJump(h) /\ ParseFrame(h.id)
          /\ InP' = InP \cup {m}
          /\ m \in FrameItems /\ m.id = h.id /\ m.Value = NextBufferSequenceNumber
  <2>1. CASE m.kind = "jump" /\ ParseJump /\ UNCHANGED ParsedFrameRing  BY <2>1, <1>9, <1>10
  <2>2. CASE IsFrame(m) /\ UNCHANGED <<parse, ParsedFrameRing>>  BY <2>2, <1>9, <1>10
  <2>3. CASE IsFrame(m) /\ ParseFrame(m.id) /\ ParsedFrameRing' = Append(ParsedFrameRing, m)
    BY <2>3, <1>4, <1>5, <1>9, <1>11
  <2> QED BY <2>1, <2>2, <2>3, <1>1
<1> QED BY <1>1, <1>2, <1>3, <1>8, <1>9, <1>12 DEF m, h

\* What a step that is not of CollateToParse does to its ring and to the parser.
LEMMA RingOfCollation ==
  ASSUME Typed,
         \/ UNCHANGED vars \/ Downstream \/ Entry \/ DrainInsert \/ Rest
         \/ \E policy \in Policies : DrainBegin(policy)
         \/ \E isReference \in BOOLEAN : Collate(isReference)
  PROVE  /\ UNCHANGED <<NextBufferSequenceNumber, parse>>
         /\ \/ UNCHANGED CollatedFrameRing /\ InC' = InC
            \/ \E isReference \in BOOLEAN : Collate(isReference)
            \/ DrainJump \/ DrainInsert
         /\ UNCHANGED <<collated, reference>> \/ \E isReference \in BOOLEAN : Collate(isReference)
<1>1. UNCHANGED <<NextBufferSequenceNumber, parse>>
  BY DEF vars, Downstream, Entry, Rest, DrainBegin, Collate, PtoDExtract, PtoDPass, PtoDDiscard, CodecOutput,
     DtoMSelect, DtoMMarker, DtoMExtract, DtoMTimeout, DtoMManifest, DtoMDiscard, Manifest, PostMExtract,
     DrainJump, DrainCodec, DrainRelease, DrainCheck, DrainNumber, DrainInsert, DrainCallBefore,
     DrainCallAfter, DrainReturn, parse
<1>2. \/ UNCHANGED <<CollatedFrameRing, collated, reference>>
      \/ \E isReference \in BOOLEAN : Collate(isReference)
      \/ UNCHANGED <<collated, reference>> /\ (DrainJump \/ DrainInsert)
  BY DEF vars, Downstream, Entry, Rest, DrainBegin, PtoDExtract, PtoDPass, PtoDDiscard, CodecOutput,
     DtoMSelect, DtoMMarker, DtoMExtract, DtoMTimeout, DtoMManifest, DtoMDiscard, Manifest, PostMExtract,
     DrainJump, DrainCodec, DrainRelease, DrainCheck, DrainNumber, DrainInsert, DrainCallBefore,
     DrainCallAfter, DrainReturn, rings, input
<1>3. UNCHANGED CollatedFrameRing => InC' = InC  BY DEF InC, ToSet
<1> QED BY <1>1, <1>2, <1>3

-----------------------------------------------------------------------------
\* A process that changes its own calls leaves those of the others.
LEMMA OthersCalls ==
  ASSUME CallsTyped, NEW p \in Processes, NEW q \in Processes \ {p}
  PROVE  /\ \A S : Accumulated' = [Accumulated EXCEPT ![p] = @ \ S] => Accumulated'[q] = Accumulated[q]
         /\ \A m : Accumulate(p, m) => Accumulated'[q] = Accumulated[q]
<1>1. DOMAIN Accumulated = Processes  BY DEF CallsTyped
<1> QED BY <1>1 DEF Accumulate

\* No halt, no new call of CollateToParse or ParseToDecode, and PostManifest as before.
CallsKept ==
  /\ switch'.halted = {} /\ Accumulated'["CtoP"] = {} /\ Accumulated'["PtoD"] = {}
  /\ SeenLast' = SeenLast /\ Accumulated'["PostM"] = Accumulated["PostM"]

\* Halts, numbers seen and calls kept.
LEMMA MessagesKept ==
  ASSUME TypeInv, Unswitched,
         \/ UNCHANGED vars \/ Downstream \/ Entry \/ DrainInsert \/ Rest
         \/ \E policy \in Policies : DrainBegin(policy)
         \/ \E isReference \in BOOLEAN : Collate(isReference)
  PROVE  /\ switch'.halted = {} /\ Accumulated'["CtoP"] = {} /\ Accumulated'["PtoD"] = {}
         /\ \/ PostMExtract
            \/ SeenLast' = SeenLast /\ Accumulated'["PostM"] = Accumulated["PostM"]
         /\ PostMExtract \/ DrainNumber \/ UNCHANGED Drained
<1>0. Typed /\ CallsTyped /\ MessageRanges /\ SwitchRanges /\ switch.halted = {}
      /\ Accumulated["CtoP"] = {} /\ Accumulated["PtoD"] = {}
      /\ MaximumActualSequenceNumberSeen \in [Processes -> Nat]
  BY DEF TypeInv, Ranges, Unswitched, MessageRanges
<1>1. "CtoP" \in Processes /\ "PtoD" \in Processes /\ "DtoM" \in Processes /\ "PostM" \in Processes
  BY DEF Processes
<1>2. ASSUME UNCHANGED <<switch, Accumulated, MaximumActualSequenceNumberSeen>> PROVE CallsKept
  BY <1>0, <1>2 DEF SeenLast, CallsKept
<1>3. ASSUME PtoDExtract PROVE CallsKept
  <2>1. /\ PtoDBuffer' = Head(ParsedFrameRing) /\ ParsedFrameRing # <<>> /\ See("PtoD", PtoDBuffer'.Value)
        /\ UNCHANGED <<switch, Accumulated>>
    BY <1>3 DEF PtoDExtract
  <2>2. PtoDBuffer'.Value \in Nat  BY <2>1, <1>0, HeadsAre
  <2>3. SeenLast' = SeenLast  BY <2>1, <2>2, <1>0, <1>1, SeeIs DEF SeenLast
  <2> QED BY <2>1, <2>3, <1>0 DEF CallsKept
<1>4. ASSUME PtoDPass \/ PtoDDiscard PROVE CallsKept
  <2>1. PtoDCallsAfter /\ UNCHANGED MaximumActualSequenceNumberSeen  BY <1>4 DEF PtoDPass, PtoDDiscard
  <2>2. Due("PtoD", PtoDBuffer.Value, AfterCalls) = {}  BY <1>0, DueIs
  <2>3. UNCHANGED switch /\ Accumulated' = [Accumulated EXCEPT !["PtoD"] = @ \ {}]
    BY <2>1, <2>2 DEF PtoDCallsAfter
  <2>4. DOMAIN Accumulated = Processes  BY <1>0 DEF CallsTyped
  <2>5. /\ Accumulated'["CtoP"] = Accumulated["CtoP"] /\ Accumulated'["PtoD"] = Accumulated["PtoD"]
        /\ Accumulated'["PostM"] = Accumulated["PostM"]
    BY <2>3, <2>4, <1>1
  <2> QED BY <2>1, <2>3, <2>5, <1>0 DEF SeenLast, CallsKept
\* DecodeToManifest
<1> DEFINE Fewer == \E S : Accumulated' = [Accumulated EXCEPT !["DtoM"] = @ \ S]
           LastOneSeen == switch' = switch \/ switch' = [switch EXCEPT !.LastOneOutOfTheCodec = TRUE]
<1>5. ASSUME \/ Fewer
             \/ \E m : Accumulate("DtoM", m)
             \/ UNCHANGED Accumulated,
             SeenLast' = SeenLast,
             LastOneSeen
      PROVE  CallsKept
  <2>1. ASSUME NEW q \in {"CtoP", "PtoD", "PostM"} PROVE Accumulated'[q] = Accumulated[q]
    <3>1. q \in Processes \ {"DtoM"}  BY <1>1
    <3> QED BY <3>1, <1>0, <1>1, <1>5, OthersCalls
  <2>2. switch'.halted = switch.halted  BY <1>5, <1>0 DEF SwitchRanges
  <2> QED BY <2>1, <2>2, <1>0, <1>5 DEF CallsKept
<1>6. ASSUME NEW m, m.Value \in Nat, See("DtoM", m.Value) PROVE SeenLast' = SeenLast
  BY <1>6, <1>0, <1>1, SeeIs DEF SeenLast
<1>20. ASSUME NEW m, NEW d, m.Value \in Nat, TakeFrame(m, d)
       PROVE  Fewer /\ SeenLast' = SeenLast
  BY <1>20, <1>6 DEF TakeFrame
<1>21. ASSUME NEW due, LastOneOut(due) PROVE LastOneSeen  BY <1>21 DEF LastOneOut
<1>22. UNCHANGED switch => LastOneSeen  OBVIOUS
<1> HIDE DEF Fewer, LastOneSeen
<1>7. ASSUME DtoMSelect PROVE CallsKept
  <2>1. TakeFrame(Lowest, DesiredFrameIndex) /\ UNCHANGED switch /\ Selectable  BY <1>7 DEF DtoMSelect
  <2>2. Lowest.Value \in Nat
    <3>1. Lowest \in FrameItems  BY <2>1, <1>0, SelectedIs DEF TypeInv, Ranges, Typed
    <3> QED BY <3>1, FrameIs
  <2> QED BY <2>1, <2>2, <1>5, <1>20, <1>22
<1>8. ASSUME DtoMMarker PROVE CallsKept
  <2>1. /\ IsMarker(MarkerFrameBuffer) /\ See("DtoM", MarkerFrameBuffer.Value)
        /\ Fewer /\ LastOneSeen
    BY <1>8, <1>21 DEF DtoMMarker, Fewer
  <2>2. MarkerFrameBuffer.Value \in Nat  BY <2>1, <1>0, HeadsAre
  <2>3. SeenLast' = SeenLast  BY <2>1, <2>2, <1>6
  <2> QED BY <2>1, <2>3, <1>5
<1>9. ASSUME DtoMExtract PROVE CallsKept
  <2> DEFINE m == Head(DecodedFrameRing)
             d == SkipNonDecoded.desired
  <2>1. /\ DecodedFrameRing # <<>>
        /\ \/ LastOneOut({m}) /\ UNCHANGED <<Accumulated, MaximumActualSequenceNumberSeen>>
           \/ Accumulate("DtoM", m) /\ UNCHANGED <<switch, MaximumActualSequenceNumberSeen>>
           \/ UNCHANGED <<switch, Accumulated, MaximumActualSequenceNumberSeen>>
           \/ TakeFrame(m, d) /\ UNCHANGED switch
    BY <1>9 DEF DtoMExtract, msgs
  <2>2. m.Value \in Nat  BY <2>1, <1>0, HeadsAre
  <2> HIDE DEF m, d
  <2>3. CASE LastOneOut({m}) /\ UNCHANGED <<Accumulated, MaximumActualSequenceNumberSeen>>
    BY <2>3, <1>5, <1>21 DEF SeenLast
  <2>4. CASE Accumulate("DtoM", m) /\ UNCHANGED <<switch, MaximumActualSequenceNumberSeen>>
    BY <2>4, <1>5, <1>22 DEF SeenLast
  <2>5. CASE TakeFrame(m, d) /\ UNCHANGED switch
    BY <2>5, <2>2, <1>5, <1>20, <1>22
  <2> QED BY <2>1, <2>3, <2>4, <2>5, <1>2
<1>10. ASSUME DtoMManifest \/ DtoMDiscard PROVE CallsKept
  <2>1. DtoMCallsAfter(DtoMBuffer) /\ UNCHANGED MaximumActualSequenceNumberSeen
    BY <1>10 DEF DtoMManifest, DtoMDiscard
  <2>2. Fewer /\ LastOneSeen  BY <2>1, <1>21 DEF DtoMCallsAfter, Fewer
  <2>3. SeenLast' = SeenLast  BY <2>1 DEF SeenLast
  <2> QED BY <2>2, <2>3, <1>5
<1>11. ASSUME PostMExtract
       PROVE  switch'.halted = {} /\ Accumulated'["CtoP"] = {} /\ Accumulated'["PtoD"] = {}
  <2>1. /\ \/ \E S : Accumulated' = [Accumulated EXCEPT !["PostM"] = @ \ S]
           \/ \E m : Accumulate("PostM", m)
           \/ UNCHANGED Accumulated
        /\ switch' = switch \/ switch' = [switch EXCEPT !.CodecReset = FALSE, !.InProgress = FALSE]
    BY <1>11 DEF PostMExtract, PostMCall
  <2>2. ASSUME NEW q \in {"CtoP", "PtoD"} PROVE Accumulated'[q] = Accumulated[q]
    <3>1. q \in Processes \ {"PostM"}  BY <1>1
    <3> QED BY <3>1, <1>0, <1>1, <2>1, OthersCalls
  <2>3. switch'.halted = switch.halted  BY <2>1, <1>0 DEF SwitchRanges
  <2> QED BY <2>2, <2>3, <1>0
<1>12. ASSUME \/ UNCHANGED vars \/ CodecOutput \/ DtoMTimeout \/ Manifest \/ Entry \/ DrainInsert \/ Rest
              \/ \E policy \in Policies : DrainBegin(policy)
              \/ \E isReference \in BOOLEAN : Collate(isReference)
       PROVE CallsKept
  BY <1>2, <1>12 DEF vars, CodecOutput, DtoMTimeout, Manifest, Entry, Rest, DrainBegin, Collate,
     DrainJump, DrainCodec, DrainRelease, DrainCheck, DrainNumber, DrainInsert, DrainCallBefore,
     DrainCallAfter, DrainReturn, msgs
<1>13. PostMExtract \/ CallsKept
  <2>1. Downstream => PostMExtract \/ CallsKept
    BY <1>3, <1>4, <1>7, <1>8, <1>9, <1>10, <1>12 DEF Downstream
  <2>2. UNCHANGED vars \/ Entry \/ DrainInsert \/ Rest => CallsKept  BY <1>12
  <2>3. \A policy \in Policies : DrainBegin(policy) => CallsKept  BY <1>12
  <2>4. (\E isReference \in BOOLEAN : Collate(isReference)) => CallsKept  BY <1>12
  <2> HIDE DEF CallsKept
  <2> QED BY <2>1, <2>2, <2>3, <2>4
<1>14. PostMExtract \/ DrainNumber \/ UNCHANGED Drained
  BY DEF vars, Downstream, PtoDExtract, PtoDPass, PtoDDiscard, CodecOutput, DtoMSelect, DtoMMarker,
     DtoMExtract, DtoMTimeout, DtoMManifest, DtoMDiscard, Manifest, Entry, Rest, DrainBegin, Collate,
     DrainJump, DrainCodec, DrainRelease, DrainCheck, DrainInsert, DrainCallBefore,
     DrainCallAfter, DrainReturn, drn
<1> QED BY <1>11, <1>13, <1>14 DEF CallsKept

\* What is put into the ring of collation.
LEMMA CollationAdds ==
  ASSUME TypeInv,
         (\E isReference \in BOOLEAN : Collate(isReference)) \/ DrainJump \/ DrainInsert
  PROVE  \E e : /\ CollatedFrameRing' = Append(CollatedFrameRing, e) /\ e \in CollatedItems
                /\ InC' = InC \cup {e} /\ ~IsControl(e)
                /\ DrainJump => IsJump(e) /\ ~IsMarker(e) /\ ~IsFrame(e)
                /\ DrainInsert => /\ IsMarker(e) /\ ~IsFrame(e) /\ ~IsJump(e)
                                  /\ e.Value = DrainSequenceNumber
                /\ (\E isReference \in BOOLEAN : Collate(isReference)) =>
                     /\ IsFrame(e) /\ ~IsMarker(e) /\ ~IsJump(e) /\ e.id = collated + 1
<1>0. Typed /\ DrainSequenceNumber \in Nat /\ collated \in 0 .. MaxFrames /\ Exchanges
      /\ drain.n \in 0 .. MaxDrains
  <2>1. drain.n \in 0 .. MaxDrains  BY DEF TypeInv, Ranges, DrainRanges
  <2> QED BY <2>1 DEF TypeInv, Ranges, MessageRanges, InputRanges
<1>1. ASSUME NEW e \in CollatedItems, CollatedFrameRing' = Append(CollatedFrameRing, e)
      PROVE  InC' = InC \cup {e}
  BY <1>0, <1>1, AppendAdds DEF Typed, InC
<1>2. ASSUME NEW kind, NEW id, NEW v
      PROVE  /\ Item(kind, id, v).kind = kind /\ Item(kind, id, v).id = id
             /\ Item(kind, id, v).Value = v
  BY DEF Item
<1>3. ASSUME NEW isReference \in BOOLEAN, Collate(isReference)
      PROVE  /\ CollatedFrameRing' = Append(CollatedFrameRing, Item("frame", collated + 1, 0))
             /\ Item("frame", collated + 1, 0) \in CollatedItems
             /\ ~DrainJump /\ ~DrainInsert
  <2>1. /\ CollatedFrameRing' = Append(CollatedFrameRing, Item("frame", collated + 1, 0))
        /\ collated < MaxFrames /\ collated' = collated + 1
    BY <1>3 DEF Collate
  <2>2. collated + 1 \in Frames  BY <2>1, <1>0, Bounds
  <2>3. collated' # collated  BY <2>1, <1>0
  <2>4. ~DrainJump /\ ~DrainInsert  BY <2>3 DEF DrainJump, DrainInsert, input
  <2> QED BY <2>1, <2>2, <2>4, MadeItems, ItemSets
<1>4. ASSUME DrainJump
      PROVE  /\ CollatedFrameRing' = Append(CollatedFrameRing, Item("jump", None, 0))
             /\ Item("jump", None, 0) \in CollatedItems
             /\ drain.pc = "jump"
  BY <1>4, MadeItems, ItemSets DEF DrainJump, At
<1>5. ASSUME DrainInsert
      PROVE  /\ CollatedFrameRing' =
                  Append(CollatedFrameRing, Item("marker", drain.n, DrainSequenceNumber))
             /\ Item("marker", drain.n, DrainSequenceNumber) \in CollatedItems
             /\ drain.pc = "insert"
  <2>1. drain.pc = "insert"  BY <1>5 DEF DrainInsert, At
  <2>2. drain.n \in Markers  BY <2>1, <1>0, Bounds DEF Exchanges
  <2> QED BY <1>5, <2>1, <2>2, <1>0, MadeItems, ItemSets DEF DrainInsert
<1>6. CASE \E isReference \in BOOLEAN : Collate(isReference)
  <2> DEFINE e == Item("frame", collated + 1, 0)
  <2>1. e.kind = "frame" /\ e.id = collated + 1  BY <1>2
  <2>2. CollatedFrameRing' = Append(CollatedFrameRing, e) /\ e \in CollatedItems
        /\ ~DrainJump /\ ~DrainInsert
    BY <1>3, <1>6
  <2> HIDE DEF e
  <2> QED BY <2>1, <2>2, <1>1 DEF IsControl, BeforeCalls, AfterCalls, IsFrame, IsMarker, IsJump
<1>7. CASE DrainJump
  <2> DEFINE e == Item("jump", None, 0)
  <2>1. e.kind = "jump"  BY <1>2
  <2>2. CollatedFrameRing' = Append(CollatedFrameRing, e) /\ e \in CollatedItems
        /\ ~DrainInsert /\ ~\E isReference \in BOOLEAN : Collate(isReference)
    BY <1>3, <1>4, <1>5, <1>7
  <2> HIDE DEF e
  <2> QED BY <2>1, <2>2, <1>1 DEF IsControl, BeforeCalls, AfterCalls, IsFrame, IsMarker, IsJump
<1>8. CASE DrainInsert
  <2> DEFINE e == Item("marker", drain.n, DrainSequenceNumber)
  <2>1. e.kind = "marker" /\ e.Value = DrainSequenceNumber  BY <1>2
  <2>2. CollatedFrameRing' = Append(CollatedFrameRing, e) /\ e \in CollatedItems
        /\ ~DrainJump /\ ~\E isReference \in BOOLEAN : Collate(isReference)
    BY <1>3, <1>4, <1>5, <1>8
  <2> HIDE DEF e
  <2> QED BY <2>1, <2>2, <1>1 DEF IsControl, BeforeCalls, AfterCalls, IsFrame, IsMarker, IsJump
<1> QED BY <1>6, <1>7, <1>8

-----------------------------------------------------------------------------
\* A drain that begins when the one before it is done.
Begins == \E policy \in Policies : DrainBegin(policy) /\ ~IsSwitch(policy) /\ (drain.n = 0 \/ Drained)
\* The steps of such a stream, those of CollateToParse apart.
Onward == UNCHANGED vars \/ Downstream \/ Entry \/ DrainInsert \/ Rest \/ Begins
           \/ \E isReference \in BOOLEAN : Collate(isReference)
Moves == Onward \/ CtoPMarker \/ CtoPFrame

\* The steps of which some lemmas speak do not say when a drain begins.
LEMMA Moved ==
  ASSUME Onward
  PROVE  \/ UNCHANGED vars \/ Downstream \/ Entry \/ DrainInsert \/ Rest
         \/ \E policy \in Policies : DrainBegin(policy)
         \/ \E isReference \in BOOLEAN : Collate(isReference)
BY DEF Onward, Begins

\* When a drain is on its way in, and when not.
LEMMA EnteringIs ==
  ASSUME TypeInv, Moves
  PROVE  /\ Begins => Entering' /\ drain'.n > 0 /\ drain.pc = "idle" /\ UNCHANGED <<Drained, DrainSequenceNumber>>
         /\ Entering /\ ~DrainInsert => Entering'
         /\ DrainInsert => Entering /\ ~Entering' /\ drain.pc = "insert" /\ drain'.pc = "before"
         /\ ~Entering => Begins \/ (~Entering' /\ UNCHANGED DrainSequenceNumber)
         /\ Begins \/ /\ drain'.n = drain.n /\ drain'.discard = drain.discard
                      /\ drain'.alone = drain.alone /\ drain'.switch = drain.switch
         /\ DrainNumber \/ UNCHANGED DrainSequenceNumber
         /\ DrainNumber => Entering /\ Entering'
         /\ drain.n \in Nat /\ (drain.pc # "idle" => drain.n > 0) /\ ~(Begins /\ Entry)
<1>0. DrainRanges /\ Exchanges  BY DEF TypeInv, Ranges
<1> DEFINE Same == /\ drain'.n = drain.n /\ drain'.discard = drain.discard
                   /\ drain'.alone = drain.alone /\ drain'.switch = drain.switch
<1>1. drain.n \in Nat
  <2>1. drain.n \in 0 .. MaxDrains  BY <1>0 DEF DrainRanges
  <2> QED BY <2>1, Bounds
<1>2. drain.pc # "idle" => drain.n > 0  BY <1>0 DEF Exchanges
<1>3. ASSUME Begins
      PROVE  /\ Entering' /\ drain'.n > 0 /\ drain.pc = "idle"
             /\ UNCHANGED <<Drained, DrainSequenceNumber>> /\ ~Entry
  <2>1. PICK policy \in Policies : DrainBegin(policy)  BY <1>3 DEF Begins
  <2>2. drain'.pc \in {"check", "jump"} /\ drain'.n > 0 /\ drain.pc = "idle"
    BY <2>1, <1>0, DrainRecordIs
  <2>3. UNCHANGED <<Drained, DrainSequenceNumber>>  BY <2>1 DEF DrainBegin
  <2>4. ~Entry  BY <2>2, <1>0, DrainMoves
  <2> QED BY <2>2, <2>3, <2>4 DEF Entering
<1>4. ASSUME UNCHANGED vars \/ Downstream \/ CtoPMarker \/ CtoPFrame
             \/ \E isReference \in BOOLEAN : Collate(isReference)
      PROVE  UNCHANGED drain /\ UNCHANGED DrainSequenceNumber
  <2>1. UNCHANGED drain  BY <1>4, <1>0, DrainMoves DEF vars, drn
  <2>2. UNCHANGED DrainSequenceNumber
    BY <1>4 DEF vars, drn, CtoPMarker, CtoPFrame, Collate, Downstream, PtoDExtract, PtoDPass, PtoDDiscard,
       CodecOutput, DtoMSelect, DtoMMarker, DtoMExtract, DtoMTimeout, DtoMManifest, DtoMDiscard,
       Manifest, PostMExtract
  <2> QED BY <2>1, <2>2
<1>5. ASSUME UNCHANGED drain PROVE Same /\ (Entering <=> Entering')  BY <1>5 DEF Entering
<1>6. ASSUME Entry
      PROVE  /\ Same /\ Entering /\ Entering'
             /\ DrainNumber \/ UNCHANGED DrainSequenceNumber
  BY <1>6, <1>0, DrainMoves
<1>7. ASSUME DrainInsert
      PROVE  /\ Same /\ Entering /\ ~Entering' /\ drain.pc = "insert" /\ drain'.pc = "before"
             /\ UNCHANGED DrainSequenceNumber
  <2>1. Same /\ Entering /\ drain.pc = "insert" /\ drain'.pc = "before" /\ UNCHANGED DrainSequenceNumber
    BY <1>7, <1>0, DrainMoves
  <2>2. drain'.n > 0  BY <2>1, <1>2
  <2> QED BY <2>1, <2>2, <1>1 DEF Entering
<1>8. ASSUME Rest
      PROVE  Same /\ ~Entering /\ ~Entering' /\ UNCHANGED DrainSequenceNumber
  <2>1. Same /\ UNCHANGED DrainSequenceNumber /\ drain.pc \in {"before", "after", "wait"}
        /\ drain'.pc \in {"after", "collator", "wait", "idle"}
    BY <1>8, <1>0, DrainMoves
  <2>2. drain'.n > 0 /\ drain.n > 0  BY <2>1, <1>2
  <2> QED BY <2>1, <2>2, <1>1 DEF Entering
<1>9. DrainNumber => Entry  BY DEF Entry
<1>10. DrainInsert => ~Begins
  BY <1>3, <1>7
<1> HIDE DEF Same
<1>11. \/ UNCHANGED drain /\ UNCHANGED DrainSequenceNumber /\ ~DrainInsert /\ ~DrainNumber
       \/ Entry \/ DrainInsert \/ Rest \/ Begins
  <2>1. UNCHANGED drain => ~DrainInsert
    <3>1. ASSUME UNCHANGED drain, DrainInsert PROVE FALSE
      BY <3>1, <1>7
    <3> QED BY <3>1
  <2>2. DrainNumber => Entry  BY <1>9
  <2> QED BY <2>1, <2>2, <1>4 DEF Moves, Onward
<1>12. CASE UNCHANGED drain /\ UNCHANGED DrainSequenceNumber /\ ~DrainInsert /\ ~DrainNumber
  BY <1>12, <1>1, <1>2, <1>3, <1>5 DEF Same
<1>13. CASE Entry
  <2>1. ~DrainInsert
    <3>1. ASSUME DrainInsert PROVE FALSE  BY <3>1, <1>6, <1>7, <1>13
    <3> QED BY <3>1
  <2> QED BY <2>1, <1>13, <1>1, <1>2, <1>3, <1>6 DEF Same
<1>14. CASE DrainInsert
  <2>1. ~DrainNumber
    <3>1. ASSUME DrainNumber PROVE FALSE  BY <3>1, <1>6, <1>7, <1>9, <1>14
    <3> QED BY <3>1
  <2> QED BY <2>1, <1>14, <1>1, <1>2, <1>3, <1>7, <1>10 DEF Same
<1>15. CASE Rest
  <2>1. ~DrainNumber /\ ~DrainInsert
    BY <1>6, <1>7, <1>8, <1>9, <1>15
  <2> QED BY <2>1, <1>15, <1>1, <1>2, <1>3, <1>8 DEF Same
<1>16. CASE Begins
  <2>1. ~DrainNumber /\ ~DrainInsert
    BY <1>3, <1>7, <1>9, <1>16
  <2> QED BY <2>1, <1>16, <1>1, <1>2, <1>3
<1> QED BY <1>11, <1>12, <1>13, <1>14, <1>15, <1>16

\* No control structure is put into the first two rings.
LEMMA UnswitchedStep ==
  ASSUME TypeInv, Unswitched, Coming, Moves
  PROVE  Unswitched'
<1>0. Typed /\ ParseRanges /\ DrainRanges  BY DEF TypeInv, Ranges
<1>1. ~drain'.switch
  <2>1. CASE Begins
    <3>1. PICK policy \in Policies : DrainBegin(policy) /\ ~IsSwitch(policy)  BY <2>1 DEF Begins
    <3> QED BY <3>1, <1>0, DrainRecordIs
  <2> QED BY <2>1, EnteringIs DEF Unswitched
<1>2. CASE CtoPMarker
  <2>1. Received /\ InP' = InP \cup {Head(CollatedFrameRing)} /\ Head(CollatedFrameRing) \in MarkerItems
    BY <1>2, MarkerReceived
  <2>2. switch'.halted = {} /\ Accumulated'["CtoP"] = {} /\ Accumulated'["PtoD"] = {}
    BY <2>1 DEF Received, Unswitched, Processes
  <2>3. InC' \subseteq InC  BY <2>1 DEF Received
  <2> QED BY <1>1, <2>1, <2>2, <2>3, MarkerIs DEF Unswitched
<1>3. CASE CtoPFrame
  <2>1. PICK m : Received /\ (InP' = InP \/ (InP' = InP \cup {m} /\ m \in FrameItems))
    BY <1>3, FrameReceived
  <2>2. switch'.halted = {} /\ Accumulated'["CtoP"] = {} /\ Accumulated'["PtoD"] = {}
    BY <2>1 DEF Received, Unswitched, Processes
  <2>3. InC' \subseteq InC  BY <2>1 DEF Received
  <2> QED BY <1>1, <2>1, <2>2, <2>3, FrameIs DEF Unswitched
<1>4. CASE Onward
  <2>1. switch'.halted = {} /\ Accumulated'["CtoP"] = {} /\ Accumulated'["PtoD"] = {}
    BY <1>4, Moved, MessagesKept
  <2>2. InP' \subseteq InP  BY <1>0, <1>4, Moved, FlowIs DEF Flow
  <2>3. \A m \in InC' : m \in InC \/ ~IsControl(m)
    <3>1. CASE InC' = InC  BY <3>1
    <3>2. CASE (\E isReference \in BOOLEAN : Collate(isReference)) \/ DrainJump \/ DrainInsert
      BY <3>2, CollationAdds
    <3> QED BY <1>0, <1>4, <3>1, <3>2, Moved, RingOfCollation
  <2> QED BY <1>1, <2>1, <2>2, <2>3 DEF Unswitched
<1> QED BY <1>2, <1>3, <1>4 DEF Moves

-----------------------------------------------------------------------------
\* What becomes of the ring of PostManifest: it is taken from, or added to.
AtTheEnd(m) ==
  \/ IsFrame(m)
  \/ IsMarker(m) /\ DtoMMarker /\ m \in InF
  \/ IsSetDrained(m) /\ DrainCallAfter /\ m.Value = DrainSequenceNumber
\* The ring of PostManifest without its first, and with something at its end.
RingTaken ==
  /\ ManifestedBufferRing # <<>> /\ Len(ManifestedBufferRing) \in Nat
  /\ DOMAIN ManifestedBufferRing' = 1 .. Len(ManifestedBufferRing) - 1
  /\ \A i \in 1 .. Len(ManifestedBufferRing) - 1 :
       ManifestedBufferRing'[i] = ManifestedBufferRing[i + 1]
RingAdded ==
  \E n \in Nat :
    /\ DOMAIN ManifestedBufferRing' = 1 .. Len(ManifestedBufferRing) + n
    /\ \A i \in 1 .. Len(ManifestedBufferRing) :
         ManifestedBufferRing'[i] = ManifestedBufferRing[i]
    /\ \A i \in Len(ManifestedBufferRing) + 1 .. Len(ManifestedBufferRing) + n :
         /\ AtTheEnd(ManifestedBufferRing'[i])
         /\ IsFrame(ManifestedBufferRing'[i]) \/ n = 1

\* One more, or some frames more.
LEMMA OneAdded ==
  ASSUME Typed, NEW e, AtTheEnd(e), ManifestedBufferRing' = Append(ManifestedBufferRing, e)
  PROVE  RingAdded
<1> DEFINE r == ManifestedBufferRing
           s == ManifestedBufferRing'
<1>1. r \in Seq(ManifestedItems)  BY DEF Typed
<1>2. Len(r) \in Nat  BY <1>1
<1>3. /\ DOMAIN s = 1 .. Len(r) + 1 /\ \A i \in 1 .. Len(r) : s[i] = r[i]
      /\ s[Len(r) + 1] = e
  BY <1>1
<1> HIDE DEF r, s
<1>4. \A i \in Len(r) + 1 .. Len(r) + 1 : i = Len(r) + 1  BY <1>2
<1>5. 1 \in Nat  OBVIOUS
<1> QED BY <1>3, <1>4, <1>5 DEF RingAdded, r, s

\* Frames the manifestor gives up join the ring of PostManifest.
LEMMA FramesAdded ==
  ASSUME Typed, NEW t \in Seq(FrameItems), ManifestedBufferRing' = ManifestedBufferRing \o t
  PROVE  RingAdded
<1> DEFINE r == ManifestedBufferRing
           s == ManifestedBufferRing'
<1>1. r \in Seq(ManifestedItems)  BY DEF Typed
<1>2. Len(r) \in Nat /\ Len(t) \in Nat  BY <1>1
<1>3. /\ DOMAIN s = 1 .. Len(r) + Len(t) /\ \A i \in 1 .. Len(r) : s[i] = r[i]
      /\ \A i \in Len(r) + 1 .. Len(r) + Len(t) : s[i] = t[i - Len(r)]
  BY <1>1
<1>4. \A i \in Len(r) + 1 .. Len(r) + Len(t) : i - Len(r) \in 1 .. Len(t)  BY <1>2
<1>5. \A i \in 1 .. Len(t) : t[i] \in FrameItems  OBVIOUS
<1> HIDE DEF r, s
<1>6. \A i \in Len(r) + 1 .. Len(r) + Len(t) : IsFrame(s[i])  BY <1>3, <1>4, <1>5, FrameIs
<1> QED BY <1>2, <1>3, <1>6 DEF RingAdded, AtTheEnd, r, s

\* PostManifest takes the first of its ring; whatever else a step does adds to the end.
LEMMA RingOfPostManifest ==
  ASSUME TypeInv, Moves
  PROVE  (PostMExtract /\ RingTaken) \/ (~PostMExtract /\ RingAdded)
<1>0. Typed /\ ManifestedBufferRing \in Seq(ManifestedItems) /\ manifestor \in Seq(FrameItems)
  BY DEF TypeInv, Typed
<1>1. ASSUME PostMExtract PROVE RingTaken
  <2>1. ManifestedBufferRing # <<>> /\ ManifestedBufferRing' = Tail(ManifestedBufferRing)
    BY <1>1 DEF PostMExtract
  <2>2. /\ Tail(ManifestedBufferRing) \in Seq(ManifestedItems)
        /\ Len(Tail(ManifestedBufferRing)) = Len(ManifestedBufferRing) - 1
        /\ Len(ManifestedBufferRing) \in Nat
        /\ \A i \in 1 .. Len(ManifestedBufferRing) - 1 :
             Tail(ManifestedBufferRing)[i] = ManifestedBufferRing[i + 1]
    BY <1>0, <2>1, TailIs
  <2>3. DOMAIN Tail(ManifestedBufferRing) = 1 .. Len(ManifestedBufferRing) - 1
    BY <2>2, MembersOf
  <2> QED BY <2>1, <2>2, <2>3 DEF RingTaken
<1>2. ASSUME UNCHANGED ManifestedBufferRing PROVE RingAdded
  <2>1. DOMAIN ManifestedBufferRing = 1 .. Len(ManifestedBufferRing) /\ Len(ManifestedBufferRing) \in Nat
    BY <1>0
  <2>2. 0 \in Nat /\ Len(ManifestedBufferRing) + 0 = Len(ManifestedBufferRing)
        /\ Len(ManifestedBufferRing) + 1 .. Len(ManifestedBufferRing) + 0 = {}
    BY <2>1
  <2> QED BY <1>2, <2>1, <2>2 DEF RingAdded
<1>3. ASSUME DtoMMarker PROVE RingAdded
  <2>1. /\ IsMarker(MarkerFrameBuffer)
        /\ ManifestedBufferRing' = Append(ManifestedBufferRing, MarkerFrameBuffer)
    BY <1>3 DEF DtoMMarker
  <2>2. MarkerFrameBuffer \in InF  BY <2>1, NothingIs DEF InF, InHand
  <2> QED BY <1>0, <1>3, <2>1, <2>2, OneAdded DEF AtTheEnd
<1>4. ASSUME Manifest PROVE RingAdded
  <2>1. /\ manifestor # <<>>
        /\ ManifestedBufferRing' = Append(ManifestedBufferRing, Head(manifestor))
    BY <1>4 DEF Manifest
  <2>2. IsFrame(Head(manifestor))  BY <1>0, <2>1, HeadsAre, FrameIs
  <2> QED BY <1>0, <2>1, <2>2, OneAdded DEF AtTheEnd
<1>5. ASSUME DrainRelease PROVE RingAdded
  <2>1. PICK shown \in 0 .. Min({1, Len(manifestor)}) :
          ManifestedBufferRing' =
            ManifestedBufferRing \o SubSeq(manifestor, shown + 1, Len(manifestor))
    BY <1>5 DEF DrainRelease
  <2>2. shown \in 0 .. Len(manifestor)
    <3>1. FrameItems \subseteq ManifestedItems  BY ItemSets
    <3> QED BY <1>0, <3>1, ReleasedIs
  <2>3. SubSeq(manifestor, shown + 1, Len(manifestor)) \in Seq(FrameItems)
    <3>1. \A i \in shown + 1 .. Len(manifestor) : manifestor[i] \in FrameItems
      BY <1>0, <2>2
    <3>2. Len(manifestor) \in Nat  BY <1>0
    <3>3. shown \in Nat  BY <2>2, <3>2
    <3> QED BY <1>0, <3>1, <3>2, <3>3
  <2> QED BY <1>0, <2>1, <2>3, FramesAdded
<1>6. ASSUME DrainCallAfter PROVE RingAdded
  <2> DEFINE e == Item("SetDrained", None, DrainSequenceNumber)
  <2>1. ManifestedBufferRing' = Append(ManifestedBufferRing, e)  BY <1>6 DEF DrainCallAfter
  <2>2. e.kind = "SetDrained" /\ e.Value = DrainSequenceNumber  BY DEF Item
  <2> HIDE DEF e
  <2> QED BY <1>0, <1>6, <2>1, <2>2, OneAdded DEF AtTheEnd, IsSetDrained
<1>7. \/ PostMExtract \/ DtoMMarker \/ Manifest \/ DrainRelease \/ DrainCallAfter
      \/ UNCHANGED ManifestedBufferRing
  BY DEF Moves, Onward, Begins, vars, rings, Downstream, Entry, Rest, DrainBegin, Collate, CtoPMarker, CtoPFrame,
     PtoDExtract, PtoDPass, PtoDDiscard, CodecOutput, DtoMSelect, DtoMExtract, DtoMTimeout,
     DtoMManifest, DtoMDiscard, DrainJump, DrainCodec, DrainCheck, DrainNumber, DrainInsert,
     DrainCallBefore, DrainReturn
<1>8. CASE PostMExtract  BY <1>1, <1>8
<1>9. CASE ~PostMExtract
  <2>1. RingAdded  BY <1>2, <1>3, <1>4, <1>5, <1>6, <1>7, <1>9
  <2> QED BY <2>1, <1>9
<1> QED BY <1>8, <1>9

\* Markers come up from below.
LEMMA MarkerAboveStep ==
  ASSUME TypeInv, Chain, MarkerAbove, Moves
  PROVE  MarkerAbove'
<1> DEFINE r == ManifestedBufferRing
           s == ManifestedBufferRing'
<1>0. r \in Seq(ManifestedItems) /\ Len(r) \in Nat /\ DOMAIN r = 1 .. Len(r)
  BY DEF TypeInv, Typed
<1>1. SUFFICES ASSUME NEW j \in DOMAIN s, IsMarker(s[j]), NEW i \in 1 .. j - 1, ~IsControl(s[i])
               PROVE  s[i].Value < s[j].Value
  BY DEF MarkerAbove
<1>2. ASSUME NEW b \in DOMAIN r, IsMarker(r[b]), NEW a \in 1 .. b - 1, ~IsControl(r[a])
      PROVE  r[a].Value < r[b].Value
  BY <1>2 DEF MarkerAbove
<1>3. CASE PostMExtract /\ RingTaken
  <2>1. /\ j \in 1 .. Len(r) - 1 /\ \A k \in 1 .. Len(r) - 1 : s[k] = r[k + 1]
    BY <1>3 DEF RingTaken
  <2> HIDE DEF r, s
  <2>2. i \in 1 .. Len(r) - 1 /\ j + 1 \in DOMAIN r /\ i + 1 \in 1 .. (j + 1) - 1
    BY <1>0, <1>1, <2>1
  <2>3. s[i] = r[i + 1] /\ s[j] = r[j + 1]  BY <2>1, <2>2
  <2> QED BY <1>1, <1>2, <2>2, <2>3
<1>4. CASE RingAdded
  <2>1. PICK n \in Nat :
          /\ DOMAIN s = 1 .. Len(r) + n
          /\ \A k \in 1 .. Len(r) : s[k] = r[k]
          /\ \A k \in Len(r) + 1 .. Len(r) + n : AtTheEnd(s[k]) /\ (IsFrame(s[k]) \/ n = 1)
    BY <1>4 DEF RingAdded
  <2>2. \A k \in 1 .. Len(r) : r[k] \in InX
    BY <1>0, MembersOf DEF InX
  <2> HIDE DEF r, s
  <2>3. CASE j \in 1 .. Len(r)
    <3>1. i \in 1 .. Len(r)  BY <2>3, <1>0, <1>1
    <3> QED BY <1>0, <1>1, <1>2, <2>1, <2>3, <3>1
  <2>4. CASE j \notin 1 .. Len(r)
    <3>1. j \in Len(r) + 1 .. Len(r) + n  BY <2>4, <2>1, <1>0, <1>1
    <3>2. s[j] \in InF /\ n = 1
      BY <3>1, <2>1, <1>1 DEF AtTheEnd, IsSetDrained, IsMarker, IsFrame
    <3>3. i \in 1 .. Len(r)  BY <3>1, <3>2, <1>0, <1>1
    <3>4. s[i] \in InX  BY <3>3, <2>1, <2>2
    <3>5. ~IsControl(s[j])  BY <1>1 DEF IsMarker, IsControl, BeforeCalls, AfterCalls
    <3> QED BY <1>1, <3>2, <3>4, <3>5 DEF Chain, ChainLess, Less
  <2> QED BY <2>3, <2>4
<1> QED BY <1>3, <1>4, RingOfPostManifest

-----------------------------------------------------------------------------
\* A marker in the ring of collation has a number that is still to be given.
LEMMA MarkerToCome ==
  ASSUME TypeInv, Coming, NEW m \in InC, IsMarker(m)
  PROVE  m \in MarkerItems /\ NextBufferSequenceNumber <= m.Value
<1>0. CollatedFrameRing \in Seq(CollatedItems) /\ NextBufferSequenceNumber \in Nat
  BY DEF TypeInv, Typed, Ranges, MessageRanges
<1>1. PICK k \in DOMAIN CollatedFrameRing : m = CollatedFrameRing[k]  BY DEF InC, ToSet
<1>2. k \in Nat /\ k >= 1 /\ m \in CollatedItems  BY <1>0, <1>1
<1>3. m \in MarkerItems /\ m.Value \in Nat  BY <1>2, CollatedIs
<1>4. NextBufferSequenceNumber + k - 1 <= m.Value  BY <1>1 DEF Coming
<1> QED BY <1>0, <1>2, <1>3, <1>4

\* Markers come from the ring of collation, and into it from a drain.
LEMMA MarkersFrom ==
  ASSUME TypeInv, Unswitched, Coming, Moves
  PROVE  \A m \in InC' \cup Everywhere' : IsMarker(m) =>
           \/ m \in InC \cup Everywhere
           \/ DrainInsert /\ m \in InC' /\ m.Value = DrainSequenceNumber
<1>0. Typed /\ ParseRanges  BY DEF TypeInv, Ranges
<1>1. CASE CtoPMarker
  <2>1. Received /\ InP' = InP \cup {Head(CollatedFrameRing)} /\ Head(CollatedFrameRing) \in InC
    BY <1>1, MarkerReceived
  <2> QED BY <2>1 DEF Received, Everywhere, InX, InT, InB
<1>2. CASE CtoPFrame
  <2>1. PICK m : Received /\ (InP' = InP \/ (InP' = InP \cup {m} /\ m \in FrameItems))
    BY <1>2, FrameReceived
  <2>2. InC' \subseteq InC  BY <2>1 DEF Received
  <2>3. Everywhere' \subseteq Everywhere \cup {m}  BY <2>1 DEF Received, Everywhere
  <2>4. Everywhere' = Everywhere \/ ~IsMarker(m)
    <3>1. InP' = InP => Everywhere' = Everywhere  BY <2>1 DEF Received, Everywhere
    <3> QED BY <2>1, <3>1, FrameIs
  <2> QED BY <2>2, <2>3, <2>4
<1>3. CASE Onward
  <2>1. \A m \in Everywhere' : IsMarker(m) => m \in Everywhere
    BY <1>0, <1>3, Moved, FlowIs DEF IsBuffer
  <2>2. \A m \in InC' : IsMarker(m) =>
           \/ m \in InC
           \/ DrainInsert /\ m.Value = DrainSequenceNumber
    <3>1. CASE InC' = InC  BY <3>1
    <3>2. CASE (\E isReference \in BOOLEAN : Collate(isReference)) \/ DrainJump \/ DrainInsert
      BY <3>2, CollationAdds
    <3> QED BY <1>0, <1>3, <3>1, <3>2, Moved, RingOfCollation
  <2> QED BY <2>1, <2>2
<1> QED BY <1>1, <1>2, <1>3 DEF Moves

\* What PostManifest has seen when it has taken a buffer.
LEMMA SeenIs ==
  ASSUME TypeInv, PostMExtract
  PROVE  /\ SeenLast \in Nat /\ SeenLast' \in Nat /\ SeenLast <= SeenLast'
         /\ LET m == Head(ManifestedBufferRing) IN
            /\ m \in InX /\ m.Value \in Nat /\ m = ManifestedBufferRing[1]
            /\ \/ ~IsControl(m) /\ m.Value <= SeenLast' /\ SeenLast' \in {SeenLast, m.Value}
               \/ IsControl(m) /\ SeenLast' = SeenLast
<1> DEFINE m == Head(ManifestedBufferRing)
<1>0. Typed /\ MaximumActualSequenceNumberSeen \in [Processes -> Nat] /\ "PostM" \in Processes
  BY DEF TypeInv, Ranges, MessageRanges, Processes
<1>1. /\ ManifestedBufferRing # <<>>
      /\ \/ ~IsControl(m) /\ See("PostM", m.Value)
         \/ IsControl(m) /\ UNCHANGED MaximumActualSequenceNumberSeen
  BY DEF PostMExtract
<1>2. m \in InX /\ m.Value \in Nat /\ m = ManifestedBufferRing[1]
  BY <1>0, <1>1, HeadsAre, TailIs DEF Typed, InX
<1> HIDE DEF m
<1>3. SeenLast \in Nat  BY <1>0 DEF SeenLast
<1>4. CASE ~IsControl(m) /\ See("PostM", m.Value)
  <2>1. SeenLast' = IF SeenLast >= m.Value THEN SeenLast ELSE m.Value
    BY <1>0, <1>2, <1>4, SeeIs DEF SeenLast
  <2> QED BY <2>1, <1>2, <1>3, <1>4 DEF m
<1>5. CASE IsControl(m) /\ UNCHANGED MaximumActualSequenceNumberSeen
  BY <1>2, <1>3, <1>5 DEF SeenLast, m
<1> QED BY <1>1, <1>4, <1>5

\* The number to be given next does not fall.
LEMMA NextRises ==
  ASSUME TypeInv, Unswitched, Coming, Moves
  PROVE  NextBufferSequenceNumber <= NextBufferSequenceNumber' /\ NextBufferSequenceNumber' \in Nat
<1>0. Typed /\ NextBufferSequenceNumber \in Nat  BY DEF TypeInv, Ranges, MessageRanges
<1>1. NextBufferSequenceNumber <= NextBufferSequenceNumber'
  <2>1. CASE CtoPMarker
    <3>1. NextBufferSequenceNumber <= Head(CollatedFrameRing).Value
          /\ NextBufferSequenceNumber' = Head(CollatedFrameRing).Value + 1
          /\ Head(CollatedFrameRing) \in MarkerItems
      BY <2>1, MarkerReceived
    <3> QED BY <3>1, <1>0, MarkerIs
  <2>2. CASE CtoPFrame  BY <2>2, <1>0, FrameReceived
  <2>3. CASE Onward  BY <2>3, <1>0, Moved, RingOfCollation
  <2> QED BY <2>1, <2>2, <2>3 DEF Moves
<1>2. NextBufferSequenceNumber' \in Nat
  <2>1. CASE CtoPMarker
    <3>1. NextBufferSequenceNumber' = Head(CollatedFrameRing).Value + 1
          /\ Head(CollatedFrameRing) \in MarkerItems
      BY <2>1, MarkerReceived
    <3> QED BY <3>1, MarkerIs
  <2>2. CASE CtoPFrame  BY <2>2, <1>0, FrameReceived
  <2>3. CASE Onward  BY <2>3, <1>0, Moved, RingOfCollation
  <2> QED BY <2>1, <2>2, <2>3 DEF Moves
<1> QED BY <1>1, <1>2

\* Every step keeps what PostManifest has seen below the markers still to come.
LEMMA SeenBelowStep ==
  ASSUME TypeInv, Chain, Coming, Unswitched, SeenBelow, MarkerAbove, OneMarker,
         InsertedInTime, drain.alone, Moves
  PROVE  SeenBelow'
<1>0. /\ Typed /\ NextBufferSequenceNumber \in Nat /\ DrainSequenceNumber \in Nat
      /\ SeenLast \in Nat
  BY DEF TypeInv, Ranges, MessageRanges, SeenLast, Processes
<1>1. NextBufferSequenceNumber <= NextBufferSequenceNumber'  BY NextRises
<1>2. NextBufferSequenceNumber' \in Nat  BY NextRises
<1>3. CASE PostMExtract
  <2> DEFINE m == Head(ManifestedBufferRing)
  <2>1. /\ SeenLast' \in Nat /\ m \in InX /\ m.Value \in Nat /\ m = ManifestedBufferRing[1]
        /\ \/ ~IsControl(m) /\ SeenLast' \in {SeenLast, m.Value}
           \/ SeenLast' = SeenLast
    BY <1>3, SeenIs
  <2>2. CollatedFrameRing' = CollatedFrameRing /\ InC' = InC
    BY <1>3 DEF PostMExtract, InC, ToSet
  <2>3. ManifestedBufferRing # <<>> /\ ManifestedBufferRing' = Tail(ManifestedBufferRing)
        /\ UNCHANGED <<ParsedFrameRing, PtoDBuffer, codec, DecodedFrameRing, dtom, manifestor>>
    BY <1>3 DEF PostMExtract
  <2> HIDE DEF m
  <2>4. CASE SeenLast' = SeenLast
    <3>1. \A o \in InC' \cup Everywhere' : IsMarker(o) => o \in InC \cup Everywhere
      <4>1. ~DrainInsert  BY <1>3 DEF PostMExtract, DrainInsert, At, Go
      <4> QED BY <4>1, MarkersFrom
    <3> QED BY <3>1, <2>4, <1>0, <1>1, <1>2 DEF SeenBelow
  <2>5. CASE ~IsControl(m) /\ SeenLast' = m.Value
    <3>1. m \in Everywhere /\ m.Value < NextBufferSequenceNumber
      BY <2>1, <2>5 DEF Everywhere, Chain, ChainBelow
    <3>2. ASSUME NEW o \in InC, IsMarker(o) PROVE m.Value < o.Value
      <4>1. o \in MarkerItems /\ NextBufferSequenceNumber <= o.Value
        BY <3>2, MarkerToCome
      <4>2. o.Value \in Nat  BY <4>1, MarkerIs
      <4> QED BY <3>1, <4>1, <4>2, <2>1, <1>0
    <3>3. ASSUME NEW o \in Everywhere', IsMarker(o) PROVE m.Value < o.Value
      <4>1. ~IsControl(o)  BY <3>3 DEF IsMarker, IsControl, BeforeCalls, AfterCalls
      <4>2. InP' = InP /\ InH' = InH /\ InK' = InK /\ InD' = InD /\ InF' = InF /\ InT' = InT /\ InB' = InB
            /\ ToSet(manifestor') = ToSet(manifestor)
        BY <2>3 DEF InP, InH, InK, InD, InF, InT, InB, ToSet, dtom
      <4>3. CASE o \in InF \cup InD \cup InK \cup InH \cup InP
        BY <4>1, <4>3, <2>1, <2>5 DEF Chain, ChainLess, Less
      <4>4. CASE o \in InT \cup InB \cup ToSet(manifestor)
        <5>1. o \in FrameItems \cup {Nothing}
          BY <4>4, <1>0, MembersOf DEF Typed, InT, InB, InHand
        <5>2. ~IsMarker(o)  BY <5>1, FrameIs, NothingIs
        <5> QED BY <5>2, <3>3
      <4>5. CASE o \in ToSet(Tail(ManifestedBufferRing))
        <5>1. /\ DOMAIN Tail(ManifestedBufferRing) = 1 .. Len(ManifestedBufferRing) - 1
              /\ Len(ManifestedBufferRing) \in Nat
              /\ \A i \in 1 .. Len(ManifestedBufferRing) - 1 :
                   Tail(ManifestedBufferRing)[i] = ManifestedBufferRing[i + 1]
          BY <1>0, <2>3, TailIs, MembersOf DEF Typed
        <5>2. PICK i \in 1 .. Len(ManifestedBufferRing) - 1 : o = ManifestedBufferRing[i + 1]
          BY <5>1, <4>5 DEF ToSet
        <5>3. DOMAIN ManifestedBufferRing = 1 .. Len(ManifestedBufferRing)
          BY <1>0 DEF Typed
        <5>4. i + 1 \in DOMAIN ManifestedBufferRing /\ 1 \in 1 .. (i + 1) - 1
          BY <5>1, <5>3
        <5> QED BY <5>2, <5>4, <3>3, <2>1, <2>5 DEF MarkerAbove
      <4>6. o \in InF \cup InD \cup InK \cup InH \cup InP \/ o \in InT \cup InB \cup ToSet(manifestor)
            \/ o \in ToSet(Tail(ManifestedBufferRing))
        <5>1. ToSet(ManifestedBufferRing') = ToSet(Tail(ManifestedBufferRing))  BY <2>3
        <5> QED BY <5>1, <4>2 DEF Everywhere, InX, InT, InB
      <4> QED BY <4>3, <4>4, <4>5, <4>6
    <3> QED BY <2>2, <2>5, <2>1, <3>1, <3>2, <3>3, <1>0, <1>1, <1>2 DEF SeenBelow
  <2> QED BY <2>1, <2>4, <2>5
<1>4. CASE ~PostMExtract
  <2>1. SeenLast' = SeenLast
    <3>1. CASE CtoPMarker  BY <3>1, MarkerReceived DEF Received
    <3>2. CASE CtoPFrame  BY <3>2, FrameReceived DEF Received
    <3>3. CASE Onward  BY <3>3, <1>4, Moved, MessagesKept
    <3> QED BY <3>1, <3>2, <3>3 DEF Moves
  <2>2. ASSUME NEW m \in InC' \cup Everywhere', IsMarker(m) PROVE SeenLast < m.Value
    <3>1. CASE m \in InC \cup Everywhere  BY <3>1, <2>2 DEF SeenBelow
    <3>2. CASE DrainInsert /\ m.Value = DrainSequenceNumber
      <4>1. drain.pc = "insert"  BY <3>2 DEF DrainInsert, At
      <4>2. /\ DrainSequenceNumber > 0
            /\ NextBufferSequenceNumber + Len(CollatedFrameRing) <= DrainSequenceNumber
        BY <4>1 DEF OneMarker, InsertedInTime
      <4>3. Len(CollatedFrameRing) \in Nat  BY <1>0 DEF Typed
      <4> QED BY <4>2, <4>3, <3>2, <1>0 DEF SeenBelow
    <3> QED BY <2>2, <3>1, <3>2, MarkersFrom
  <2> QED BY <2>1, <2>2, <1>0, <1>1, <1>2 DEF SeenBelow
<1> QED BY <1>3, <1>4

-----------------------------------------------------------------------------
\* Frames come from CollateToParse, which numbers the first in its ring.
LEMMA FramesFrom ==
  ASSUME TypeInv, Unswitched, Coming, Moves
  PROVE  /\ \A m \in Everywhere' : IsFrame(m) =>
              \/ m \in Everywhere
              \/ /\ CtoPFrame /\ m \in FrameItems /\ m \in InP' /\ m.Value = NextBufferSequenceNumber
                 /\ IsFrame(Head(CollatedFrameRing)) /\ m.id = Head(CollatedFrameRing).id
                 /\ InP' = InP \cup {m} /\ ParseFrame(m.id)
         /\ \A m \in Everywhere : IsFrame(m) => m \in FrameItems
<1>0. Typed /\ ParseRanges  BY DEF TypeInv, Ranges
<1>1. \A m \in Everywhere : IsFrame(m) => m \in FrameItems
  <2>1. InX \subseteq ManifestedItems \cup FrameItems
    BY <1>0, MembersOf DEF InX, InHand, Typed
  <2>2. InF \subseteq MarkerItems /\ InH \subseteq FrameItems \cup MarkerItems
    BY <1>0 DEF InF, InH, InHand, Typed
  <2>3. InP \subseteq ParsedItems /\ InK \subseteq CodedItems /\ InD \subseteq DecodedItems
    BY <1>0, MembersOf DEF InP, InK, InD, Typed
  <2> QED BY <2>1, <2>2, <2>3, ManifestedIs, MarkerIs, ParsedIs, CodedIs, DecodedIs DEF Everywhere
<1>2. CASE CtoPMarker
  <2>1. /\ Received /\ InP' = InP \cup {Head(CollatedFrameRing)}
        /\ Head(CollatedFrameRing) \in MarkerItems
    BY <1>2, MarkerReceived
  <2>2. Everywhere' \subseteq Everywhere \cup {Head(CollatedFrameRing)}
    BY <2>1 DEF Received, Everywhere
  <2>3. \A m \in Everywhere' : IsFrame(m) => m \in Everywhere  BY <2>1, <2>2, MarkerIs
  <2> QED BY <2>3, <1>1
<1>3. CASE CtoPFrame
  <2> DEFINE h == Head(CollatedFrameRing)
             m == NumberedNow(h)
  <2>1. /\ Received
        /\ \/ InP' = InP
           \/ /\ IsFrame(h) /\ ParseFrame(h.id)
              /\ InP' = InP \cup {m}
              /\ m \in FrameItems /\ m.id = h.id /\ m.Value = NextBufferSequenceNumber
    BY <1>3, FrameReceived
  <2> HIDE DEF m, h
  <2>2. CASE InP' = InP
    <3>1. Everywhere' = Everywhere  BY <2>1, <2>2 DEF Received, Everywhere
    <3> QED BY <3>1, <1>1
  <2>3. CASE /\ IsFrame(h) /\ ParseFrame(h.id)
             /\ InP' = InP \cup {m}
             /\ m \in FrameItems /\ m.id = h.id /\ m.Value = NextBufferSequenceNumber
    <3>1. Everywhere' = Everywhere \cup {m}  BY <2>1, <2>3 DEF Received, Everywhere
    <3> QED BY <3>1, <2>3, <1>1, <1>3 DEF h
  <2> QED BY <2>1, <2>2, <2>3
<1>4. CASE Onward
  <2>1. \A m \in Everywhere' : IsFrame(m) => m \in Everywhere
    BY <1>0, <1>4, Moved, FlowIs DEF IsBuffer
  <2> QED BY <2>1, <1>1
<1> QED BY <1>2, <1>3, <1>4 DEF Moves

\* The first frame of the ring of collation was collated before the rest of it.
LEMMA FirstBelow ==
  ASSUME TypeInv, CollatedFrameRing # <<>>, IsFrame(Head(CollatedFrameRing)),
         CollatedFrameRing' = Tail(CollatedFrameRing)
  PROVE  /\ Head(CollatedFrameRing).id \in Frames /\ Head(CollatedFrameRing).id <= collated
         /\ \A o \in InC' : IsFrame(o) => Head(CollatedFrameRing).id < o.id
<1> DEFINE h == Head(CollatedFrameRing)
<1>0. CollatedFrameRing \in Seq(CollatedItems) /\ InputOrder  BY DEF TypeInv, Typed
<1>1. /\ Len(CollatedFrameRing) \in Nat \ {0} /\ h = CollatedFrameRing[1] /\ h \in CollatedItems
      /\ DOMAIN CollatedFrameRing = 1 .. Len(CollatedFrameRing)
      /\ DOMAIN Tail(CollatedFrameRing) = 1 .. Len(CollatedFrameRing) - 1
      /\ \A i \in 1 .. Len(CollatedFrameRing) - 1 :
           Tail(CollatedFrameRing)[i] = CollatedFrameRing[i + 1]
  BY <1>0, TailIs, MembersOf
<1> HIDE DEF h
<1>2. 1 \in DOMAIN CollatedFrameRing /\ IsFrame(h)  BY <1>1 DEF h
<1>3. h \in FrameItems  BY <1>1, <1>2, CollatedIs
<1>4. h.id <= collated  BY <1>0, <1>1, <1>2 DEF InputOrder
<1>5. ASSUME NEW o \in InC', IsFrame(o) PROVE h.id < o.id
  <2>1. PICK i \in 1 .. Len(CollatedFrameRing) - 1 : o = CollatedFrameRing[i + 1]
    BY <1>1 DEF InC, ToSet
  <2>2. i + 1 \in DOMAIN CollatedFrameRing /\ 1 < i + 1  BY <1>1
  <2> QED BY <2>1, <2>2, <1>0, <1>1, <1>2, <1>5 DEF InputOrder
<1> QED BY <1>3, <1>4, <1>5, FrameIs DEF h

\* Who is without an index after the parser has seen a frame, or a jump.
LEMMA IndexGiven ==
  ASSUME ParseRanges, NEW f \in Frames, CalculateFrameIndex(f)
  PROVE  HasIndex(f)'
<1>1. /\ parser.NextDisplayFrameIndex \in 0 .. MaxFrames
      /\ DisplayFrameIndex \in [Frames -> 0 .. MaxFrames - 1 \cup {INVALID_INDEX}]
  BY DEF ParseRanges
<1>2. parser.NextDisplayFrameIndex # INVALID_INDEX  BY <1>1, Bounds
<1>3. DisplayFrameIndex'[f] = parser.NextDisplayFrameIndex  BY <1>1 DEF CalculateFrameIndex
<1> QED BY <1>2, <1>3 DEF HasIndex

\* A reference frame is deferred in place of the one before it, which gets its index.
LEMMA DeferredAtFrame ==
  ASSUME ParseRanges, NEW f \in Frames, ParseFrame(f)
  PROVE  /\ parser'.deferred = parser.deferred \/ (parser'.deferred = f /\ reference[f])
         /\ \A g \in Frames :
              ~HasIndex(g)' /\ g \in {parser.deferred, f} => g = parser'.deferred
<1>1. parser.deferred \in Frames \cup {None}  BY DEF ParseRanges
<1>2. None \notin Frames  BY Bounds DEF None
<1>3. ASSUME NEW d, NEW c, NextIndex(d, c) PROVE parser'.deferred = d
  BY <1>3 DEF NextIndex
<1>4. CASE ~reference[f]
  <2>1. CalculateFrameIndex(f) /\ parser'.deferred = parser.deferred
    BY <1>3, <1>4 DEF ParseFrame
  <2>2. HasIndex(f)'  BY <2>1, IndexGiven
  <2> QED BY <2>1, <2>2
<1>5. CASE reference[f] /\ parser.deferred # None
  <2>1. CalculateFrameIndex(parser.deferred) /\ parser'.deferred = f
    BY <1>3, <1>5 DEF ParseFrame
  <2>2. PICK d \in Frames : d = parser.deferred  BY <1>1, <1>5
  <2>3. HasIndex(d)'  BY <2>1, <2>2, IndexGiven
  <2> QED BY <2>1, <2>2, <2>3, <1>5
<1>6. CASE reference[f] /\ parser.deferred = None
  <2>1. parser' = [parser EXCEPT !.deferred = f]  BY <1>6 DEF ParseFrame
  <2>2. parser'.deferred = f  BY <2>1 DEF ParseRanges
  <2> QED BY <2>2, <1>2, <1>6
<1> QED BY <1>4, <1>5, <1>6

\* At a jump nothing stays deferred, and nothing that was is without its index.
LEMMA DeferredAtJump ==
  ASSUME ParseRanges, ParseJump
  PROVE  /\ parser'.deferred = None
         /\ \A g \in Frames : ~HasIndex(g)' => g # parser.deferred
<1>1. parser.deferred \in Frames \cup {None} /\ None \notin Frames  BY Bounds DEF ParseRanges, None
<1>2. CASE parser.deferred # None
  <2>1. CalculateFrameIndex(parser.deferred) /\ NextIndex(None, TRUE)  BY <1>2 DEF ParseJump
  <2>2. PICK d \in Frames : d = parser.deferred  BY <1>1, <1>2
  <2>3. HasIndex(d)'  BY <2>1, <2>2, IndexGiven
  <2>4. parser'.deferred = None  BY <2>1 DEF NextIndex
  <2> QED BY <2>2, <2>3, <2>4
<1>3. CASE parser.deferred = None
  <2>1. parser' = [parser EXCEPT !.collapse = TRUE]  BY <1>3 DEF ParseJump
  <2>2. parser'.deferred = parser.deferred  BY <2>1 DEF ParseRanges
  <2> QED BY <2>2, <1>1, <1>3
<1> QED BY <1>2, <1>3

\* Every step keeps each frame in one place and all but the deferred one indexed.
LEMMA AscendingStep ==
  ASSUME TypeInv, StaysIndexed, Unswitched, Coming, Ascending, Moves
  PROVE  Ascending'
<1>0. Typed /\ ParseRanges /\ collated \in Nat /\ InputOrder
      /\ reference \in [Frames -> BOOLEAN] /\ collated \in 0 .. MaxFrames
  <2>1. collated \in 0 .. MaxFrames  BY DEF TypeInv, Ranges, InputRanges
  <2> QED BY <2>1, Bounds DEF TypeInv, Ranges, InputRanges
<1>1. \A m \in Everywhere : IsFrame(m) => m \in FrameItems  BY FramesFrom
<1>2. ASSUME NEW g \in Frames, ~HasIndex(g)' PROVE ~HasIndex(g)
  BY <1>2 DEF StaysIndexed, HasIndex
<1>3. CASE CtoPMarker \/ CtoPFrame
  <2> DEFINE h == Head(CollatedFrameRing)
  <2>1. Received  BY <1>3, MarkerReceived, FrameReceived
  <2>2. /\ CollatedFrameRing # <<>> /\ CollatedFrameRing' = Tail(CollatedFrameRing)
        /\ InC' \subseteq InC /\ UNCHANGED <<collated, reference>> /\ h \in InC
    BY <2>1, <1>0, TailIs DEF Received, Typed, InC
  <2>3. IsFrame(h) => /\ h.id \in Frames /\ h.id <= collated
                      /\ \A o \in InC' : IsFrame(o) => h.id < o.id
    BY <2>2, FirstBelow
  <2>4. \/ UNCHANGED parse
        \/ CtoPFrame /\ IsJump(h) /\ ParseJump
        \/ CtoPFrame /\ IsFrame(h) /\ ParseFrame(h.id)
    BY <1>3, MarkerReceived, FrameReceived
  <2> HIDE DEF h
  <2>5. ASSUME NEW m \in Everywhere', IsFrame(m)
        PROVE  \/ m \in Everywhere
               \/ m \in FrameItems /\ m.Value = NextBufferSequenceNumber /\ IsFrame(h) /\ m.id = h.id
                  /\ ParseFrame(h.id)
    BY <2>5, FramesFrom DEF Moves, h
  <2>6. ASSUME NEW m \in Everywhere', IsFrame(m), NEW o \in Everywhere', IsFrame(o), m.id = o.id
        PROVE  m = o
    <3>1. CASE m \in Everywhere /\ o \in Everywhere  BY <3>1, <2>6 DEF Ascending
    <3>2. ASSUME NEW a \in Everywhere, IsFrame(a), IsFrame(h) PROVE a.id # h.id
      <4>1. a.id < h.id  BY <3>2, <2>2 DEF Ascending
      <4>2. h.id \in Frames /\ a.id \in Frames  BY <3>2, <2>3, <1>1, FrameIs
      <4> QED BY <4>1, <4>2, Bounds
    <3>3. CASE m \notin Everywhere /\ o \notin Everywhere
      <4>1. /\ m \in FrameItems /\ o \in FrameItems
            /\ m.Value = NextBufferSequenceNumber /\ o.Value = NextBufferSequenceNumber
        BY <3>3, <2>5, <2>6
      <4> QED BY <4>1, <2>6 DEF FrameItems
    <3> QED BY <3>1, <3>2, <3>3, <2>5, <2>6
  <2>7. ASSUME NEW m \in Everywhere', IsFrame(m)
        PROVE  m.id <= collated /\ \A o \in InC' : IsFrame(o) => m.id < o.id
    BY <2>7, <2>2, <2>3, <2>5 DEF Ascending
  <2>8. ASSUME NEW m \in Everywhere', IsFrame(m), ~HasIndex(m.id)' PROVE m.id = parser'.deferred
    <3>1. m.id \in Frames  BY <2>8, <2>5, <1>1, FrameIs
    <3>2. ~HasIndex(m.id)  BY <3>1, <2>8, <1>2
    <3>3. m \in Everywhere => m.id = parser.deferred  BY <3>2, <2>8 DEF Ascending
    <3>4. CASE UNCHANGED parse
      <4>1. parser' = parser  BY <3>4 DEF parse
      <4>2. CASE m \in Everywhere  BY <4>1, <4>2, <3>3
      <4>3. CASE IsFrame(h) /\ m.id = h.id /\ ParseFrame(h.id)
        <5>1. /\ parser'.deferred = parser.deferred \/ (parser'.deferred = h.id /\ reference[h.id])
              /\ \A g \in Frames :
                   ~HasIndex(g)' /\ g \in {parser.deferred, h.id} => g = parser'.deferred
          BY <4>3, <2>3, <1>0, DeferredAtFrame
        <5> QED BY <5>1, <4>3, <3>1, <2>8
      <4> QED BY <4>2, <4>3, <2>5, <2>8
    <3>5. CASE IsFrame(h) /\ ParseFrame(h.id)
      <4>1. \A g \in Frames :
              ~HasIndex(g)' /\ g \in {parser.deferred, h.id} => g = parser'.deferred
        BY <3>5, <2>3, <1>0, DeferredAtFrame
      <4> QED BY <4>1, <3>1, <3>3, <2>5, <2>8
    <3>6. CASE IsJump(h) /\ ParseJump
      <4>1. m.id # parser.deferred  BY <3>1, <3>6, <2>8, <1>0, DeferredAtJump
      <4>2. ~IsFrame(h)  BY <3>6 DEF IsJump, IsFrame
      <4> QED BY <4>1, <4>2, <3>3, <2>5, <2>8
    <3> QED BY <3>4, <3>5, <3>6, <2>4
  <2>9. parser'.deferred # None => reference'[parser'.deferred] /\ parser'.deferred <= collated'
    <3>1. CASE UNCHANGED parse
      <4>1. parser' = parser  BY <3>1 DEF parse
      <4> QED BY <4>1, <2>2 DEF Ascending
    <3>2. CASE IsFrame(h) /\ ParseFrame(h.id)
      <4>1. parser'.deferred = parser.deferred \/ (parser'.deferred = h.id /\ reference[h.id])
        BY <3>2, <2>3, <1>0, DeferredAtFrame
      <4> QED BY <4>1, <3>2, <2>2, <2>3 DEF Ascending
    <3>3. CASE ParseJump  BY <3>3, <1>0, DeferredAtJump
    <3> QED BY <3>1, <3>2, <3>3, <2>4
  <2> QED BY <2>2, <2>6, <2>7, <2>8, <2>9 DEF Ascending
<1>4. CASE Onward
  <2>1. UNCHANGED parse  BY <1>4, <1>0, Moved, RingOfCollation
  <2>2. \A m \in Everywhere' : IsFrame(m) => m \in Everywhere
    BY <1>0, <1>4, Moved, FlowIs DEF IsBuffer
  <2>3. parser' = parser /\ \A g : HasIndex(g)' <=> HasIndex(g)  BY <2>1 DEF parse, HasIndex
  <2>4. CASE UNCHANGED <<collated, reference>> /\ \A o \in InC' : IsFrame(o) => o \in InC
    BY <2>2, <2>3, <2>4 DEF Ascending
  <2>5. CASE \E isReference \in BOOLEAN : Collate(isReference)
    <3>1. PICK isReference \in BOOLEAN : Collate(isReference)  BY <2>5
    <3>2. /\ collated' = collated + 1
          /\ reference' = [reference EXCEPT ![collated + 1] = isReference]
      BY <3>1 DEF Collate
    <3>3. PICK e : InC' = InC \cup {e} /\ e.id = collated + 1  BY <2>5, CollationAdds
    <3>4. \A f \in Frames : f <= collated => reference'[f] = reference[f]
      BY <3>2, <1>0, Bounds
    <3>5. ASSUME NEW m \in Everywhere', IsFrame(m)
          PROVE  m.id <= collated + 1 /\ m.id < collated + 1 /\ \A o \in InC : IsFrame(o) => m.id < o.id
      <4>1. m \in Everywhere /\ m.id \in Nat  BY <3>5, <2>2, <1>1, FrameId
      <4>2. m.id <= collated /\ \A o \in InC : IsFrame(o) => m.id < o.id
        BY <4>1, <3>5 DEF Ascending
      <4> QED BY <4>1, <4>2, <1>0
    <3>6. parser.deferred # None => /\ reference'[parser.deferred] /\ parser.deferred <= collated + 1
      <4>1. parser.deferred \in Frames \cup {None}  BY <1>0 DEF ParseRanges
      <4>2. parser.deferred # None => reference[parser.deferred] /\ parser.deferred <= collated
        BY DEF Ascending
      <4> QED BY <4>1, <4>2, <3>4, <1>0, Bounds
    <3> QED BY <2>2, <2>3, <3>2, <3>3, <3>5, <3>6 DEF Ascending
  <2>6. \/ UNCHANGED <<collated, reference>> /\ \A o \in InC' : IsFrame(o) => o \in InC
        \/ \E isReference \in BOOLEAN : Collate(isReference)
    <3>1. UNCHANGED <<collated, reference>> \/ \E isReference \in BOOLEAN : Collate(isReference)
      BY <1>4, <1>0, Moved, RingOfCollation
    <3>2. \/ InC' = InC \/ DrainJump \/ DrainInsert
          \/ \E isReference \in BOOLEAN : Collate(isReference)
      BY <1>4, <1>0, Moved, RingOfCollation
    <3>3. DrainJump \/ DrainInsert => \E e : InC' = InC \cup {e} /\ ~IsFrame(e)
      BY CollationAdds
    <3> QED BY <3>1, <3>2, <3>3
  <2> QED BY <2>4, <2>5, <2>6
<1> QED BY <1>3, <1>4 DEF Moves

-----------------------------------------------------------------------------
\* PostManifest sets the event by the one call for it.
LEMMA EventSet ==
  ASSUME TypeInv, OneMarker, PostMExtract
  PROVE  /\ \A c \in Calls' : IsSetDrained(c) => c \in Calls
         /\ \/ UNCHANGED Drained
            \/ /\ \E c \in Calls : IsSetDrained(c) /\ c.Value <= SeenLast'
               /\ \A c \in Calls' : ~IsSetDrained(c)
         /\ \A a \in InR', o \in Accumulated'["PostM"] : ~(IsSetDrained(a) /\ IsSetDrained(o))
         /\ SeenLast \in Nat /\ SeenLast' \in Nat /\ SeenLast <= SeenLast'
<1> DEFINE r == ManifestedBufferRing
           m == Head(ManifestedBufferRing)
           Held == Accumulated["PostM"]
<1>0. Typed /\ CallsTyped /\ r \in Seq(ManifestedItems)  BY DEF TypeInv, Typed
<1>1. /\ SeenLast \in Nat /\ SeenLast' \in Nat /\ SeenLast <= SeenLast'
      /\ m.Value \in Nat /\ (~IsControl(m) => m.Value <= SeenLast')
      /\ (IsControl(m) => SeenLast' = SeenLast)
  BY SeenIs
<1>2. r # <<>> /\ r' = Tail(r)  BY DEF PostMExtract
<1>3. m = r[1] /\ m \in InR /\ InR' \subseteq InR
  BY <1>0, <1>2, TailIs DEF InR
<1>4. DOMAIN r = 1 .. Len(r) /\ Len(r) \in Nat \ {0}
      /\ \A a \in InR' : \E i \in 1 .. Len(r) - 1 : a = r[i + 1]
  <2>1. /\ DOMAIN Tail(r) = 1 .. Len(r) - 1 /\ Len(r) \in Nat \ {0} /\ DOMAIN r = 1 .. Len(r)
        /\ \A i \in 1 .. Len(r) - 1 : Tail(r)[i] = r[i + 1]
    BY <1>0, <1>2, TailIs, MembersOf
  <2> QED BY <2>1, <1>2 DEF InR, ToSet
<1>5. Held \in SUBSET Others(CallsOf("PostM")) /\ "PostM" \in Processes
      /\ DOMAIN Accumulated = Processes
  BY <1>0 DEF CallsTyped, Processes
<1>6. \/ /\ ~IsControl(m)
         /\ Accumulated' = [Accumulated EXCEPT !["PostM"] = @ \ Due("PostM", m.Value, BeforeCalls \cup AfterCalls)]
         /\ PostMCall(Due("PostM", m.Value, BeforeCalls \cup AfterCalls))
      \/ /\ IsControl(m) /\ Reached("PostM", m.Value)
         /\ PostMCall({m}) /\ UNCHANGED Accumulated
      \/ /\ IsControl(m) /\ Accumulate("PostM", m) /\ UNCHANGED Drained
  BY DEF PostMExtract
<1>7. ASSUME IsSetDrained(m), NEW a \in InR' PROVE ~IsSetDrained(a)
  <2>1. PICK i \in 1 .. Len(r) - 1 : a = r[i + 1]  BY <1>4
  <2>2. 1 \in DOMAIN r /\ i + 1 \in DOMAIN r /\ i + 1 # 1  BY <1>4
  <2> QED BY <2>1, <2>2, <1>3, <1>7 DEF OneMarker
<1>8. \A a \in InR, o \in Held : ~(IsSetDrained(a) /\ IsSetDrained(o))  BY DEF OneMarker
<1>9. \A c \in InR \cup Held : IsSetDrained(c) => c.Value = DrainSequenceNumber
  BY DEF OneMarker, Calls
<1>10. Calls' = InR' \cup Accumulated'["PostM"] /\ Calls = InR \cup Held  BY DEF Calls
<1> HIDE DEF r, m
<1>11. CASE /\ ~IsControl(m)
            /\ Accumulated' = [Accumulated EXCEPT !["PostM"] = @ \ Due("PostM", m.Value, BeforeCalls \cup AfterCalls)]
            /\ PostMCall(Due("PostM", m.Value, BeforeCalls \cup AfterCalls))
  <2> DEFINE due == Due("PostM", m.Value, BeforeCalls \cup AfterCalls)
  <2>1. Accumulated'["PostM"] = Held \ due  BY <1>5, <1>11
  <2>2. \A c : c \in due <=> c \in Held /\ c.kind \in BeforeCalls \cup AfterCalls /\ c.Value <= m.Value
    BY DEF Due
  <2>3. Drained' = (Drained \/ \E c \in due : c.kind = "SetDrained")  BY <1>11 DEF PostMCall
  <2> HIDE DEF due, Held
  <2>4. "SetDrained" \in BeforeCalls \cup AfterCalls  BY DEF AfterCalls
  <2>5. ASSUME NEW c \in due, IsSetDrained(c)
        PROVE  /\ c \in Held /\ c.Value <= SeenLast'
               /\ \A o \in InR' \cup (Held \ due) : ~IsSetDrained(o)
    <3>1. c \in Held /\ c.Value <= m.Value /\ c.Value = DrainSequenceNumber
      BY <2>2, <2>5, <1>9
    <3>2. DrainSequenceNumber \in Nat  BY DEF TypeInv, Ranges, MessageRanges
    <3>3. c.Value <= SeenLast'  BY <3>1, <3>2, <1>1, <1>11
    <3>4. \A o \in Held \ due : ~IsSetDrained(o)
      BY <3>1, <2>2, <2>4, <1>9 DEF IsSetDrained
    <3>5. \A o \in InR' : ~IsSetDrained(o)  BY <3>1, <1>3, <1>8, <2>5
    <3> QED BY <3>1, <3>3, <3>4, <3>5
  <2>6. UNCHANGED Drained \/ \E c \in due : IsSetDrained(c)
    BY <2>3 DEF IsSetDrained, TypeInv, Ranges, MessageRanges
  <2> QED BY <2>1, <2>5, <2>6, <1>1, <1>3, <1>8, <1>10
<1>12. CASE IsControl(m) /\ Reached("PostM", m.Value) /\ PostMCall({m}) /\ UNCHANGED Accumulated
  <2>1. Accumulated'["PostM"] = Held  BY <1>12
  <2>2. Drained' = (Drained \/ m.kind = "SetDrained")  BY <1>12 DEF PostMCall
  <2>3. m.Value <= SeenLast'  BY <1>1, <1>12 DEF Reached, SeenLast
  <2> HIDE DEF Held
  <2>4. UNCHANGED Drained \/ IsSetDrained(m)
    BY <2>2 DEF IsSetDrained, TypeInv, Ranges, MessageRanges
  <2> QED BY <2>1, <2>3, <2>4, <1>1, <1>3, <1>7, <1>8, <1>10
<1>13. CASE IsControl(m) /\ Accumulate("PostM", m) /\ UNCHANGED Drained
  <2>1. Accumulated'["PostM"] = Held \/ Accumulated'["PostM"] = Held \cup {m}
    BY <1>5, <1>13 DEF Accumulate
  <2> HIDE DEF Held
  <2> QED BY <2>1, <1>1, <1>3, <1>7, <1>8, <1>10, <1>13
<1> QED BY <1>6, <1>11, <1>12, <1>13

\* There is one marker, and one call.
LEMMA OneMarkerStep ==
  ASSUME TypeInv, Chain, Coming, Unswitched, SeenBelow, OneMarker, Moves
  PROVE  OneMarker'
<1>0. /\ Typed /\ CallsTyped /\ DrainRanges /\ Exchanges
      /\ NextBufferSequenceNumber \in Nat /\ DrainSequenceNumber \in Nat
      /\ SeenLast \in Nat
  BY DEF TypeInv, Ranges, MessageRanges, SeenLast, Processes
\* No marker and no call when a drain begins.
<1>1. ASSUME Entering \/ Begins
      PROVE  /\ \A m \in InC \cup Everywhere : ~IsMarker(m)
             /\ \A c \in Calls : ~IsSetDrained(c)
  <2>1. CASE Entering  BY <2>1 DEF OneMarker
  <2>2. CASE ~Entering /\ Begins
    <3>1. Drained  BY <2>2 DEF Begins, Entering
    <3>2. DrainSequenceNumber <= SeenLast  BY <3>1, <2>2 DEF OneMarker
    <3>3. ASSUME NEW m \in InC \cup Everywhere, IsMarker(m) PROVE FALSE
      <4>1. SeenLast < DrainSequenceNumber  BY <3>3 DEF OneMarker, SeenBelow
      <4> QED BY <4>1, <3>2, <1>0
    <3> QED BY <3>1, <3>3 DEF OneMarker
  <2> QED BY <1>1, <2>1, <2>2
<1>2. \A m \in InC' \cup Everywhere' : IsMarker(m) => ~Entering' /\ m.Value = DrainSequenceNumber'
  <2>1. ASSUME NEW m \in InC' \cup Everywhere', IsMarker(m)
        PROVE  ~Entering' /\ m.Value = DrainSequenceNumber'
    <3>1. CASE m \in InC \cup Everywhere
      <4>1. ~Entering /\ ~Begins /\ m.Value = DrainSequenceNumber
        BY <3>1, <2>1, <1>1 DEF OneMarker
      <4> QED BY <4>1, EnteringIs
    <3>2. CASE DrainInsert /\ m.Value = DrainSequenceNumber
      <4>1. Entering /\ ~Entering' /\ UNCHANGED DrainSequenceNumber
        BY <3>2, EnteringIs, DrainMoves, <1>0
      <4> QED BY <4>1, <3>2
    <3> QED BY <2>1, <3>1, <3>2, MarkersFrom
  <2> QED BY <2>1
\* The place of a drain when it calls.
<1>3. ASSUME NEW c \in Calls, IsSetDrained(c)
      PROVE  /\ ~Entering' /\ UNCHANGED DrainSequenceNumber
             /\ drain'.pc \notin {"before", "after", "insert"} /\ drain.n > 0 /\ drain'.n = drain.n
             /\ c.Value = DrainSequenceNumber /\ ~Drained
  <2>1. ~Entering /\ ~Drained /\ drain.pc \notin {"before", "after"} /\ c.Value = DrainSequenceNumber
    BY <1>3 DEF OneMarker
  <2>2. ~Begins  BY <1>1, <1>3
  <2>3. ~Entering' /\ UNCHANGED DrainSequenceNumber /\ drain'.n = drain.n  BY <2>1, <2>2, EnteringIs
  <2>4. drain.n > 0 /\ drain'.pc # "insert"  BY <2>1, <2>3, <1>0, EnteringIs DEF Entering
  <2>5. drain'.pc \notin {"before", "after"}
    <3>1. CASE UNCHANGED drain  BY <3>1, <2>1
    <3>2. CASE Rest
      BY <3>2, <2>1, <1>0, DrainRecordIs DEF Rest, DrainCallBefore, DrainCallAfter, DrainReturn, At
    <3>3. ~Entry /\ ~DrainInsert  BY <2>1, <1>0, DrainMoves
    <3>4. UNCHANGED drain \/ Rest
      BY <3>3, <2>2, <1>0, DrainMoves DEF Moves, Onward, vars, drn
    <3> QED BY <3>1, <3>2, <3>4
  <2> QED BY <2>1, <2>3, <2>4, <2>5
<1>4. ASSUME DrainCallAfter
      PROVE  /\ drain.pc = "after" /\ drain'.pc = "wait" /\ ~Drained /\ UNCHANGED Drained /\ ~Entering'
             /\ UNCHANGED DrainSequenceNumber /\ ~PostMExtract
  <2>1. drain.pc = "after" /\ drain'.pc = "wait" /\ UNCHANGED Drained /\ UNCHANGED DrainSequenceNumber
    BY <1>0, <1>4, DrainRecordIs DEF DrainCallAfter, At, Unswitched
  <2>2. ~Drained  BY <2>1 DEF OneMarker
  <2>3. ~PostMExtract
    <3>1. UNCHANGED drain => drain'.pc = drain.pc  OBVIOUS
    <3> QED BY <2>1, <3>1 DEF PostMExtract
  <2>4. ~Entering'
    <3>1. drain'.n = drain.n /\ drain.n > 0 /\ drain.n \in Nat
      BY <1>0, <1>4, <2>1, DrainMoves, EnteringIs DEF Rest
    <3> QED BY <3>1, <2>1 DEF Entering
  <2> QED BY <2>1, <2>2, <2>3, <2>4
\* Where calls come from.
<1>5. \/ Accumulated'["PostM"] = Accumulated["PostM"] /\ SeenLast' = SeenLast
      \/ PostMExtract
  <2>1. CASE CtoPMarker \/ CtoPFrame
    BY <2>1, MarkerReceived, FrameReceived DEF Received, Processes
  <2>2. CASE Onward  BY <2>2, Moved, MessagesKept
  <2> QED BY <2>1, <2>2 DEF Moves
<1>6. ASSUME RingAdded, NEW a \in InR', IsSetDrained(a)
      PROVE  a \in InR \/ (DrainCallAfter /\ a.Value = DrainSequenceNumber)
  <2>1. PICK n \in Nat :
          /\ DOMAIN ManifestedBufferRing' = 1 .. Len(ManifestedBufferRing) + n
          /\ \A i \in 1 .. Len(ManifestedBufferRing) :
               ManifestedBufferRing'[i] = ManifestedBufferRing[i]
          /\ \A i \in Len(ManifestedBufferRing) + 1 .. Len(ManifestedBufferRing) + n :
               AtTheEnd(ManifestedBufferRing'[i])
    BY <1>6 DEF RingAdded
  <2>2. PICK i \in DOMAIN ManifestedBufferRing' : a = ManifestedBufferRing'[i]
    BY DEF InR, ToSet
  <2>3. Len(ManifestedBufferRing) \in Nat
        /\ \A k \in 1 .. Len(ManifestedBufferRing) : ManifestedBufferRing[k] \in InR
    BY <1>0, MembersOf DEF Typed, InR
  <2>4. CASE i \in 1 .. Len(ManifestedBufferRing)  BY <2>1, <2>2, <2>3, <2>4
  <2>5. CASE i \notin 1 .. Len(ManifestedBufferRing)
    <3>1. i \in Len(ManifestedBufferRing) + 1 .. Len(ManifestedBufferRing) + n
      BY <2>1, <2>3, <2>5
    <3>2. AtTheEnd(a)  BY <2>1, <2>2, <3>1
    <3> QED BY <3>2, <1>6 DEF AtTheEnd, IsFrame, IsMarker, IsSetDrained
  <2> QED BY <2>4, <2>5
<1>7. ASSUME NEW c \in Calls', IsSetDrained(c), ~PostMExtract
      PROVE  c \in Calls \/ (DrainCallAfter /\ c.Value = DrainSequenceNumber)
  <2>1. RingAdded  BY <1>7, RingOfPostManifest
  <2> QED BY <2>1, <1>5, <1>6, <1>7 DEF Calls
<1>8. \A c \in Calls' : IsSetDrained(c) =>
        /\ ~Entering' /\ ~Drained' /\ drain'.pc \notin {"before", "after"}
        /\ c.Value = DrainSequenceNumber'
  <2>1. SUFFICES ASSUME NEW c \in Calls', IsSetDrained(c)
                 PROVE  /\ ~Entering' /\ ~Drained' /\ drain'.pc \notin {"before", "after"}
                        /\ c.Value = DrainSequenceNumber'
    OBVIOUS
  <2>2. CASE PostMExtract
    <3>1. c \in Calls /\ UNCHANGED Drained  BY <2>1, <2>2, EventSet
    <3> QED BY <3>1, <2>1, <1>3
  <2>3. CASE ~PostMExtract /\ c \in Calls
    <3>1. Drained' => Drained
      <4>1. CASE CtoPMarker \/ CtoPFrame
        BY <4>1, MarkerReceived, FrameReceived DEF Received
      <4>2. CASE Onward
        <5>1. DrainNumber \/ UNCHANGED Drained  BY <2>3, <4>2, Moved, MessagesKept
        <5> QED BY <5>1 DEF DrainNumber
      <4> QED BY <4>1, <4>2 DEF Moves
    <3> QED BY <3>1, <2>1, <2>3, <1>3
  <2>4. CASE ~PostMExtract /\ DrainCallAfter /\ c.Value = DrainSequenceNumber
    BY <2>4, <1>4
  <2> QED BY <2>1, <2>2, <2>3, <2>4, <1>7
<1>9. Drained' => /\ drain'.n > 0 /\ drain'.pc \notin {"insert", "before", "after"}
                  /\ ~Entering' => DrainSequenceNumber' <= SeenLast'
  <2>1. SUFFICES ASSUME Drained'
                 PROVE  /\ drain'.n > 0 /\ drain'.pc \notin {"insert", "before", "after"}
                        /\ ~Entering' => DrainSequenceNumber' <= SeenLast'
    OBVIOUS
  <2>2. CASE PostMExtract
    <3>1. UNCHANGED drain /\ UNCHANGED DrainSequenceNumber /\ (Entering' <=> Entering)
      BY <2>2 DEF PostMExtract, Entering
    <3>2. SeenLast \in Nat /\ SeenLast' \in Nat /\ SeenLast <= SeenLast'  BY <2>2, SeenIs
    <3>3. CASE Drained
      BY <3>1, <3>2, <3>3, <1>0 DEF OneMarker
    <3>4. CASE ~Drained
      <4>1. PICK c \in Calls : IsSetDrained(c) /\ c.Value <= SeenLast'
        BY <2>1, <2>2, <3>4, EventSet
      <4>2. /\ drain'.pc \notin {"before", "after", "insert"} /\ drain.n > 0 /\ drain'.n = drain.n
            /\ c.Value = DrainSequenceNumber
        BY <4>1, <1>3
      <4> QED BY <3>1, <4>1, <4>2
    <3> QED BY <3>3, <3>4
  <2>3. CASE ~PostMExtract
    <3>1. Drained /\ ~DrainNumber /\ SeenLast' = SeenLast
      <4>1. CASE CtoPMarker \/ CtoPFrame
        <5>1. UNCHANGED Drained /\ UNCHANGED drain
          BY <4>1, MarkerReceived, FrameReceived DEF Received
        <5>2. ~DrainNumber  BY <5>1, <2>1 DEF DrainNumber
        <5> QED BY <5>1, <5>2, <2>1, <2>3, <1>5
      <4>2. CASE Onward
        <5>1. DrainNumber \/ UNCHANGED Drained  BY <2>3, <4>2, Moved, MessagesKept
        <5>2. ~DrainNumber  BY <2>1 DEF DrainNumber
        <5> QED BY <5>1, <5>2, <2>1, <2>3, <1>5
      <4> QED BY <4>1, <4>2 DEF Moves
    <3>2. /\ drain.n > 0 /\ drain.pc \notin {"insert", "before", "after"}
          /\ ~Entering => DrainSequenceNumber <= SeenLast
      BY <3>1 DEF OneMarker
    <3>3. UNCHANGED DrainSequenceNumber  BY <3>1, EnteringIs
    <3>4. CASE UNCHANGED drain  BY <3>1, <3>2, <3>3, <3>4 DEF Entering
    <3>5. CASE Begins
      <4>1. PICK policy \in Policies : DrainBegin(policy)  BY <3>5 DEF Begins
      <4>2. drain'.pc \in {"check", "jump"}  BY <4>1, <1>0, DrainRecordIs
      <4> QED BY <4>2, <3>5, EnteringIs
    <3>6. CASE Entry
      <4>1. drain'.pc # "insert" /\ Entering' /\ drain'.n = drain.n  BY <3>1, <3>6, <1>0, DrainMoves
      <4>2. drain'.pc \notin {"before", "after"}
        <5>1. drain'.n > 0  BY <4>1, <3>2
        <5>2. drain'.n \in Nat  BY <4>1, EnteringIs
        <5> QED BY <4>1, <5>1, <5>2 DEF Entering
      <4> QED BY <4>1, <4>2, <3>2
    <3>7. ~DrainInsert  BY <3>2 DEF DrainInsert, At
    <3>8. CASE Rest
      <4>1. DrainReturn  BY <3>8, <3>2 DEF Rest, DrainCallBefore, DrainCallAfter, At
      <4>2. drain.pc = "wait" /\ drain'.pc = "idle" /\ drain'.n = drain.n
        BY <4>1, <1>0, DrainRecordIs DEF DrainReturn, At
      <4>3. ~Entering  BY <4>2, <3>2, EnteringIs DEF Entering
      <4> QED BY <4>2, <4>3, <3>1, <3>2, <3>3
    <3>9. UNCHANGED drain \/ Begins \/ Entry \/ Rest
      BY <3>7, <1>0, DrainMoves DEF Moves, Onward, vars, drn
    <3> QED BY <3>4, <3>5, <3>6, <3>8, <3>9
  <2> QED BY <2>2, <2>3
<1>10. drain'.pc = "insert" => DrainSequenceNumber' > 0
  <2>1. CASE DrainNumber
    <3>1. DrainSequenceNumber' = NextBufferSequenceNumber + RingSize
      BY <2>1 DEF DrainNumber, MarkerNumber
    <3> QED BY <3>1, <1>0, Bounds
  <2>2. CASE ~DrainNumber
    <3>1. UNCHANGED DrainSequenceNumber  BY <2>2, EnteringIs
    <3>2. drain'.pc = "insert" => drain.pc = "insert"
      <4>1. CASE Entry  BY <4>1, <2>2, <1>0, DrainMoves
      <4>2. CASE DrainInsert \/ Rest  BY <4>2, <1>0, DrainMoves
      <4>3. CASE Begins
        <5>1. PICK policy \in Policies : DrainBegin(policy)  BY <4>3 DEF Begins
        <5>2. drain'.pc \in {"check", "jump"}  BY <5>1, <1>0, DrainRecordIs
        <5> QED BY <5>2
      <4>4. UNCHANGED drain \/ Begins \/ Entry \/ Rest \/ DrainInsert
        BY <1>0, DrainMoves DEF Moves, Onward, vars, drn
      <4> QED BY <4>1, <4>2, <4>3, <4>4
    <3> QED BY <3>1, <3>2 DEF OneMarker
  <2> QED BY <2>1, <2>2

<1>11. ~Entering' => MarkerIn(InC') \/ DrainSequenceNumber' < NextBufferSequenceNumber'
  <2>1. SUFFICES ASSUME ~Entering'
                 PROVE  MarkerIn(InC') \/ DrainSequenceNumber' < NextBufferSequenceNumber'
    OBVIOUS
  <2>2. CASE DrainInsert
    <3>1. PICK e : InC' = InC \cup {e} /\ IsMarker(e)  BY <2>2, CollationAdds
    <3> QED BY <3>1 DEF MarkerIn
  <2>3. CASE ~DrainInsert
    <3>1. ~Entering /\ UNCHANGED DrainSequenceNumber  BY <2>1, <2>3, EnteringIs
    <3>2. MarkerIn(InC) \/ DrainSequenceNumber < NextBufferSequenceNumber  BY <3>1 DEF OneMarker
    <3>3. CASE CtoPMarker
      <4> DEFINE m == Head(CollatedFrameRing)
      <4>1. m \in InC /\ m \in MarkerItems /\ IsMarker(m) /\ NextBufferSequenceNumber' = m.Value + 1
        BY <3>3, MarkerReceived
      <4> HIDE DEF m
      <4>2. m.Value = DrainSequenceNumber  BY <4>1 DEF OneMarker
      <4> QED BY <4>1, <4>2, <3>1, <1>0
    <3>4. CASE CtoPFrame
      <4>1. /\ InC = InC' \cup {Head(CollatedFrameRing)} /\ ~IsMarker(Head(CollatedFrameRing))
            /\ NextBufferSequenceNumber' = NextBufferSequenceNumber + 1
        BY <3>4, FrameReceived DEF Received
      <4>2. MarkerIn(InC) => MarkerIn(InC')  BY <4>1 DEF MarkerIn
      <4> QED BY <4>1, <4>2, <3>1, <3>2, <1>0
    <3>5. CASE Onward
      <4>1. NextBufferSequenceNumber' = NextBufferSequenceNumber  BY <3>5, <1>0, Moved, RingOfCollation
      <4>2. InC \subseteq InC'
        <5>1. (\E isReference \in BOOLEAN : Collate(isReference)) \/ DrainJump \/ DrainInsert
                => InC \subseteq InC'
          BY CollationAdds
        <5> QED BY <5>1, <3>5, <1>0, Moved, RingOfCollation
      <4>3. MarkerIn(InC) => MarkerIn(InC')  BY <4>2 DEF MarkerIn
      <4> QED BY <4>1, <4>3, <3>1, <3>2
    <3> QED BY <3>3, <3>4, <3>5 DEF Moves
  <2> QED BY <2>2, <2>3
<1>12. \A i, j \in DOMAIN ManifestedBufferRing' :
         IsSetDrained(ManifestedBufferRing'[i]) /\ IsSetDrained(ManifestedBufferRing'[j]) => i = j
  <2> DEFINE r == ManifestedBufferRing
             s == ManifestedBufferRing'
  <2>1. SUFFICES ASSUME NEW i \in DOMAIN s, NEW j \in DOMAIN s, IsSetDrained(s[i]), IsSetDrained(s[j])
                 PROVE  i = j
    OBVIOUS
  <2>2. \A a, b \in DOMAIN r : IsSetDrained(r[a]) /\ IsSetDrained(r[b]) => a = b  BY DEF OneMarker
  <2>3. Len(r) \in Nat /\ DOMAIN r = 1 .. Len(r) /\ \A k \in 1 .. Len(r) : r[k] \in InR
    BY <1>0, MembersOf DEF Typed, InR
  <2>4. CASE RingTaken
    <3>1. DOMAIN s = 1 .. Len(r) - 1 /\ \A k \in 1 .. Len(r) - 1 : s[k] = r[k + 1]
      BY <2>4 DEF RingTaken
    <3> HIDE DEF r, s
    <3>2. /\ i + 1 \in DOMAIN r /\ j + 1 \in DOMAIN r /\ s[i] = r[i + 1] /\ s[j] = r[j + 1]
          /\ i \in Nat /\ j \in Nat
      BY <3>1, <2>1, <2>3
    <3>3. i + 1 = j + 1  BY <3>2, <2>1, <2>2
    <3> QED BY <3>2, <3>3
  <2>5. CASE RingAdded
    <3>1. PICK n \in Nat :
            /\ DOMAIN s = 1 .. Len(r) + n
            /\ \A k \in 1 .. Len(r) : s[k] = r[k]
            /\ \A k \in Len(r) + 1 .. Len(r) + n : AtTheEnd(s[k]) /\ (IsFrame(s[k]) \/ n = 1)
      BY <2>5 DEF RingAdded
    <3> HIDE DEF r, s
    <3>2. ASSUME NEW k \in DOMAIN s, IsSetDrained(s[k]), k \notin 1 .. Len(r)
          PROVE  k = Len(r) + 1 /\ DrainCallAfter
      <4>1. k \in Len(r) + 1 .. Len(r) + n  BY <3>1, <3>2, <2>3
      <4>2. AtTheEnd(s[k]) /\ n = 1
        BY <4>1, <3>1, <3>2 DEF IsFrame, IsSetDrained
      <4>3. k = Len(r) + 1  BY <4>1, <4>2, <2>3
      <4> QED BY <4>2, <4>3, <3>2 DEF AtTheEnd, IsFrame, IsMarker, IsSetDrained
    <3>3. CASE i \in 1 .. Len(r) /\ j \in 1 .. Len(r)  BY <3>1, <3>3, <2>1, <2>2, <2>3
    <3>4. ASSUME DrainCallAfter, NEW k \in 1 .. Len(r) PROVE ~IsSetDrained(s[k])
      <4>1. r[k] \in Calls /\ drain.pc = "after"  BY <3>4, <2>3, <1>4 DEF Calls
      <4> QED BY <4>1, <3>1 DEF OneMarker
    <3> QED BY <3>2, <3>3, <3>4, <2>1
  <2> QED BY <2>4, <2>5, RingOfPostManifest
<1>13. \A m \in InR', o \in Accumulated'["PostM"] : ~(IsSetDrained(m) /\ IsSetDrained(o))
  <2>1. CASE PostMExtract  BY <2>1, EventSet
  <2>2. CASE ~PostMExtract
    <3>1. ASSUME NEW m \in InR', NEW o \in Accumulated'["PostM"], IsSetDrained(m), IsSetDrained(o)
          PROVE  FALSE
      <4>1. o \in Accumulated["PostM"] /\ o \in Calls  BY <3>1, <2>2, <1>5 DEF Calls
      <4>2. RingAdded  BY <2>2, RingOfPostManifest
      <4>3. CASE m \in InR  BY <4>1, <4>3, <3>1 DEF OneMarker
      <4>4. CASE DrainCallAfter
        <5>1. drain.pc = "after"  BY <4>4, <1>4
        <5> QED BY <5>1, <4>1, <3>1 DEF OneMarker
      <4> QED BY <4>2, <4>3, <4>4, <3>1, <1>6
    <3> QED BY <3>1
  <2> QED BY <2>1, <2>2
<1> QED BY <1>2, <1>8, <1>9, <1>10, <1>11, <1>12, <1>13 DEF OneMarker

-----------------------------------------------------------------------------
\* Flags are set when a drain begins and cleared by its marker.
LEMMA FlagsKept ==
  ASSUME TypeInv, Unswitched, Coming, Moves, ~Begins
  PROVE  /\ \A p \in {"CtoP", "PtoD", "DtoM"} :
              DiscardingUntilMarkerFrame'[p] => DiscardingUntilMarkerFrame[p]
         /\ DiscardingUntilMarkerFrame'["CtoP"] => ~CtoPMarker
         /\ DiscardingUntilMarkerFrame'["DtoM"] => ~DtoMMarker
         /\ \/ DiscardingUntilMarkerFrame'["PtoD"] = DiscardingUntilMarkerFrame["PtoD"]
            \/ PtoDExtract /\ IsMarker(Head(ParsedFrameRing))
         /\ PtoDExtract /\ IsMarker(Head(ParsedFrameRing)) => ~DiscardingUntilMarkerFrame'["PtoD"]
<1>0. DiscardingUntilMarkerFrame \in [{"CtoP", "PtoD", "DtoM"} -> BOOLEAN]
  BY DEF TypeInv, Ranges, MessageRanges
<1>1. ASSUME NEW p \in {"CtoP", "PtoD", "DtoM"}, StopDiscarding(p)
      PROVE  /\ ~DiscardingUntilMarkerFrame'[p]
             /\ \A q \in {"CtoP", "PtoD", "DtoM"} \ {p} :
                  DiscardingUntilMarkerFrame'[q] = DiscardingUntilMarkerFrame[q]
  BY <1>0, <1>1 DEF StopDiscarding
<1>2. CtoPMarker => StopDiscarding("CtoP")  BY DEF CtoPMarker
<1>3. DtoMMarker => StopDiscarding("DtoM")  BY DEF DtoMMarker
<1>4. PtoDExtract /\ IsMarker(Head(ParsedFrameRing)) => StopDiscarding("PtoD")  BY DEF PtoDExtract
<1>5. \/ CtoPMarker \/ DtoMMarker \/ (PtoDExtract /\ IsMarker(Head(ParsedFrameRing)))
      \/ UNCHANGED DiscardingUntilMarkerFrame
  BY DEF Moves, Onward, vars, rings, Downstream, Entry, Rest, Collate, CtoPFrame,
     PtoDExtract, PtoDPass, PtoDDiscard, CodecOutput, DtoMSelect, DtoMExtract, DtoMTimeout,
     DtoMManifest, DtoMDiscard, Manifest, PostMExtract, DrainJump, DrainCodec, DrainRelease,
     DrainCheck, DrainNumber, DrainInsert, DrainCallBefore, DrainCallAfter, DrainReturn
<1>6. "CtoP" # "PtoD" /\ "CtoP" # "DtoM" /\ "PtoD" # "DtoM"  OBVIOUS
<1> QED BY <1>1, <1>2, <1>3, <1>4, <1>5, <1>6

\* A marker stays where it is looked for until it clears the flag there.
LEMMA CollatedStays ==
  ASSUME TypeInv, Unswitched, Coming, Moves
  PROVE  \A m \in InC : m \in InC' \/ (CtoPMarker /\ m \in InP')
                                   \/ (CtoPFrame /\ m = Head(CollatedFrameRing) /\ ~IsMarker(m))
<1>0. Typed  BY DEF TypeInv
<1>1. CASE CtoPMarker  BY <1>1, MarkerReceived DEF Received
<1>2. CASE CtoPFrame  BY <1>2, FrameReceived DEF Received
<1>3. CASE Onward
  <2>1. (\E isReference \in BOOLEAN : Collate(isReference)) \/ DrainJump \/ DrainInsert
          => InC \subseteq InC'
    BY CollationAdds
  <2>2. InC \subseteq InC'  BY <2>1, <1>3, <1>0, Moved, RingOfCollation
  <2> QED BY <2>2
<1> QED BY <1>1, <1>2, <1>3 DEF Moves

\* What is parsed stays in its ring or is what ParseToDecode takes.
LEMMA ParsedStays ==
  ASSUME TypeInv, Unswitched, Coming, Moves
  PROVE  InP \subseteq InP' \/ (PtoDExtract /\ InP = InP' \cup {Head(ParsedFrameRing)})
<1>0. Typed  BY DEF TypeInv
<1>1. CASE CtoPMarker
  <2>1. InP' = InP \cup {Head(CollatedFrameRing)}  BY <1>1, MarkerReceived
  <2> QED BY <2>1
<1>2. CASE CtoPFrame  BY <1>2, FrameReceived
<1>3. CASE PtoDExtract
  <2>1. ParsedFrameRing # <<>> /\ ParsedFrameRing' = Tail(ParsedFrameRing)  BY <1>3 DEF PtoDExtract
  <2> QED BY <2>1, <1>0, <1>3, TailIs DEF Typed, InP
<1>4. CASE Onward /\ ~PtoDExtract
  <2>1. UNCHANGED ParsedFrameRing
    BY <1>4 DEF Onward, Begins, vars, rings, Downstream, Entry, Rest, Collate, DrainBegin,
       PtoDPass, PtoDDiscard, CodecOutput, DtoMSelect, DtoMMarker, DtoMExtract, DtoMTimeout,
       DtoMManifest, DtoMDiscard, Manifest, PostMExtract, DrainJump, DrainCodec, DrainRelease,
       DrainCheck, DrainNumber, DrainInsert, DrainCallBefore, DrainCallAfter, DrainReturn
  <2> QED BY <2>1 DEF InP, ToSet
<1> QED BY <1>1, <1>2, <1>3, <1>4 DEF Moves

\* Nor does it get lost on the way from ParseToDecode to DecodeToManifest, if
\* those that would drop it have another one coming.
LEMMA HandedOn ==
  ASSUME TypeInv, Unswitched, Coming, Moves, ~Entering, ~Begins, ~DtoMMarker,
         NEW m \in InH \cup InK \cup InD \cup InF, IsMarker(m)
  PROVE  \/ MarkerIn(Upstream')
         \/ PtoDDiscard /\ DiscardingUntilMarkerFrame["PtoD"]
<1>0. Typed /\ DrainRanges  BY DEF TypeInv, Ranges
<1>1. SUFFICES ASSUME ~(PtoDDiscard /\ DiscardingUntilMarkerFrame["PtoD"])
               PROVE  \E o \in InH' \cup InK' \cup InD' \cup InF' : IsMarker(o)
  BY DEF MarkerIn, Upstream
<1>2. CASE m \in InH
  <2>1. m = PtoDBuffer /\ PtoDBuffer # Nothing  BY <1>2 DEF InH, InHand
  <2>2. CASE PtoDPass
    <3> DEFINE k == IF IsMarker(PtoDBuffer) THEN CodecUnmarked ELSE codec
    <3>1. codec' = Append(k, PtoDBuffer)  BY <2>2 DEF PtoDPass
    <3>2. k \in Seq(CodedItems)
      <4>1. codec \in Seq(CodedItems)  BY <1>0 DEF Typed
      <4>2. CodecUnmarked \in Seq(CodedItems)  BY <4>1, UnmarkedSubset
      <4> QED BY <4>1, <4>2
    <3> HIDE DEF k
    <3>3. m \in InK'  BY <3>1, <3>2, <2>1, AppendAdds DEF InK
    <3> QED BY <3>3
  <2>3. ~PtoDDiscard
    <3>1. ~IsFrame(PtoDBuffer)  BY <2>1 DEF IsFrame, IsMarker
    <3> QED BY <3>1, <1>1 DEF PtoDDiscard
  <2>4. CASE UNCHANGED PtoDBuffer  BY <2>1, <2>4, <1>2 DEF InH, InHand
  <2>5. PtoDPass \/ UNCHANGED PtoDBuffer
    BY <2>1, <2>3 DEF Moves, Onward, Begins, vars, Downstream, Entry, Rest, Collate, DrainBegin, CtoPMarker, CtoPFrame,
       PtoDExtract, CodecOutput, DtoMSelect, DtoMMarker, DtoMExtract, DtoMTimeout,
       DtoMManifest, DtoMDiscard, Manifest, PostMExtract, DrainJump, DrainCodec, DrainRelease,
       DrainCheck, DrainNumber, DrainInsert, DrainCallBefore, DrainCallAfter, DrainReturn
  <2> QED BY <2>2, <2>4, <2>5
<1>3. CASE m \in InK
  <2>1. CASE PtoDPass
    <3>1. PtoDBuffer # Nothing
          /\ codec' = Append(IF IsMarker(PtoDBuffer) THEN CodecUnmarked ELSE codec, PtoDBuffer)
      BY <2>1 DEF PtoDPass
    <3>2. CASE IsMarker(PtoDBuffer)
      <4>1. CodecUnmarked \in Seq(CodedItems)
        <5>1. codec \in Seq(CodedItems)  BY <1>0 DEF Typed
        <5> QED BY <5>1, UnmarkedSubset
      <4>2. PtoDBuffer \in InK'  BY <3>1, <3>2, <4>1, AppendAdds DEF InK
      <4> QED BY <3>2, <4>2
    <3>3. CASE ~IsMarker(PtoDBuffer)
      <4>1. codec' = Append(codec, PtoDBuffer) /\ codec \in Seq(CodedItems)
        BY <3>1, <3>3, <1>0 DEF Typed
      <4>2. m \in InK'  BY <4>1, <1>3, AppendAdds DEF InK
      <4> QED BY <4>2
    <3> QED BY <3>2, <3>3
  <2>2. CASE CodecOutput
    <3>1. /\ codec # <<>> /\ codec' = Tail(codec)
          /\ DecodedFrameRing' = IF Head(codec).kind = "dropped" THEN DecodedFrameRing
                                 ELSE Append(DecodedFrameRing, Head(codec))
      BY <2>2 DEF CodecOutput
    <3>2. InK = InK' \cup {Head(codec)}  BY <3>1, <1>0, TailIs DEF Typed, InK
    <3>3. CASE m = Head(codec)
      <4>1. Head(codec).kind # "dropped"  BY <3>3 DEF IsMarker
      <4>2. m \in InD'
        BY <3>1, <3>3, <4>1, <1>0, AppendAdds DEF Typed, InD
      <4> QED BY <4>2
    <3> QED BY <3>2, <3>3, <1>3
  <2>3. ~DrainCodec  BY EnteringIs DEF DrainCodec, Entering, At
  <2>4. CASE UNCHANGED codec  BY <2>4, <1>3 DEF InK, ToSet
  <2>5. PtoDPass \/ CodecOutput \/ UNCHANGED codec
    BY <2>3 DEF Moves, Onward, Begins, vars, Downstream, Entry, Rest, Collate, DrainBegin, CtoPMarker, CtoPFrame,
       PtoDExtract, PtoDDiscard, DtoMSelect, DtoMMarker, DtoMExtract, DtoMTimeout,
       DtoMManifest, DtoMDiscard, Manifest, PostMExtract, DrainJump, DrainRelease,
       DrainCheck, DrainNumber, DrainInsert, DrainCallBefore, DrainCallAfter, DrainReturn
  <2> QED BY <2>1, <2>2, <2>4, <2>5
<1>4. CASE m \in InD
  <2>1. CASE DtoMExtract
    <3>1. /\ DecodedFrameRing # <<>> /\ DecodedFrameRing' = Tail(DecodedFrameRing)
          /\ IsMarker(Head(DecodedFrameRing)) => MarkerFrameBuffer' = Head(DecodedFrameRing)
      BY <2>1 DEF DtoMExtract, IsMarker, IsFrame, IsControl, BeforeCalls, AfterCalls
    <3>2. InD = InD' \cup {Head(DecodedFrameRing)}  BY <3>1, <1>0, TailIs DEF Typed, InD
    <3>3. CASE m = Head(DecodedFrameRing)
      <4>1. m \in InF'  BY <3>1, <3>3, NothingIs DEF InF, InHand
      <4> QED BY <4>1
    <3> QED BY <3>2, <3>3, <1>4
  <2>2. CASE CodecOutput
    <3>1. DecodedFrameRing' = DecodedFrameRing \/ DecodedFrameRing' = Append(DecodedFrameRing, Head(codec))
      BY <2>2 DEF CodecOutput
    <3>2. m \in InD'  BY <3>1, <1>0, <1>4, AppendAdds DEF Typed, InD
    <3> QED BY <3>2
  <2>3. CASE DrainCallBefore
    <3>1. DecodedFrameRing' = Append(DecodedFrameRing, Item("ResetTimeMapping", None, DrainSequenceNumber))
      BY <2>3 DEF DrainCallBefore
    <3>2. m \in InD'  BY <3>1, <1>0, <1>4, AppendAdds DEF Typed, InD
    <3> QED BY <3>2
  <2>4. CASE UNCHANGED DecodedFrameRing  BY <2>4, <1>4 DEF InD, ToSet
  <2>5. DtoMExtract \/ CodecOutput \/ DrainCallBefore \/ UNCHANGED DecodedFrameRing
    BY DEF Moves, Onward, Begins, vars, rings, Downstream, Entry, Rest, Collate, DrainBegin, CtoPMarker, CtoPFrame,
       PtoDExtract, PtoDDiscard, PtoDPass, DtoMSelect, DtoMMarker, DtoMTimeout,
       DtoMManifest, DtoMDiscard, Manifest, PostMExtract, DrainJump, DrainCodec, DrainRelease,
       DrainCheck, DrainNumber, DrainInsert, DrainCallAfter, DrainReturn
  <2> QED BY <2>1, <2>2, <2>3, <2>4, <2>5
<1>5. CASE m \in InF
  <2>1. MarkerFrameBuffer # Nothing  BY <1>5 DEF InF, InHand
  <2>2. UNCHANGED MarkerFrameBuffer
    BY <2>1 DEF Moves, Onward, Begins, vars, dtom, Downstream, Entry, Rest, Collate, DrainBegin, CtoPMarker, CtoPFrame,
       PtoDExtract, PtoDDiscard, PtoDPass, CodecOutput, DtoMSelect, DtoMExtract, DtoMTimeout,
       DtoMManifest, DtoMDiscard, Manifest, PostMExtract, DrainJump, DrainCodec, DrainRelease,
       DrainCheck, DrainNumber, DrainInsert, DrainCallBefore, DrainCallAfter, DrainReturn
  <2> QED BY <2>2, <1>5 DEF InF, InHand
<1> QED BY <1>2, <1>3, <1>4, <1>5

-----------------------------------------------------------------------------
\* A marker stays upstream until the process that stops discarding has seen it.
LEMMA MarkerStays ==
  ASSUME TypeInv, Unswitched, Coming, Discarding, Moves, ~Entering, ~Begins
  PROVE  /\ MarkerIn(InC) /\ ~CtoPMarker => MarkerIn(InC')
         /\ MarkerIn(InC \cup InP) /\ ~(PtoDExtract /\ IsMarker(Head(ParsedFrameRing)))
              => MarkerIn(InC' \cup InP')
         /\ MarkerIn(Upstream) /\ ~DtoMMarker => MarkerIn(Upstream')
<1>0. Typed  BY DEF TypeInv
<1>1. MarkerIn(InC) /\ ~CtoPMarker => MarkerIn(InC')  BY CollatedStays DEF MarkerIn
<1>2. ASSUME NEW m \in InC, IsMarker(m) PROVE m \in InC' \cup InP'  BY <1>2, CollatedStays
<1>3. ASSUME NEW m \in InP, IsMarker(m)
      PROVE  m \in InP' \/ (PtoDExtract /\ m = Head(ParsedFrameRing))
  BY <1>3, ParsedStays
<1>4. MarkerIn(InC \cup InP) /\ ~(PtoDExtract /\ IsMarker(Head(ParsedFrameRing)))
        => MarkerIn(InC' \cup InP')
  BY <1>2, <1>3 DEF MarkerIn
<1>5. ASSUME ~DtoMMarker, NEW m \in Upstream, IsMarker(m) PROVE MarkerIn(Upstream')
  <2>1. CASE m \in InC  BY <2>1, <1>2, <1>5 DEF MarkerIn, Upstream
  <2>2. CASE m \in InP
    <3>1. CASE m \in InP'  BY <3>1, <1>5 DEF MarkerIn, Upstream
    <3>2. CASE PtoDExtract /\ m = Head(ParsedFrameRing)
      <4>1. PtoDBuffer' = m  BY <3>2 DEF PtoDExtract
      <4>2. m \in InH'  BY <4>1, <1>5, NothingIs DEF InH, InHand
      <4> QED BY <4>2, <1>5 DEF MarkerIn, Upstream
    <3> QED BY <3>1, <3>2, <2>2, <1>3, <1>5
  <2>3. CASE m \in InH \cup InK \cup InD \cup InF
    <3>1. CASE PtoDDiscard /\ DiscardingUntilMarkerFrame["PtoD"]
      <4>1. MarkerIn(InC \cup InP)  BY <3>1 DEF Discarding
      <4>2. ~PtoDExtract  BY <3>1 DEF PtoDDiscard, PtoDExtract
      <4>3. MarkerIn(InC' \cup InP')  BY <4>1, <4>2, <1>4
      <4> QED BY <4>3 DEF MarkerIn, Upstream
    <3> QED BY <3>1, <2>3, <1>5, HandedOn
  <2> QED BY <2>1, <2>2, <2>3, <1>5 DEF Upstream
<1>6. MarkerIn(Upstream) /\ ~DtoMMarker => MarkerIn(Upstream')  BY <1>5 DEF MarkerIn
<1> QED BY <1>1, <1>4, <1>6

\* A marker that goes in is looked for by everybody.
LEMMA DiscardingStep ==
  ASSUME TypeInv, Unswitched, Coming, Discarding, Moves
  PROVE  Discarding'
<1>1. drain'.n = 0 => \A p \in {"CtoP", "PtoD", "DtoM"} : ~DiscardingUntilMarkerFrame'[p]
  <2>1. drain'.n = 0 => ~Begins /\ drain.n = 0  BY EnteringIs
  <2> QED BY <2>1, FlagsKept DEF Discarding
<1>2. ASSUME ~Entering'
      PROVE  /\ DiscardingUntilMarkerFrame'["CtoP"] => MarkerIn(InC')
             /\ DiscardingUntilMarkerFrame'["PtoD"] => MarkerIn(InC' \cup InP')
             /\ DiscardingUntilMarkerFrame'["DtoM"] => MarkerIn(Upstream')
  <2>1. CASE DrainInsert
    <3>1. PICK e : InC' = InC \cup {e} /\ IsMarker(e)  BY <2>1, CollationAdds
    <3> QED BY <3>1 DEF MarkerIn, Upstream
  <2>2. CASE ~DrainInsert
    <3>1. ~Entering /\ ~Begins  BY <1>2, <2>2, EnteringIs
    <3> QED BY <3>1, FlagsKept, MarkerStays DEF Discarding
  <2> QED BY <2>1, <2>2
<1> QED BY <1>1, <1>2 DEF Discarding

\* A jump goes in before its marker.
LEMMA JumpAheadStep ==
  ASSUME TypeInv, Unswitched, Coming, JumpAhead, Moves
  PROVE  JumpAhead'
<1> DEFINE r == CollatedFrameRing
           s == CollatedFrameRing'
<1>0. r \in Seq(CollatedItems) /\ Len(r) \in Nat /\ DOMAIN r = 1 .. Len(r)
  BY DEF TypeInv, Typed
<1>1. SUFFICES ASSUME NEW i \in DOMAIN s, IsJump(s[i]), ~Entering'
               PROVE  \E k \in DOMAIN s : i < k /\ IsMarker(s[k])
  BY DEF JumpAhead
<1>2. ASSUME NEW a \in DOMAIN r, IsJump(r[a]), ~Entering
      PROVE  \E k \in DOMAIN r : a < k /\ IsMarker(r[k])
  BY <1>2 DEF JumpAhead
<1>3. CASE CtoPMarker \/ CtoPFrame
  <2>1. r # <<>> /\ s = Tail(r)
    BY <1>3, MarkerReceived, FrameReceived DEF Received
  <2>2. /\ DOMAIN s = 1 .. Len(r) - 1 /\ \A k \in 1 .. Len(r) - 1 : s[k] = r[k + 1]
    BY <1>0, <2>1
  <2>3. ~Entering
    <3>1. UNCHANGED drain  BY <1>3, MarkerReceived, FrameReceived DEF Received
    <3> QED BY <3>1, <1>1 DEF Entering
  <2> HIDE DEF r, s
  <2>4. i + 1 \in DOMAIN r /\ IsJump(r[i + 1]) /\ i \in Nat  BY <1>0, <1>1, <2>2
  <2>5. PICK k \in DOMAIN r : i + 1 < k /\ IsMarker(r[k])  BY <1>2, <2>3, <2>4
  <2>6. k - 1 \in DOMAIN s /\ i < k - 1 /\ s[k - 1] = r[k]  BY <1>0, <2>2, <2>4, <2>5
  <2> QED BY <2>5, <2>6
<1>4. CASE Onward /\ UNCHANGED CollatedFrameRing
  <2>1. ~DrainInsert
    <3>1. ASSUME DrainInsert PROVE FALSE
      <4>1. r = Append(r, Item("marker", drain.n, DrainSequenceNumber))
        BY <3>1, <1>4 DEF DrainInsert
      <4>2. Len(r) = Len(r) + 1
        <5>1. Len(Append(r, Item("marker", drain.n, DrainSequenceNumber))) = Len(r) + 1
          BY <1>0
        <5> QED BY <4>1, <5>1
      <4> QED BY <4>2, <1>0
    <3> QED BY <3>1
  <2>2. ~Entering  BY <2>1, <1>1, EnteringIs
  <2> QED BY <2>2, <1>1, <1>2, <1>4
<1>5. CASE (\E isReference \in BOOLEAN : Collate(isReference)) \/ DrainJump \/ DrainInsert
  <2>1. PICK e : /\ s = Append(r, e)
                 /\ (\E isReference \in BOOLEAN : Collate(isReference)) => ~IsJump(e)
                 /\ DrainInsert => IsMarker(e) /\ ~IsJump(e)
    BY <1>5, CollationAdds
  <2>2. /\ DOMAIN s = 1 .. Len(r) + 1 /\ s[Len(r) + 1] = e
        /\ \A k \in 1 .. Len(r) : s[k] = r[k]
    BY <1>0, <2>1
  <2>3. ~DrainJump
    <3>1. DrainJump => Entering'
      BY EnteringIs, DrainMoves DEF Entry, TypeInv, Ranges
    <3> QED BY <3>1, <1>1
  <2> HIDE DEF r, s
  <2>4. ~IsJump(e)  BY <1>5, <2>1, <2>3
  <2>5. i \in DOMAIN r /\ IsJump(r[i])
    <3>1. i # Len(r) + 1  BY <2>2, <2>4, <1>1
    <3>2. i \in 1 .. Len(r)  BY <3>1, <2>2, <1>0, <1>1
    <3> QED BY <3>2, <2>2, <1>0, <1>1
  <2>6. CASE DrainInsert
    <3>1. IsMarker(s[Len(r) + 1]) /\ Len(r) + 1 \in DOMAIN s /\ i < Len(r) + 1
      BY <2>1, <2>2, <2>5, <2>6, <1>0
    <3> QED BY <3>1
  <2>7. CASE ~DrainInsert
    <3>1. ~Entering  BY <2>7, <1>1, EnteringIs
    <3>2. PICK k \in DOMAIN r : i < k /\ IsMarker(r[k])  BY <3>1, <2>5, <1>2
    <3>3. k \in DOMAIN s /\ s[k] = r[k]  BY <1>0, <2>2
    <3> QED BY <3>2, <3>3
  <2> QED BY <2>6, <2>7
<1>6. Onward => \/ UNCHANGED CollatedFrameRing
                \/ (\E isReference \in BOOLEAN : Collate(isReference)) \/ DrainJump \/ DrainInsert
  BY Moved, RingOfCollation DEF TypeInv
<1> QED BY <1>3, <1>4, <1>5, <1>6 DEF Moves

-----------------------------------------------------------------------------
\* A drain that discards: what is behind the marker is all that is passed on.
LEMMA KeptStep ==
  ASSUME TypeInv, StaysIndexed, Chain, Unswitched, Coming, Ascending', OneMarker, Discarding, Kept, Moves
  PROVE  Kept'
<1>0. /\ Typed /\ DrainRanges /\ NextBufferSequenceNumber \in Nat /\ DrainSequenceNumber \in Nat
      /\ ParseRanges
  BY DEF TypeInv, Ranges, MessageRanges
<1>1. SUFFICES ASSUME drain'.n > 0, drain'.discard
               PROVE  /\ ~DiscardingUntilMarkerFrame'["PtoD"] =>
                           /\ ~Entering' /\ DrainSequenceNumber' < NextBufferSequenceNumber'
                           /\ \A m \in InP' \cup InH' : IsFrame(m) => Passed(m)'
                      /\ Jumped' => \A m \in InK' \cup InD' \cup InT' : IsFrame(m) =>
                           HasIndex(m.id)' \/ Passed(m)'
  BY DEF Kept, InT
<1>2. CASE Begins
  <2>1. PICK policy \in Policies : DrainBegin(policy)  BY <1>2 DEF Begins
  <2>2. ~Plays(policy)  BY <2>1, <1>0, <1>1, DrainRecordIs
  <2>3. drain'.pc = "jump"  BY <2>1, <2>2, <1>0, DrainRecordIs
  <2>4. DiscardingUntilMarkerFrame' =
          [p \in {"CtoP", "PtoD", "DtoM"} |-> p # "CtoP" \/ policy # "discard, parse all"]
    BY <2>1, <2>2 DEF DrainBegin
  <2>5. DiscardingUntilMarkerFrame'["PtoD"]  BY <2>4
  <2> QED BY <2>3, <2>5 DEF Jumped
<1>3. CASE ~Begins
  <2>1. drain.n > 0 /\ drain.discard  BY <1>1, <1>3, EnteringIs
  <2>2. ASSUME NEW m, Passed(m) PROVE Passed(m)'
    BY <2>2, <1>3, EnteringIs DEF Passed
  <2>3. NextBufferSequenceNumber <= NextBufferSequenceNumber' /\ NextBufferSequenceNumber' \in Nat
    <3>1. CASE CtoPMarker
      <4>1. /\ NextBufferSequenceNumber <= Head(CollatedFrameRing).Value
            /\ NextBufferSequenceNumber' = Head(CollatedFrameRing).Value + 1
            /\ Head(CollatedFrameRing) \in MarkerItems
        BY <3>1, MarkerReceived
      <4> QED BY <4>1, <1>0, MarkerIs
    <3>2. CASE CtoPFrame  BY <3>2, <1>0, FrameReceived
    <3>3. CASE Onward  BY <3>3, <1>0, Moved, RingOfCollation
    <3> QED BY <3>1, <3>2, <3>3 DEF Moves
  <2>4. ASSUME ~DiscardingUntilMarkerFrame'["PtoD"]
        PROVE  /\ ~Entering' /\ DrainSequenceNumber' < NextBufferSequenceNumber'
               /\ \A m \in InP' \cup InH' : IsFrame(m) => Passed(m)'
    <3>1. CASE ~DiscardingUntilMarkerFrame["PtoD"]
      <4>1. /\ ~Entering /\ DrainSequenceNumber < NextBufferSequenceNumber
            /\ \A m \in InP \cup InH : IsFrame(m) => Passed(m)
        BY <3>1, <2>1 DEF Kept
      <4>2. ~Entering' /\ UNCHANGED DrainSequenceNumber  BY <4>1, <1>3, EnteringIs
      <4>3. ASSUME NEW m \in InP' \cup InH', IsFrame(m)
            PROVE  m \in InP \cup InH \/ m.Value = NextBufferSequenceNumber
        <5>1. CASE CtoPMarker
          <6>1. InP' = InP \cup {Head(CollatedFrameRing)} /\ InH' = InH
                /\ Head(CollatedFrameRing) \in MarkerItems
            BY <5>1, MarkerReceived DEF Received
          <6> QED BY <6>1, <4>3, MarkerIs
        <5>2. CASE CtoPFrame
          <6>1. InH' = InH  BY <5>2, FrameReceived DEF Received
          <6>2. PICK o : InP' = InP \/ (InP' = InP \cup {o} /\ o.Value = NextBufferSequenceNumber)
            BY <5>2, FrameReceived
          <6> QED BY <6>1, <6>2, <4>3
        <5>3. CASE Onward
          <6>1. Flow  BY <5>3, <1>0, Moved, FlowIs
          <6> QED BY <6>1, <4>3 DEF Flow
        <5> QED BY <5>1, <5>2, <5>3 DEF Moves
      <4>4. ASSUME NEW m \in InP' \cup InH', IsFrame(m) PROVE Passed(m)'
        <5>1. CASE m \in InP \cup InH  BY <5>1, <4>1, <4>4, <2>2
        <5>2. CASE m.Value = NextBufferSequenceNumber  BY <5>2, <4>1, <4>2 DEF Passed
        <5> QED BY <5>1, <5>2, <4>3, <4>4
      <4>5. DrainSequenceNumber' < NextBufferSequenceNumber'  BY <4>1, <4>2, <2>3, <1>0
      <4> QED BY <4>2, <4>4, <4>5
    <3>2. CASE DiscardingUntilMarkerFrame["PtoD"]
      <4> DEFINE o == Head(ParsedFrameRing)
      <4>1. PtoDExtract /\ IsMarker(o)  BY <3>2, <2>4, <1>3, FlagsKept
      <4>2. /\ ParsedFrameRing # <<>> /\ ParsedFrameRing' = Tail(ParsedFrameRing)
            /\ PtoDBuffer' = o /\ UNCHANGED <<NextBufferSequenceNumber, DrainSequenceNumber, drain>>
        BY <4>1 DEF PtoDExtract, drn
      <4>3. o \in InP /\ Less({o}, InP')
        <5>1. ParsedFrameRing \in Seq(ParsedItems) /\ \A m \in ParsedItems : m.Value \in Nat
          BY <1>0, ParsedIs DEF Typed
        <5>2. Rising(ParsedFrameRing)  BY DEF Chain, ChainRising
        <5> QED BY <5>1, <5>2, <4>2, RisingTail, TailIs DEF InP
      <4> HIDE DEF o
      <4>4. o \in Everywhere  BY <4>3 DEF Everywhere
      <4>5. ~IsControl(o)  BY <4>1 DEF IsMarker, IsControl, BeforeCalls, AfterCalls
      <4>6. o.Value < NextBufferSequenceNumber  BY <4>4, <4>5 DEF Chain, ChainBelow
      <4>7. ~Entering /\ o.Value = DrainSequenceNumber  BY <4>1, <4>4 DEF OneMarker
      <4>8. ~Entering' /\ DrainSequenceNumber' < NextBufferSequenceNumber'
        BY <4>2, <4>6, <4>7 DEF Entering
      <4>9. ASSUME NEW m \in InP' \cup InH', IsFrame(m) PROVE Passed(m)'
        <5>1. ~IsControl(m)  BY <4>9 DEF IsFrame, IsControl, BeforeCalls, AfterCalls
        <5>2. CASE m \in InP'
          <6>1. o.Value < m.Value  BY <5>1, <5>2, <4>3, <4>5 DEF Less
          <6> QED BY <6>1, <4>2, <4>7, <4>8 DEF Passed
        <5>3. m \notin InH'
          <6>1. ~IsFrame(o)  BY <4>1 DEF IsMarker, IsFrame
          <6> QED BY <6>1, <4>2, <4>9 DEF InH, InHand
        <5> QED BY <5>2, <5>3, <4>9
      <4> QED BY <4>8, <4>9
    <3> QED BY <3>1, <3>2
  <2>5. ASSUME Jumped', NEW m \in InK' \cup InD' \cup InT', IsFrame(m)
        PROVE  HasIndex(m.id)' \/ Passed(m)'
    <3>1. CASE Jumped
      <4>1. /\ \A o \in InK \cup InD \cup InT : IsFrame(o) => HasIndex(o.id) \/ Passed(o)
            /\ ~DiscardingUntilMarkerFrame["PtoD"] => \A o \in InH : IsFrame(o) => Passed(o)
        BY <3>1, <2>1 DEF Kept, InT
      <4>2. m \in InK \cup InD \cup InT \/ (m \in InH /\ ~DiscardingUntilMarkerFrame["PtoD"])
        <5>1. CASE CtoPMarker  BY <5>1, <2>5, MarkerReceived DEF Received
        <5>2. CASE CtoPFrame  BY <5>2, <2>5, FrameReceived DEF Received
        <5>3. CASE Onward
          <6>1. Flow  BY <5>3, <1>0, Moved, FlowIs
          <6> QED BY <6>1, <2>5 DEF Flow, IsBuffer
        <5> QED BY <5>1, <5>2, <5>3 DEF Moves
      <4>3. CASE Passed(m)  BY <4>3, <2>2
      <4>4. CASE HasIndex(m.id) /\ m \in InK \cup InD \cup InT
        <5>1. m \in Everywhere  BY <4>4 DEF Everywhere, InX, InT
        <5>2. m \in FrameItems  BY <5>1, <2>5, FramesFrom
        <5>3. m.id \in Frames  BY <5>2, FrameIs
        <5> QED BY <5>3, <4>4 DEF StaysIndexed, HasIndex
      <4> QED BY <4>1, <4>2, <4>3, <4>4, <2>5
    <3>2. CASE ~Jumped
      <4>1. drain.pc # "jump"
        <5>1. CASE UNCHANGED drain  BY <5>1, <2>5 DEF Jumped
        <5>2. CASE Entry
          <6>1. ASSUME DrainJump PROVE FALSE
            <7>1. PICK e : InC' = InC \cup {e} /\ IsJump(e)  BY <6>1, CollationAdds
            <7> QED BY <7>1, <2>5 DEF Jumped
          <6> QED BY <5>2, <6>1 DEF Entry, DrainCodec, DrainRelease, DrainCheck, DrainNumber, At
        <5>3. CASE DrainInsert \/ Rest
          BY <5>3, <1>0, DrainMoves
        <5> QED BY <5>1, <5>2, <5>3, <1>0, <1>3, DrainMoves DEF Moves, Onward, vars, drn
      <4>2. PICK j \in InC : IsJump(j)  BY <3>2, <4>1 DEF Jumped
      <4>3. j \notin InC'  BY <4>2, <2>5 DEF Jumped
      <4>4. CtoPFrame /\ j = Head(CollatedFrameRing)
        <5>1. CASE CtoPMarker
          <6>1. IsMarker(Head(CollatedFrameRing)) /\ InC = InC' \cup {Head(CollatedFrameRing)}
            BY <5>1, MarkerReceived DEF Received
          <6>2. j = Head(CollatedFrameRing)  BY <6>1, <4>3
          <6> QED BY <6>1, <6>2, <4>2 DEF IsMarker, IsJump
        <5> QED BY <5>1, <4>3, CollatedStays
      <4>5. ParseJump
        <5>1. ~IsFrame(j)  BY <4>2 DEF IsJump, IsFrame
        <5> QED BY <5>1, <4>2, <4>4, FrameReceived
      <4>6. parser'.deferred = None  BY <4>5, <1>0, DeferredAtJump
      <4>7. m \in Everywhere'  BY <2>5 DEF Everywhere, InX, InT
      <4>8. m.id # None
        <5>1. m \in Everywhere
          <6>1. Everywhere' = Everywhere
            <7>1. InP' = InP /\ Received
              <8>1. ~IsFrame(j)  BY <4>2 DEF IsJump, IsFrame
              <8> QED BY <8>1, <4>2, <4>4, FrameReceived
            <7> QED BY <7>1 DEF Received, Everywhere
          <6> QED BY <6>1, <4>7
        <5>2. m \in FrameItems  BY <5>1, <2>5, FramesFrom
        <5>3. m.id \in Frames  BY <5>2, FrameIs
        <5> QED BY <5>3, Bounds DEF None
      <4> QED BY <4>6, <4>7, <4>8, <2>5 DEF Ascending
    <3> QED BY <3>1, <3>2
  <2> QED BY <2>4, <2>5
<1> QED BY <1>2, <1>3

\* The frames that are left, by stage.
LeftByStage ==
  /\ \A m : m \in Undelivered <=>
       IsFrame(m) /\ m \in InD \cup InK \cup InH \cup InP \cup InT \cup InB
  /\ \A m \in Undelivered : m.Value \in Nat
\* The frames that are left are those of the stages up to the hand of DecodeToManifest.
LEMMA UndeliveredIs == Typed /\ Chain => LeftByStage
<1> SUFFICES ASSUME Typed, Chain PROVE LeftByStage  OBVIOUS
<1>1. ToSet(InDecodeOrder) = InD \cup InK \cup InH \cup InP  BY DecodeOrderIs
<1>2. \A m : IsFrame(m) /\ m = DtoMBuffer <=> IsFrame(m) /\ m \in InB
  BY NothingIs DEF InB, InHand
<1>3. \A m : m \in Undelivered <=>
        IsFrame(m) /\ m \in InD \cup InK \cup InH \cup InP \cup InT \cup InB
  BY <1>1, <1>2 DEF Undelivered, InT
<1>4. \A m \in Undelivered : m.Value \in Nat  BY <1>3, Numbers DEF Everywhere, InX, InT, InB
<1> QED BY <1>3, <1>4 DEF LeftByStage

\* The same of the next state.
LEMMA UndeliveredNext == (Typed /\ Chain)' => LeftByStage'
BY UndeliveredIs, PTL

\* Frames that are left were left before, and are where they were or further on.
LEMMA LeftFrom ==
  ASSUME TypeInv, TypeInv', Chain, Chain', Unswitched, Coming, Moves,
         NEW m \in Undelivered', m.Value < NextBufferSequenceNumber
  PROVE  /\ IsFrame(m) /\ m \in Undelivered
         /\ m \in InX => m \in InT' \cup InB'
<1>0. Typed /\ ParseRanges /\ MessageRanges /\ Typed'  BY DEF TypeInv, Ranges
<1>1. IsFrame(m) /\ m \in InD' \cup InK' \cup InH' \cup InP' \cup InT' \cup InB'
  <2>1. (\A o : o \in Undelivered <=>
           IsFrame(o) /\ o \in InD \cup InK \cup InH \cup InP \cup InT \cup InB)'
    BY <1>0, UndeliveredNext DEF LeftByStage
  <2> QED BY <2>1 DEF IsFrame
<1>2. /\ m \in InT' \cup InB' => m \in InT \cup InB \cup InD
      /\ m \in InD' \cup InK' \cup InH' \cup InP' => m \in InD \cup InK \cup InH \cup InP
  <2>1. CASE Onward
    <3>1. Flow  BY <2>1, <1>0, Moved, FlowIs
    <3> QED BY <3>1, <1>1 DEF Flow, IsBuffer
  <2>2. CASE CtoPMarker
    <3>1. Received /\ IsMarker(Head(CollatedFrameRing)) /\ InP' = InP \cup {Head(CollatedFrameRing)}
      BY <2>2, MarkerReceived
    <3>2. m # Head(CollatedFrameRing)  BY <3>1, <1>1 DEF IsFrame, IsMarker
    <3> QED BY <3>1, <3>2 DEF Received
  <2>3. CASE CtoPFrame
    <3>1. Received /\ (InP' = InP \/ \E o : InP' = InP \cup {o} /\ o.Value = NextBufferSequenceNumber)
      BY <2>3, FrameReceived
    <3>2. NextBufferSequenceNumber \in Nat  BY <1>0 DEF MessageRanges
    <3>3. \A o : o.Value = NextBufferSequenceNumber => m # o  BY <3>2
    <3> QED BY <3>1, <3>3 DEF Received
  <2> QED BY <2>1, <2>2, <2>3 DEF Moves
<1>3. m \in Undelivered  BY <1>0, <1>1, <1>2, UndeliveredIs DEF LeftByStage
<1>4. m \in InX => m \notin InD \cup InK \cup InH \cup InP
  <2>1. \A o \in Everywhere : o.Value \in Nat  BY <1>0, Numbers
  <2>2. m \in InX => m.Value \in Nat /\ ~(m.Value < m.Value)  BY <2>1 DEF Everywhere
  <2>3. ~IsControl(m)  BY <1>1 DEF IsFrame, IsControl, BeforeCalls, AfterCalls
  <2> QED BY <2>2, <2>3 DEF Chain, ChainLess, Less
<1> QED BY <1>1, <1>2, <1>3, <1>4

\* Frames that are left below a number that has been given were left before,
\* the reference frames are those of before, and none goes back.
LEMMA BeforeStays ==
  ASSUME TypeInv, TypeInv', Chain, Chain', Unswitched, Coming, Ascending, Moves,
         NEW v \in Nat, v <= NextBufferSequenceNumber, NEW m \in Before(v)'
  PROVE  /\ m \in Before(v) /\ reference'[m.id] = reference[m.id]
         /\ m \in InT \cup InB => m \in InT' \cup InB'
<1>0. Typed /\ NextBufferSequenceNumber \in Nat /\ InputRanges
  BY DEF TypeInv, Ranges, MessageRanges
<1>1. m \in Undelivered' /\ m.Value < v  BY DEF Before
<1>2. m.Value \in Nat  BY <1>1, UndeliveredNext DEF LeftByStage, TypeInv
<1>3. m.Value < NextBufferSequenceNumber  BY <1>0, <1>1, <1>2
<1>4. IsFrame(m) /\ m \in Undelivered /\ (m \in InX => m \in InT' \cup InB')
  BY <1>1, <1>3, LeftFrom
<1>5. m.id \in Frames /\ m.id <= collated
  <2>1. m \in Everywhere
    BY <1>0, <1>4, UndeliveredIs DEF LeftByStage, Everywhere, InX, InT, InB
  <2>2. m \in FrameItems  BY <1>4, <2>1, FramesFrom
  <2> QED BY <1>4, <2>1, <2>2, FrameIs DEF Ascending
<1>6. m.id # collated + 1  BY <1>5, <1>0, Bounds DEF InputRanges
<1>7. \/ reference' = reference
      \/ \E isReference \in BOOLEAN : reference' = [reference EXCEPT ![collated + 1] = isReference]
  <2>1. CASE Onward
    <3>1. UNCHANGED <<collated, reference>> \/ \E isReference \in BOOLEAN : Collate(isReference)
      BY <2>1, <1>0, Moved, RingOfCollation
    <3>2. \A isReference \in BOOLEAN : Collate(isReference) =>
            reference' = [reference EXCEPT ![collated + 1] = isReference]
      BY DEF Collate
    <3> QED BY <3>1, <3>2
  <2>2. CASE CtoPMarker \/ CtoPFrame  BY <2>2 DEF CtoPMarker, CtoPFrame, input
  <2> QED BY <2>1, <2>2 DEF Moves
<1>8. reference'[m.id] = reference[m.id]  BY <1>5, <1>6, <1>7, <1>0 DEF InputRanges
<1> QED BY <1>1, <1>4, <1>8 DEF Before, InX, InT, InB

\* What is left when DecodeToManifest passes the marker on.
LEMMA FlushedAtMarker ==
  ASSUME TypeInv, Chain, Coming, Ascending, OneMarker, JumpAhead, Kept, DtoMMarker,
         ~Entering, ~MarkerIn(InC)
  PROVE  /\ drain.discard => Before(DrainSequenceNumber) = {}
         /\ Before(DrainSequenceNumber) \subseteq InT \cup InB
         /\ \A m, o \in Before(DrainSequenceNumber) : m = o /\ reference[m.id]
<1> DEFINE mark == MarkerFrameBuffer
<1>0. Typed /\ ParseRanges /\ DrainSequenceNumber \in Nat /\ DrainRanges
  BY DEF TypeInv, Ranges, MessageRanges
<1>1. DtoMBuffer = Nothing /\ ~Selectable /\ IsMarker(mark)  BY DEF DtoMMarker
<1>2. mark \in InF /\ mark.Value = DrainSequenceNumber /\ ~IsControl(mark)
  <2>1. mark \in MarkerItems  BY <1>0, <1>1, HeadsAre
  <2>2. mark \in InF /\ ~IsControl(mark)  BY <2>1, MarkerIs DEF InF, InHand
  <2> QED BY <1>1, <2>2 DEF OneMarker, Everywhere
<1>3. ASSUME NEW m \in Before(DrainSequenceNumber)
      PROVE  /\ m \in InT /\ IsFrame(m) /\ m.id = parser.deferred /\ reference[m.id] /\ ~HasIndex(m.id)
             /\ m \in FrameItems /\ ~Passed(m)
  <2>1. m \in Undelivered /\ m.Value < DrainSequenceNumber  BY DEF Before
  <2>2. IsFrame(m) /\ m \in InD \cup InK \cup InH \cup InP \cup InT \cup InB
    BY <1>0, <2>1, UndeliveredIs DEF LeftByStage
  <2>3. m.Value \in Nat /\ ~(DrainSequenceNumber < m.Value)
    <3>1. m.Value \in Nat  BY <1>0, <2>2, Numbers DEF Everywhere, InX, InT, InB
    <3> QED BY <3>1, <2>1, <1>0
  <2>4. m \notin InD \cup InK \cup InH \cup InP
    <3>1. ~IsControl(m)  BY <2>2 DEF IsFrame, IsControl, BeforeCalls, AfterCalls
    <3> QED BY <1>2, <2>3, <3>1 DEF Chain, ChainLess, Less
  <2>5. m \notin InB  BY <1>1 DEF InB, InHand
  <2>6. m \in InT /\ m \in FrameItems  BY <1>0, <2>2, <2>4, <2>5 DEF InT, Typed
  <2>7. ~HasIndex(m.id)  BY <1>1, <2>6 DEF Selectable, Known, InT, HasIndex
  <2>8. m \in Everywhere  BY <2>6 DEF Everywhere, InX, InT
  <2>9. m.id = parser.deferred  BY <2>2, <2>7, <2>8 DEF Ascending
  <2>10. m.id # None  BY <2>6, FrameId DEF None
  <2>11. reference[m.id]  BY <2>9, <2>10 DEF Ascending
  <2> QED BY <2>2, <2>3, <2>6, <2>7, <2>9, <2>11 DEF Passed
<1>4. ASSUME drain.discard PROVE Before(DrainSequenceNumber) = {}
  <2>1. drain.n > 0 /\ drain.pc # "jump"
    <3>1. drain.n # 0 /\ drain.pc # "jump"  BY DEF Entering
    <3>2. drain.n \in 0 .. MaxDrains  BY <1>0 DEF DrainRanges
    <3> QED BY <3>1, <3>2, Bounds
  <2>2. ASSUME NEW j \in InC PROVE ~IsJump(j)
    <3>1. PICK i \in DOMAIN CollatedFrameRing : j = CollatedFrameRing[i]  BY DEF InC, ToSet
    <3>2. ASSUME NEW k \in DOMAIN CollatedFrameRing PROVE ~IsMarker(CollatedFrameRing[k])
      BY DEF MarkerIn, InC, ToSet
    <3> QED BY <3>1, <3>2 DEF JumpAhead
  <2>3. \A m \in InT : IsFrame(m) => HasIndex(m.id) \/ Passed(m)
    BY <1>4, <2>1, <2>2 DEF Kept, Jumped, InT
  <2> QED BY <1>3, <2>3
<1>5. ASSUME NEW m \in Before(DrainSequenceNumber), NEW o \in Before(DrainSequenceNumber)
      PROVE  m = o
  <2>1. m \in Everywhere /\ o \in Everywhere  BY <1>3 DEF Everywhere, InX, InT
  <2> QED BY <1>3, <2>1 DEF Ascending
<1> QED BY <1>3, <1>4, <1>5

\* What is left behind the marker gets no more.
LEMMA FlushedStep ==
  ASSUME TypeInv, TypeInv', Chain, Chain', Unswitched, Coming, Ascending, OneMarker, Discarding,
         JumpAhead, Kept, Flushed, Moves
  PROVE  Flushed'
<1> SUFFICES ASSUME ~Entering', ~MarkerIn(Upstream)'
             PROVE  /\ drain'.discard => Before(DrainSequenceNumber)' = {}
                    /\ Before(DrainSequenceNumber)' \subseteq InT' \cup InB'
                    /\ \A m, o \in Before(DrainSequenceNumber)' : m = o /\ reference'[m.id]
  BY DEF Flushed, InT, InB
<1>0. Typed /\ MessageRanges /\ DrainSequenceNumber \in Nat /\ NextBufferSequenceNumber \in Nat
      /\ InputRanges
  BY DEF TypeInv, Ranges, MessageRanges
<1>1. \A m \in Upstream' : ~IsMarker(m)  BY DEF MarkerIn
<1>2. ~DrainInsert
  <2>1. ASSUME DrainInsert PROVE FALSE
    <3>1. PICK e : InC' = InC \cup {e} /\ IsMarker(e)  BY <2>1, CollationAdds
    <3> QED BY <3>1, <1>1 DEF Upstream
  <2> QED BY <2>1
<1>3. ~Entering /\ ~Begins /\ DrainSequenceNumber' = DrainSequenceNumber /\ drain'.discard = drain.discard
  BY <1>2, EnteringIs
<1>4. ~MarkerIn(InC)
  <2>1. CASE CtoPMarker
    <3>1. IsMarker(Head(CollatedFrameRing)) /\ InP' = InP \cup {Head(CollatedFrameRing)}
      BY <2>1, MarkerReceived
    <3> QED BY <3>1, <1>1 DEF Upstream
  <2>2. CASE ~CtoPMarker
    <3>1. MarkerIn(InC) => MarkerIn(InC')  BY <1>3, <2>2, MarkerStays
    <3> QED BY <3>1, <1>1 DEF Upstream, MarkerIn
  <2> QED BY <2>1, <2>2
<1>5. DrainSequenceNumber < NextBufferSequenceNumber  BY <1>3, <1>4 DEF OneMarker
<1>6. /\ drain.discard => Before(DrainSequenceNumber) = {}
      /\ Before(DrainSequenceNumber) \subseteq InT \cup InB
      /\ \A m, o \in Before(DrainSequenceNumber) : m = o /\ reference[m.id]
  <2>1. CASE MarkerIn(Upstream)
    <3>1. ~MarkerIn(Upstream')  BY <1>1 DEF MarkerIn
    <3>2. DtoMMarker  BY <1>3, <2>1, <3>1, MarkerStays
    <3> QED BY <3>2, <1>3, <1>4, FlushedAtMarker
  <2>2. CASE ~MarkerIn(Upstream)  BY <2>2, <1>3 DEF Flushed, InT, InB
  <2> QED BY <2>1, <2>2
<1>7. PICK d \in Nat : d = DrainSequenceNumber /\ d = DrainSequenceNumber'  BY <1>0, <1>3
<1>8. Before(DrainSequenceNumber) = Before(d) /\ Before(DrainSequenceNumber)' = Before(d)'
  BY <1>7 DEF Before
<1>9. d <= NextBufferSequenceNumber  BY <1>0, <1>5, <1>7
<1>10. ASSUME NEW m \in Before(d)'
       PROVE  m \in Before(d) /\ m \in InT' \cup InB' /\ reference'[m.id] = reference[m.id]
  <2>1. m \in Before(d) /\ (m \in InT \cup InB => m \in InT' \cup InB')
        /\ reference'[m.id] = reference[m.id]
    BY <1>9, BeforeStays
  <2> QED BY <2>1, <1>6, <1>8
<1> QED BY <1>3, <1>6, <1>8, <1>10

-----------------------------------------------------------------------------
\* Before the first drain none was begun too early.
FirstAlone == drain.n = 0 => drain.alone
AloneIInv  == FirstAlone /\ AloneInv

\* The invariant of the drains holds of the initial states.
LEMMA AloneInit == Init => AloneIInv
<1> SUFFICES ASSUME Init PROVE FirstAlone /\ Sound  BY DEF AloneIInv, AloneInv
<1>1. /\ drain.n = 0 /\ drain.alone /\ ~drain.switch /\ drain.pc = "idle"
      /\ switch.halted = {} /\ Drained = FALSE /\ parser.deferred = None
      /\ SeenLast = 0 /\ \A p \in Processes : Accumulated[p] = {}
      /\ \A p \in {"CtoP", "PtoD", "DtoM"} : DiscardingUntilMarkerFrame[p] = FALSE
  BY DEF Init, ParserReset, SeenLast, Processes
<1>2. InC = {} /\ InP = {} /\ InR = {} /\ Everywhere = {}
  BY DEF Init, InC, InR, Everywhere, InX, InF, InD, InK, InH, InP, InHand, ToSet
<1>3. CollatedFrameRing = <<>> /\ ManifestedBufferRing = <<>>  BY DEF Init
<1>4. Chain /\ Coming  BY ChainInit
<1>5. Unswitched /\ SeenBelow /\ MarkerAbove /\ Ascending
  BY <1>1, <1>2, <1>3 DEF Unswitched, SeenBelow, MarkerAbove, Ascending, Processes
<1>6. OneMarker /\ Discarding /\ JumpAhead /\ Kept /\ Flushed
  BY <1>1, <1>2, <1>3 DEF OneMarker, Discarding, JumpAhead, Kept, Flushed, Calls, Entering, Processes
<1> QED BY <1>1, <1>4, <1>5, <1>6 DEF FirstAlone, Sound

\* A drain is alone from its beginning or not at all.
LEMMA AloneIs ==
  ASSUME DrainRanges, [Next]_vars
  PROVE  \/ drain'.n = drain.n /\ drain'.alone = drain.alone
         \/ /\ \E policy \in Policies : DrainBegin(policy)
            /\ drain'.n > 0 /\ drain'.alone = (drain.n = 0 \/ (drain.alone /\ Drained))
<1> USE DrainRecordIs
<1>1. CASE UNCHANGED vars  BY <1>1 DEF vars, drn
<1>2. CASE \E isReference \in BOOLEAN : Collate(isReference)  BY <1>2 DEF Collate, drn
<1>3. CASE \E policy \in Policies : DrainBegin(policy)  BY <1>3
<1>4. CASE CtoP \/ PtoD
  BY <1>4 DEF CtoP, PtoD, CtoPMarker, CtoPFrame, CtoPControl, CtoPSwitch, PtoDExtract, PtoDPass,
     PtoDDiscard, PtoDControl, PtoDSwitch, drn
<1>5. CASE CodecOutput \/ DtoMLoop \/ DtoMInHand
  BY <1>5 DEF CodecOutput, DtoMLoop, DtoMInHand, DtoMSelect, DtoMMarker, DtoMExtract, DtoMTimeout,
     DtoMManifest, DtoMDiscard, drn
<1>6. CASE Manifest \/ PostMExtract  BY <1>6 DEF Manifest, PostMExtract, drn
<1>7. CASE Drain
  BY <1>7 DEF Drain, DrainJump, DrainCodec, DrainRelease, DrainCheck, DrainNumber, DrainInsert,
     DrainCallBefore, DrainCallAfter, SwitchCollator, SwitchCalls, DrainReturn
<1>8. CASE DrainGiveUp
  <2>1. drain' = [drain EXCEPT !.pc = IF drain.switch THEN "collator" ELSE "idle", !.failed = TRUE]
    BY <1>8 DEF DrainGiveUp
  <2> QED BY <2>1 DEF DrainRanges
<1> QED BY <1>1, <1>2, <1>3, <1>4, <1>5, <1>6, <1>7, <1>8 DEF Next

\* A drain that is alone was so before the step, which is one of those above.
LEMMA AloneMoves ==
  ASSUME DrainsOnly, TypeInv, AloneIInv, [Next]_vars
  PROVE  FirstAlone' /\ (drain'.alone => drain.alone /\ Moves)
<1>0. DrainRanges  BY DEF TypeInv, Ranges
<1>1. FirstAlone' /\ (drain'.alone => drain.alone)
  <2>1. drain'.n > 0 => drain'.n # 0  OBVIOUS
  <2> QED BY <2>1, <1>0, AloneIs DEF AloneIInv, FirstAlone
<1>2. ASSUME drain'.alone PROVE Moves
  <2>1. CASE UNCHANGED vars  BY <2>1 DEF Moves, Onward
  <2>2. CASE Next
    <3>1. ASSUME NEW policy \in Policies, DrainBegin(policy), ~IsSwitch(policy) PROVE Begins
      <4>1. drain'.alone = (drain.n = 0 \/ (drain.alone /\ Drained))
        BY <3>1, <1>0, DrainRecordIs
      <4> QED BY <4>1, <3>1, <1>2 DEF Begins
    <3>2. \/ \E isReference \in BOOLEAN : Collate(isReference)
          \/ CtoPMarker \/ CtoPFrame \/ Downstream \/ Entry \/ DrainInsert \/ Rest
          \/ \E policy \in Policies : DrainBegin(policy) /\ ~IsSwitch(policy)
      <4>1. Unswitched /\ Coming /\ OneMarker  BY <1>1, <1>2 DEF AloneIInv, AloneInv, Sound
      <4> QED BY <4>1, <2>2, AloneNext
    <3> QED BY <3>1, <3>2 DEF Moves, Onward
  <2> QED BY <2>1, <2>2
<1> QED BY <1>1, <1>2

\* Every step keeps the invariant of the drains.
LEMMA AloneStep ==
  DrainsOnly =>
    (TypeInv /\ TypeInv' /\ AloneIInv /\ InsertedInTime /\ [Next]_vars => AloneIInv')
<1> SUFFICES ASSUME DrainsOnly, TypeInv, TypeInv', AloneIInv, InsertedInTime, [Next]_vars
             PROVE  FirstAlone' /\ (drain'.alone => Sound')
  BY DEF AloneIInv, AloneInv
<1>1. FirstAlone' /\ (drain'.alone => drain.alone /\ Moves)  BY AloneMoves
<1> SUFFICES ASSUME drain'.alone PROVE Sound'  BY <1>1
<1>2. drain.alone /\ Sound  BY <1>1 DEF AloneIInv, AloneInv
<1>3. /\ Chain /\ Coming /\ Unswitched /\ SeenBelow /\ MarkerAbove /\ Ascending /\ OneMarker
      /\ Discarding /\ JumpAhead /\ Kept /\ Flushed
  BY <1>2 DEF Sound
<1>4. Moves  BY <1>1
<1>5. Chain'  BY <1>3, ChainStep
<1>6. Coming'
  <2>1. MarkerInTime
    <3>1. drain.pc = "insert" => \A m \in InC : ~IsMarker(m)  BY <1>3 DEF OneMarker, Entering
    <3>2. drain.pc = "insert" => MarkerInCodedFrameIndex = None
      BY <3>1, <1>3 DEF Coming, InC, ToSet
    <3> QED BY <3>2, <1>2 DEF MarkerInTime, InsertedInTime
  <2> QED BY <2>1, <1>3, ComingStep
<1>7. StaysIndexed  BY ParseStep
<1>8. Unswitched'  BY <1>3, <1>4, UnswitchedStep
<1>9. SeenBelow'  BY <1>2, <1>3, <1>4, SeenBelowStep
<1>10. MarkerAbove'  BY <1>3, <1>4, MarkerAboveStep
<1>11. Ascending'  BY <1>3, <1>4, <1>7, AscendingStep
<1>12. OneMarker'  BY <1>3, <1>4, OneMarkerStep
<1>13. Discarding'  BY <1>3, <1>4, DiscardingStep
<1>14. JumpAhead'  BY <1>3, <1>4, JumpAheadStep
<1>15. Kept'  BY <1>3, <1>4, <1>7, <1>11, KeptStep
<1>16. Flushed'  BY <1>3, <1>4, <1>5, FlushedStep
<1> QED BY <1>5, <1>6, <1>8, <1>9, <1>10, <1>11, <1>12, <1>13, <1>14, <1>15, <1>16 DEF Sound

\* A drain that is done has its marker behind it.
LEMMA DoneIs ==
  ASSUME TypeInv, Sound, Completed
  PROVE  /\ ~Entering /\ DrainSequenceNumber <= SeenLast
         /\ \A m \in InC \cup Everywhere : ~IsMarker(m)
<1>1. ~Entering /\ DrainSequenceNumber <= SeenLast
  <2>1. drain.n \in 0 .. MaxDrains  BY DEF TypeInv, Ranges, DrainRanges
  <2>2. Drained /\ drain.pc \in {"wait", "idle"}  BY DEF Completed
  <2>3. drain.n > 0  BY <2>2 DEF Sound, OneMarker
  <2>4. ~Entering  BY <2>1, <2>2, <2>3, Bounds DEF Entering
  <2> QED BY <2>2, <2>4 DEF Sound, OneMarker
<1>2. ASSUME NEW m \in InC \cup Everywhere, IsMarker(m) PROVE FALSE
  <2>1. SeenLast < m.Value /\ m.Value = DrainSequenceNumber  BY <1>2 DEF Sound, SeenBelow, OneMarker
  <2>2. SeenLast \in Nat /\ DrainSequenceNumber \in Nat
    BY DEF TypeInv, Ranges, MessageRanges, SeenLast, Processes
  <2> QED BY <2>1, <2>2, <1>1
<1> QED BY <1>1, <1>2

\* A drain that has completed, begun when those before it were done, leaves
\* none of the three processes discarding: what is collated next is played.
THEOREM DrainsLeaveNobodyDiscarding ==
  DrainsOnly => (Spec /\ []InsertedInTime => []DiscardsEnd)
<1> SUFFICES ASSUME DrainsOnly PROVE Spec /\ []InsertedInTime => []DiscardsEnd  OBVIOUS
<1>1. Init => TypeInv /\ AloneIInv  BY TypeInit, AloneInit
<1>2. TypeInv /\ AloneIInv /\ InsertedInTime /\ [Next]_vars => (TypeInv /\ AloneIInv)'
  BY TypeStep, AloneStep
<1>3. TypeInv /\ AloneIInv => DiscardsEnd
  <2> SUFFICES ASSUME TypeInv, AloneIInv, Completed
               PROVE  \A p \in {"CtoP", "PtoD", "DtoM"} : ~DiscardingUntilMarkerFrame[p]
    BY DEF DiscardsEnd
  <2>1. Sound  BY DEF AloneIInv, AloneInv, Completed
  <2>2. ~Entering /\ \A m \in InC \cup Everywhere : ~IsMarker(m)  BY <2>1, DoneIs
  <2>3. ~MarkerIn(InC) /\ ~MarkerIn(InC \cup InP) /\ ~MarkerIn(Upstream)
    BY <2>2 DEF MarkerIn, Upstream, Everywhere
  <2> QED BY <2>1, <2>2, <2>3 DEF Sound, Discarding
<1> QED BY <1>1, <1>2, <1>3, PTL DEF Spec

\* When such a drain has completed its marker has been through all four
\* processes and no frame numbered before it is left, save the one reference
\* frame that a drain which plays out may leave in the table of the reordering
\* or in hand.
THEOREM DrainsFlush ==
  DrainsOnly => (Spec /\ []InsertedInTime => []DrainedMeansFlushed)
<1> SUFFICES ASSUME DrainsOnly PROVE Spec /\ []InsertedInTime => []DrainedMeansFlushed  OBVIOUS
<1>1. Init => TypeInv /\ AloneIInv  BY TypeInit, AloneInit
<1>2. TypeInv /\ AloneIInv /\ InsertedInTime /\ [Next]_vars => (TypeInv /\ AloneIInv)'
  BY TypeStep, AloneStep
<1>3. TypeInv /\ AloneIInv => DrainedMeansFlushed
  <2> SUFFICES ASSUME TypeInv, AloneIInv, Completed
               PROVE  /\ DrainedMeansPassed
                      /\ IF drain.discard THEN Before(DrainSequenceNumber) = {}
                                          ELSE LastReference(Before(DrainSequenceNumber))
    BY DEF DrainedMeansFlushed
  <2> DEFINE B == Before(DrainSequenceNumber)
  <2>1. Sound  BY DEF AloneIInv, AloneInv, Completed
  <2>2. ~Entering /\ DrainSequenceNumber <= SeenLast /\ \A m \in InC \cup Everywhere : ~IsMarker(m)
    BY <2>1, DoneIs
  <2>3. DrainedMeansPassed
    <3>1. SeenLast \in Nat /\ DrainSequenceNumber \in Nat
      BY DEF TypeInv, Ranges, MessageRanges, SeenLast, Processes
    <3>2. SeenLast >= DrainSequenceNumber  BY <3>1, <2>2
    <3> QED BY <3>2 DEF DrainedMeansPassed, SeenLast
  <2>4. ~MarkerIn(Upstream)  BY <2>2 DEF MarkerIn, Upstream, Everywhere
  <2>5. /\ drain.discard => B = {}
        /\ B \subseteq AccumulatedBufferTable \cup InHand(DtoMBuffer)
        /\ \A m, o \in B : m = o /\ reference[m.id]
    BY <2>1, <2>2, <2>4 DEF Sound, Flushed
  <2> HIDE DEF B
  <2>6. Cardinality(B) <= 1
    <3>1. CASE B = {}  BY <3>1, FS_EmptySet
    <3>2. ASSUME NEW m \in B PROVE Cardinality(B) <= 1
      <4>1. B = {m}  BY <2>5
      <4>2. Cardinality({m}) = 1  BY FS_Singleton
      <4> QED BY <4>1, <4>2
    <3> QED BY <3>1, <3>2
  <2>7. B \subseteq AccumulatedBufferTable \cup {DtoMBuffer}  BY <2>5 DEF InHand
  <2>8. LastReference(B)  BY <2>5, <2>6, <2>7 DEF LastReference
  <2> QED BY <2>3, <2>5, <2>8 DEF B
<1> QED BY <1>1, <1>2, <1>3, PTL DEF Spec

-----------------------------------------------------------------------------
(***************************************************************************)
(* When the work is short a marker is inserted in time.                    *)
(***************************************************************************)
\* The jump and the marker that the drain has still to put in.
StillToGo ==
  IF drain.pc = "jump" THEN 2
  ELSE IF drain.pc \in {"codec", "release", "check", "number", "insert"} THEN 1 ELSE 0

\* The ring of collation holds no more than was ever put in, and so much has
\* passed since the marker was numbered.
Short ==
  /\ collated + drain.n <= MaxWork
  /\ Len(CollatedFrameRing) + StillToGo <= collated + drain.n + drain.n
  /\ drain.pc = "insert" =>
       NextBufferSequenceNumber + Len(CollatedFrameRing) + RingSize + 1
         <= DrainSequenceNumber + collated + drain.n + drain.n
ShortInv == drain.alone => Short

\* Every step of drains that begin when those before were done keeps the count.
LEMMA ShortStep ==
  ASSUME TypeInv, Unswitched, Coming, OneMarker, Short, Moves
  PROVE  Short'
<1> DEFINE len == Len(CollatedFrameRing)
           n   == drain.n
<1>0. Typed /\ DrainRanges  BY DEF TypeInv, Ranges
<1>1. /\ len \in Nat /\ n \in Nat /\ collated \in Nat /\ NextBufferSequenceNumber \in Nat
      /\ DrainSequenceNumber \in Nat /\ RingSize \in Nat /\ MaxWork \in Nat
  <2>1. len \in Nat  BY <1>0 DEF Typed
  <2>2. n \in 0 .. MaxDrains  BY <1>0 DEF DrainRanges
  <2>3. collated \in 0 .. MaxFrames  BY DEF TypeInv, Ranges, InputRanges
  <2> HIDE DEF len, n
  <2>4. n \in Nat /\ collated \in Nat  BY <2>2, <2>3, Bounds
  <2> QED BY <2>1, <2>4, Bounds DEF TypeInv, Ranges, MessageRanges
<1>2. StillToGo \in 0 .. 2  BY DEF StillToGo
<1>3. \A e : CollatedFrameRing' = Append(CollatedFrameRing, e) => Len(CollatedFrameRing') = len + 1
  BY <1>0 DEF Typed
<1>4. CollatedFrameRing # <<>> /\ CollatedFrameRing' = Tail(CollatedFrameRing)
        => Len(CollatedFrameRing') = len - 1
  BY <1>0 DEF Typed
<1>5. /\ collated + n <= MaxWork /\ len + StillToGo <= collated + n + n
      /\ drain.pc = "insert" =>
           NextBufferSequenceNumber + len + RingSize + 1 <= DrainSequenceNumber + collated + n + n
  BY DEF Short
<1> HIDE DEF len
<1>6. CASE CtoPMarker
  <2>1. /\ CollatedFrameRing # <<>> /\ CollatedFrameRing' = Tail(CollatedFrameRing)
        /\ Head(CollatedFrameRing) \in InC /\ IsMarker(Head(CollatedFrameRing))
        /\ UNCHANGED <<collated, drain>>
    BY <1>6, MarkerReceived DEF Received
  <2>2. drain.pc # "insert" /\ UNCHANGED StillToGo  BY <2>1 DEF OneMarker, Entering, StillToGo
  <2>3. Len(CollatedFrameRing') = len - 1  BY <2>1, <1>4
  <2> QED BY <1>1, <1>2, <1>5, <2>1, <2>2, <2>3 DEF Short
<1>7. CASE CtoPFrame
  <2>1. /\ CollatedFrameRing # <<>> /\ CollatedFrameRing' = Tail(CollatedFrameRing)
        /\ UNCHANGED <<collated, drain, DrainSequenceNumber>>
        /\ NextBufferSequenceNumber' = NextBufferSequenceNumber + 1
    BY <1>7, FrameReceived DEF Received
  <2>2. UNCHANGED StillToGo  BY <2>1 DEF StillToGo
  <2>3. Len(CollatedFrameRing') = len - 1  BY <2>1, <1>4
  <2> QED BY <1>1, <1>2, <1>5, <2>1, <2>2, <2>3 DEF Short
<1>8. CASE \E isReference \in BOOLEAN : Collate(isReference)
  <2>1. PICK isReference \in BOOLEAN : Collate(isReference)  BY <1>8
  <2>2. /\ collated + n < MaxWork /\ collated' = collated + 1
        /\ UNCHANGED <<drain, DrainSequenceNumber, NextBufferSequenceNumber>>
        /\ CollatedFrameRing' = Append(CollatedFrameRing, Item("frame", collated', 0))
    BY <2>1 DEF Collate, drn
  <2>3. UNCHANGED StillToGo  BY <2>2 DEF StillToGo
  <2>4. Len(CollatedFrameRing') = len + 1  BY <2>2, <1>3
  <2>5. /\ collated + n < MaxWork /\ drain'.n = n /\ drain'.pc = drain.pc /\ collated' = collated + 1
        /\ StillToGo' = StillToGo /\ DrainSequenceNumber' = DrainSequenceNumber
        /\ NextBufferSequenceNumber' = NextBufferSequenceNumber
    BY <2>2, <2>3
  <2> HIDE DEF n
  <2>6. collated' + drain'.n <= MaxWork  BY <1>1, <2>5
  <2>7. Len(CollatedFrameRing') + StillToGo' <= collated' + drain'.n + drain'.n
    BY <1>1, <1>2, <1>5, <2>4, <2>5
  <2>8. drain'.pc = "insert" =>
          NextBufferSequenceNumber' + Len(CollatedFrameRing') + RingSize + 1
            <= DrainSequenceNumber' + collated' + drain'.n + drain'.n
    BY <1>1, <1>5, <2>4, <2>5
  <2> QED BY <2>6, <2>7, <2>8 DEF Short
<1>9. CASE Begins
  <2>1. PICK policy \in Policies : DrainBegin(policy)  BY <1>9 DEF Begins
  <2>2. /\ collated + n < MaxWork /\ UNCHANGED <<collated, CollatedFrameRing>>
        /\ drain.pc = "idle" /\ drain'.n = n + 1 /\ drain'.pc \in {"check", "jump"}
    BY <2>1, <1>0, DrainRecordIs DEF DrainBegin, rings, input
  <2>3. StillToGo = 0 /\ StillToGo' <= 2 /\ StillToGo' \in Nat  BY <2>2 DEF StillToGo
  <2>4. Len(CollatedFrameRing') = len  BY <2>2 DEF len
  <2> QED BY <1>1, <1>5, <2>2, <2>3, <2>4 DEF Short
<1>10. CASE DrainJump
  <2>1. /\ drain.pc = "jump" /\ drain'.pc = "codec" /\ drain'.n = n /\ UNCHANGED collated
        /\ CollatedFrameRing' = Append(CollatedFrameRing, Item("jump", None, 0))
    BY <1>10, <1>0, DrainRecordIs DEF DrainJump, At, input
  <2>2. StillToGo = 2 /\ StillToGo' = 1  BY <2>1 DEF StillToGo
  <2>3. Len(CollatedFrameRing') = len + 1  BY <2>1, <1>3
  <2> QED BY <1>1, <1>5, <2>1, <2>2, <2>3 DEF Short
<1>11. CASE DrainInsert
  <2>1. /\ drain.pc = "insert" /\ drain'.pc = "before" /\ drain'.n = n /\ UNCHANGED collated
        /\ CollatedFrameRing' =
             Append(CollatedFrameRing, Item("marker", drain.n, DrainSequenceNumber))
    BY <1>11, <1>0, DrainRecordIs DEF DrainInsert, At, input
  <2>2. StillToGo = 1 /\ StillToGo' = 0  BY <2>1 DEF StillToGo
  <2>3. Len(CollatedFrameRing') = len + 1  BY <2>1, <1>3
  <2> QED BY <1>1, <1>5, <2>1, <2>2, <2>3 DEF Short
<1>12. CASE DrainNumber
  <2>1. /\ drain.pc = "number" /\ drain'.pc = "insert" /\ drain'.n = n
        /\ UNCHANGED <<collated, CollatedFrameRing, NextBufferSequenceNumber>>
        /\ DrainSequenceNumber' = NextBufferSequenceNumber + RingSize
    BY <1>12, <1>0, DrainRecordIs DEF DrainNumber, At, input, rings, MarkerNumber
  <2>2. StillToGo = 1 /\ StillToGo' = 1  BY <2>1 DEF StillToGo
  <2>3. Len(CollatedFrameRing') = len  BY <2>1 DEF len
  <2> QED BY <1>1, <1>5, <2>1, <2>2, <2>3 DEF Short
<1>13. CASE DrainCodec \/ DrainRelease \/ DrainCheck
  <2>1. /\ drain.pc \in {"codec", "release", "check"} /\ drain'.pc \in {"release", "check", "number"}
        /\ drain'.n = n /\ UNCHANGED <<collated, CollatedFrameRing>>
    BY <1>13, <1>0, DrainRecordIs DEF DrainCodec, DrainRelease, DrainCheck, At, input, rings
  <2>2. StillToGo = 1 /\ StillToGo' = 1  BY <2>1 DEF StillToGo
  <2>3. Len(CollatedFrameRing') = len  BY <2>1 DEF len
  <2> QED BY <1>1, <1>5, <2>1, <2>2, <2>3 DEF Short
<1>14. CASE Rest
  <2>1. /\ drain'.pc \in {"after", "collator", "wait", "idle"} /\ drain'.n = n
    BY <1>14, <1>0, DrainMoves
  <2>2. UNCHANGED <<collated, CollatedFrameRing>>
    BY <1>14 DEF Rest, DrainCallBefore, DrainCallAfter, DrainReturn, input, rings
  <2>3. StillToGo' = 0  BY <2>1 DEF StillToGo
  <2>4. Len(CollatedFrameRing') = len  BY <2>2 DEF len
  <2> QED BY <1>1, <1>2, <1>5, <2>1, <2>2, <2>3, <2>4 DEF Short
<1>15. CASE UNCHANGED vars \/ Downstream
  <2>1. UNCHANGED <<collated, CollatedFrameRing, NextBufferSequenceNumber, DrainSequenceNumber, drain>>
    BY <1>15 DEF vars, Downstream, PtoDExtract, PtoDPass, PtoDDiscard, CodecOutput, DtoMSelect,
       DtoMMarker, DtoMExtract, DtoMTimeout, DtoMManifest, DtoMDiscard, Manifest, PostMExtract,
       rings, input, drn
  <2>2. UNCHANGED StillToGo  BY <2>1 DEF StillToGo
  <2> QED BY <2>1, <2>2 DEF Short
<1> QED BY <1>6, <1>7, <1>8, <1>9, <1>10, <1>11, <1>12, <1>13, <1>14, <1>15 DEF Moves, Onward, Entry

\* When the stream is given so few frames and drains that all of them fit into
\* a ring, every marker is inserted before the numbers up to its own are used
\* up.
THEOREM ShortWorkIsInTime ==
  DrainsOnly /\ MaxWork + MaxDrains <= RingSize + 1 => (Spec => []InsertedInTime)
<1> SUFFICES ASSUME DrainsOnly, MaxWork + MaxDrains <= RingSize + 1
             PROVE  Spec => []InsertedInTime
  OBVIOUS
<1>1. Init => TypeInv /\ AloneIInv /\ ShortInv
  <2> SUFFICES ASSUME Init PROVE Short  BY TypeInit, AloneInit DEF ShortInv
  <2>1. collated = 0 /\ drain.n = 0 /\ drain.pc = "idle" /\ Len(CollatedFrameRing) = 0
    BY DEF Init
  <2> QED BY <2>1, Bounds DEF Short, StillToGo
<1>2. TypeInv /\ ShortInv => InsertedInTime
  <2> SUFFICES ASSUME TypeInv, Short, drain.pc = "insert"
               PROVE  NextBufferSequenceNumber + Len(CollatedFrameRing) <= DrainSequenceNumber
    BY DEF InsertedInTime, ShortInv
  <2>1. drain.n \in 0 .. MaxDrains  BY DEF TypeInv, Ranges, DrainRanges
  <2>2. collated \in 0 .. MaxFrames  BY DEF TypeInv, Ranges, InputRanges
  <2>3. Len(CollatedFrameRing) \in Nat  BY DEF TypeInv, Typed
  <2>4. NextBufferSequenceNumber \in Nat /\ DrainSequenceNumber \in Nat
    BY DEF TypeInv, Ranges, MessageRanges
  <2>5. /\ collated + drain.n <= MaxWork
        /\ NextBufferSequenceNumber + Len(CollatedFrameRing) + RingSize + 1
             <= DrainSequenceNumber + collated + drain.n + drain.n
    BY DEF Short
  <2> QED BY <2>1, <2>2, <2>3, <2>4, <2>5, Bounds
<1>3. TypeInv /\ AloneIInv /\ ShortInv /\ [Next]_vars => (TypeInv /\ AloneIInv /\ ShortInv)'
  <2> SUFFICES ASSUME TypeInv, AloneIInv, ShortInv, [Next]_vars
               PROVE  TypeInv' /\ AloneIInv' /\ (drain'.alone => Short')
    BY DEF ShortInv
  <2>1. TypeInv'  BY TypeStep
  <2>2. AloneIInv'  BY <2>1, <1>2, AloneStep
  <2>3. ASSUME drain'.alone PROVE Short'
    <3>1. drain.alone /\ Moves  BY <2>3, AloneMoves
    <3>2. Unswitched /\ Coming /\ OneMarker /\ Short
      BY <3>1 DEF AloneIInv, AloneInv, Sound, ShortInv
    <3> QED BY <3>1, <3>2, ShortStep
  <2> QED BY <2>1, <2>2, <2>3
<1> QED BY <1>1, <1>2, <1>3, PTL DEF Spec

-----------------------------------------------------------------------------
(***************************************************************************)
(* The reset of the time mapping, in sequence with what the drains take    *)
(* through DecodeToManifest.                                               *)
(***************************************************************************)
SeenTaken == MaximumActualSequenceNumberSeen["DtoM"]

\* What DecodeToManifest has taken is below every marker that has not reached it.
TakenBelow ==
  /\ SeenTaken = 0 \/ SeenTaken < NextBufferSequenceNumber
  /\ \A m \in Upstream : IsMarker(m) => SeenTaken < m.Value

\* The resets that are on their way to DecodeToManifest, or held by it.
IsReset(m) == m.kind = "ResetTimeMapping"
Resets == {m \in InD \cup Accumulated["DtoM"] : IsReset(m)}

\* Of the frames below v at most one is left, a reference frame in the table of
\* the reordering or in hand.
OneLeft(v) ==
  /\ v = 0 \/ v < NextBufferSequenceNumber
  /\ Before(v) \subseteq InT \cup InB
  /\ \A m, o \in Before(v) : m = o /\ reference[m.id]

\* A reset is behind the frames it is to follow, or belongs to the last drain.
ResetsBehind ==
  /\ OneLeft(mappingReset)
  /\ \A m \in Resets : OneLeft(m.Value) \/ (~Entering /\ m.Value = DrainSequenceNumber)

\* For drains begun when those before were done.
ResetInv == drain.alone => TakenBelow /\ ResetsBehind

\* Markers that have not reached DecodeToManifest were on their way, or are put in.
LEMMA UpstreamFrom ==
  ASSUME TypeInv, Unswitched, Coming, Moves
  PROVE  \A m \in Upstream' : IsMarker(m) =>
           \/ m \in Upstream
           \/ DrainInsert /\ m.Value = DrainSequenceNumber
<1>0. Typed /\ ParseRanges  BY DEF TypeInv, Ranges
<1>1. CASE CtoPMarker
  <2>1. Received /\ InP' = InP \cup {Head(CollatedFrameRing)} /\ Head(CollatedFrameRing) \in InC
    BY <1>1, MarkerReceived
  <2> QED BY <2>1 DEF Received, Upstream
<1>2. CASE CtoPFrame
  <2>1. PICK m : Received /\ (InP' = InP \/ (InP' = InP \cup {m} /\ m \in FrameItems))
    BY <1>2, FrameReceived
  <2>2. InP' = InP => Upstream' \subseteq Upstream  BY <2>1 DEF Received, Upstream
  <2>3. Upstream' \subseteq Upstream \cup {m}  BY <2>1 DEF Received, Upstream
  <2> QED BY <2>1, <2>2, <2>3, FrameIs
<1>3. CASE Onward
  <2>1. \A m \in Upstream' : IsMarker(m) => m \in Upstream \/ m \in InC'
    BY <1>0, <1>3, Moved, FlowIs DEF IsBuffer
  <2>2. \A m \in InC' : IsMarker(m) =>
           \/ m \in InC
           \/ DrainInsert /\ m.Value = DrainSequenceNumber
    <3>1. CASE InC' = InC  BY <3>1
    <3>2. CASE (\E isReference \in BOOLEAN : Collate(isReference)) \/ DrainJump \/ DrainInsert
      BY <3>2, CollationAdds
    <3> QED BY <1>0, <1>3, <3>1, <3>2, Moved, RingOfCollation
  <2> QED BY <2>1, <2>2 DEF Upstream
<1> QED BY <1>1, <1>2, <1>3 DEF Moves

\* DecodeToManifest takes a buffer or a call: resets are made that are due.
LEMMA CallsTaken ==
  ASSUME TypeInv, DtoMSelect \/ DtoMMarker \/ DtoMExtract
  PROVE  /\ SeenTaken \in Nat /\ SeenTaken' \in Nat /\ SeenTaken <= SeenTaken'
         /\ Resets' \subseteq Resets
         /\ \/ mappingReset' = mappingReset
            \/ \E c \in Resets : mappingReset' = c.Value /\ c.Value <= SeenTaken'
<1> DEFINE Held == Accumulated["DtoM"]
<1>0. /\ Typed /\ CallsTyped /\ ParseRanges /\ mappingReset \in Nat
      /\ MaximumActualSequenceNumberSeen \in [Processes -> Nat]
      /\ "DtoM" \in Processes /\ DOMAIN Accumulated = Processes
      /\ SeenTaken \in Nat /\ AccumulatedBufferTable \subseteq FrameItems
  BY DEF TypeInv, Ranges, MessageRanges, CallsTyped, SeenTaken, Processes, Typed
<1>1. \A c \in Held : c.Value \in Nat
  <2>1. Held \in SUBSET Others(CallsOf("DtoM"))  BY <1>0 DEF CallsTyped
  <2> QED BY <2>1 DEF Others
<1>2. ASSUME NEW v \in Nat, See("DtoM", v)
      PROVE  SeenTaken' \in Nat /\ SeenTaken <= SeenTaken' /\ v <= SeenTaken'
  <2>1. SeenTaken' = IF SeenTaken >= v THEN SeenTaken ELSE v
    BY <1>0, <1>2, SeeIs DEF SeenTaken
  <2> QED BY <2>1, <1>0, <1>2
<1>3. ASSUME NEW n \in Nat, NEW calls, NEW v \in Nat, See("DtoM", v), n <= v,
             Accumulated' = [Accumulated EXCEPT !["DtoM"] = @ \ Due("DtoM", n, calls)],
             mappingReset' = Max({mappingReset} \cup ResetTimes(Due("DtoM", n, calls))),
             InD' \subseteq InD
      PROVE  /\ SeenTaken' \in Nat /\ SeenTaken <= SeenTaken'
             /\ Resets' \subseteq Resets
             /\ \/ mappingReset' = mappingReset
                \/ \E c \in Resets : mappingReset' = c.Value /\ c.Value <= SeenTaken'
  <2> DEFINE due == Due("DtoM", n, calls)
  <2>1. due \subseteq Held /\ \A c \in due : c.Value <= n  BY DEF Due
  <2>2. Accumulated'["DtoM"] \subseteq Held  BY <1>0, <1>3
  <2>3. Resets' \subseteq Resets  BY <2>2, <1>3 DEF Resets, IsReset
  <2>4. SeenTaken' \in Nat /\ SeenTaken <= SeenTaken' /\ v <= SeenTaken'  BY <1>2, <1>3
  <2> HIDE DEF due
  <2>5. \/ mappingReset' = mappingReset
        \/ \E c \in due : c.kind = "ResetTimeMapping" /\ mappingReset' = c.Value
    <3>1. mappingReset' = Max({mappingReset} \cup ResetTimes(due))  BY <1>3 DEF due
    <3>2. \A c \in due : c.Value \in Nat  BY <2>1, <1>1
    <3> QED BY <3>1, <3>2, <2>1, <1>0, <1>3, ResetIs
  <2>6. ASSUME NEW c \in due, c.kind = "ResetTimeMapping"
        PROVE  c \in Resets /\ c.Value <= SeenTaken'
    <3>1. c \in Held /\ c.Value <= n  BY <2>1
    <3>2. c.Value <= SeenTaken'
      <4>1. c.Value \in Nat  BY <3>1, <1>1
      <4> QED BY <4>1, <3>1, <2>4, <1>3
    <3> QED BY <3>1, <3>2, <2>6 DEF Resets, IsReset
  <2> QED BY <2>3, <2>4, <2>5, <2>6
<1>4. ASSUME NEW m \in FrameItems, NEW d, TakeFrame(m, d), InD' \subseteq InD
      PROVE  /\ SeenTaken' \in Nat /\ SeenTaken <= SeenTaken'
             /\ Resets' \subseteq Resets
             /\ \/ mappingReset' = mappingReset
                \/ \E c \in Resets : mappingReset' = c.Value /\ c.Value <= SeenTaken'
  <2>1. m.Value \in Nat  BY FrameIs
  <2>2. Number(m) \in Nat /\ Number(m) <= m.Value  BY <1>0, <2>1, NumberIs
  <2>3. /\ See("DtoM", m.Value)
        /\ Accumulated' = [Accumulated EXCEPT !["DtoM"] = @ \ Due("DtoM", Number(m), BeforeCalls)]
        /\ mappingReset' = Max({mappingReset} \cup ResetTimes(Due("DtoM", Number(m), BeforeCalls)))
    BY <1>4 DEF TakeFrame
  <2> QED BY <2>1, <2>2, <2>3, <1>3, <1>4
<1>5. CASE DtoMSelect
  <2>1. TakeFrame(Lowest, DesiredFrameIndex) /\ Selectable /\ UNCHANGED DecodedFrameRing
    BY <1>5 DEF DtoMSelect, rings
  <2>2. Lowest \in FrameItems  BY <2>1, <1>0, SelectedIs
  <2>3. InD' \subseteq InD  BY <2>1 DEF InD, ToSet
  <2> QED BY <2>1, <2>2, <2>3, <1>0, <1>4
<1>6. CASE DtoMMarker
  <2> DEFINE v == MarkerFrameBuffer.Value
  <2>1. /\ IsMarker(MarkerFrameBuffer) /\ See("DtoM", v)
        /\ Accumulated' = [Accumulated EXCEPT !["DtoM"] = @ \ Due("DtoM", v, BeforeCalls \cup AfterCalls)]
        /\ mappingReset' = Max({mappingReset} \cup ResetTimes(Due("DtoM", v, BeforeCalls \cup AfterCalls)))
        /\ UNCHANGED DecodedFrameRing
    BY <1>6 DEF DtoMMarker
  <2>2. v \in Nat  BY <2>1, <1>0, HeadsAre
  <2>3. InD' \subseteq InD  BY <2>1 DEF InD, ToSet
  <2>4. v <= v  BY <2>2
  <2> HIDE DEF v
  <2> QED BY <2>1, <2>2, <2>3, <2>4, <1>0, <1>3
<1>7. CASE DtoMExtract
  <2> DEFINE m == Head(DecodedFrameRing)
             d == SkipNonDecoded.desired
  <2>1. /\ DecodedFrameRing # <<>> /\ DecodedFrameRing' = Tail(DecodedFrameRing)
        /\ \/ /\ IsControl(m) /\ Reached("DtoM", m.Value)
              /\ mappingReset' = Max({mappingReset} \cup ResetTimes({m}))
              /\ UNCHANGED <<Accumulated, MaximumActualSequenceNumberSeen>>
           \/ /\ Accumulate("DtoM", m)
              /\ UNCHANGED <<mappingReset, MaximumActualSequenceNumberSeen>>
           \/ UNCHANGED <<Accumulated, mappingReset, MaximumActualSequenceNumberSeen>>
           \/ IsFrame(m) /\ TakeFrame(m, d)
    BY <1>7 DEF DtoMExtract, msgs
  <2>2. m \in DecodedItems /\ m.Value \in Nat  BY <2>1, <1>0, HeadsAre
  <2>3. m \in InD /\ InD' \subseteq InD  BY <2>1, <1>0, TailIs DEF InD, Typed
  <2> HIDE DEF m, d
  <2>4. CASE /\ IsControl(m) /\ Reached("DtoM", m.Value)
             /\ mappingReset' = Max({mappingReset} \cup ResetTimes({m}))
             /\ UNCHANGED <<Accumulated, MaximumActualSequenceNumberSeen>>
    <3>1. SeenTaken' = SeenTaken /\ m.Value <= SeenTaken'  BY <2>4 DEF Reached, SeenTaken
    <3>2. Resets' \subseteq Resets  BY <2>3, <2>4 DEF Resets, IsReset
    <3>3. mappingReset' = mappingReset \/ (m.kind = "ResetTimeMapping" /\ mappingReset' = m.Value)
      <4>1. \A o \in {m} : o.Value \in Nat /\ o.Value <= m.Value  BY <2>2
      <4>2. \/ mappingReset' = mappingReset
            \/ \E o \in {m} : o.kind = "ResetTimeMapping" /\ mappingReset' = o.Value
        BY <4>1, <2>2, <2>4, <1>0, ResetIs
      <4> QED BY <4>2
    <3>4. m.kind = "ResetTimeMapping" => m \in Resets  BY <2>3 DEF Resets, IsReset
    <3>5. SeenTaken' \in Nat /\ SeenTaken <= SeenTaken'  BY <3>1, <1>0
    <3> QED BY <3>1, <3>2, <3>3, <3>4, <3>5, <1>0
  <2>5. CASE /\ Accumulate("DtoM", m)
             /\ UNCHANGED <<mappingReset, MaximumActualSequenceNumberSeen>>
    <3>1. Accumulated'["DtoM"] \subseteq Held \cup {m}  BY <2>5, <1>0 DEF Accumulate
    <3>2. Resets' \subseteq Resets  BY <2>3, <3>1 DEF Resets, IsReset
    <3>3. SeenTaken' = SeenTaken /\ mappingReset' = mappingReset  BY <2>5 DEF SeenTaken
    <3>4. SeenTaken' \in Nat /\ SeenTaken <= SeenTaken'  BY <3>3, <1>0
    <3> QED BY <3>2, <3>3, <3>4, <1>0
  <2>6. CASE UNCHANGED <<Accumulated, mappingReset, MaximumActualSequenceNumberSeen>>
    <3>1. Resets' \subseteq Resets  BY <2>3, <2>6 DEF Resets, IsReset
    <3>2. SeenTaken' = SeenTaken /\ mappingReset' = mappingReset  BY <2>6 DEF SeenTaken
    <3>3. SeenTaken' \in Nat /\ SeenTaken <= SeenTaken'  BY <3>2, <1>0
    <3> QED BY <3>1, <3>2, <3>3, <1>0
  <2>7. CASE IsFrame(m) /\ TakeFrame(m, d)
    <3>1. m \in FrameItems  BY <2>2, <2>7, DecodedIs
    <3> QED BY <3>1, <2>3, <2>7, <1>0, <1>4
  <2> QED BY <2>1, <2>4, <2>5, <2>6, <2>7
<1> QED BY <1>5, <1>6, <1>7

\* No other step lets DecodeToManifest see a number, or resets the mapping.
LEMMA CallsStay ==
  ASSUME TypeInv, Unswitched, Coming, Moves, ~DtoMSelect, ~DtoMMarker, ~DtoMExtract
  PROVE  /\ SeenTaken' = SeenTaken /\ mappingReset' = mappingReset
         /\ Accumulated'["DtoM"] \subseteq Accumulated["DtoM"]
<1>0. /\ Typed /\ CallsTyped /\ MaximumActualSequenceNumberSeen \in [Processes -> Nat]
      /\ NextBufferSequenceNumber \in Nat /\ DOMAIN Accumulated = Processes
      /\ "DtoM" \in Processes \ {"CtoP"} /\ "DtoM" \in Processes \ {"PtoD"} /\ "DtoM" \in Processes \ {"PostM"}
      /\ "CtoP" \in Processes /\ "PtoD" \in Processes /\ "PostM" \in Processes
  BY DEF TypeInv, Ranges, MessageRanges, CallsTyped, Processes
<1>1. ASSUME NEW p \in {"CtoP", "PtoD", "PostM"}, NEW v \in Nat, See(p, v)
      PROVE  SeenTaken' = SeenTaken
  BY <1>0, <1>1, SeeIs DEF SeenTaken
<1>2. ASSUME UNCHANGED msgs
      PROVE  /\ SeenTaken' = SeenTaken /\ mappingReset' = mappingReset
             /\ Accumulated'["DtoM"] \subseteq Accumulated["DtoM"]
  BY <1>2 DEF msgs, SeenTaken
<1>3. CASE CtoPMarker
  <2> DEFINE h == Head(CollatedFrameRing)
  <2>1. CollatedFrameRing # <<>> /\ See("CtoP", h.Value) /\ mappingReset' = mappingReset
    BY <1>3 DEF CtoPMarker
  <2>2. h.Value \in Nat  BY <2>1, <1>0, HeadsAre
  <2>3. SeenTaken' = SeenTaken  BY <2>1, <2>2, <1>1
  <2>4. Accumulated'["DtoM"] = Accumulated["DtoM"]  BY <1>0, <1>3, MarkerReceived DEF Received
  <2> QED BY <2>1, <2>3, <2>4
<1>4. CASE CtoPFrame
  <2>1. /\ CollatedFrameRing # <<>>
        /\ See("CtoP", [Head(CollatedFrameRing) EXCEPT !.Value = NextBufferSequenceNumber].Value)
        /\ UNCHANGED <<Accumulated, mappingReset>>
    BY <1>4 DEF CtoPFrame
  <2>2. Head(CollatedFrameRing) \in CollatedItems  BY <2>1, <1>0, HeadsAre
  <2>3. [Head(CollatedFrameRing) EXCEPT !.Value = NextBufferSequenceNumber].Value \in Nat
    BY <2>2, <1>0 DEF CollatedItems, FrameItems, MarkerItems, Others
  <2>4. SeenTaken' = SeenTaken  BY <2>1, <2>3, <1>1
  <2> QED BY <2>1, <2>4
<1>5. CASE PtoDExtract
  <2>1. /\ PtoDBuffer' = Head(ParsedFrameRing) /\ ParsedFrameRing # <<>> /\ See("PtoD", PtoDBuffer'.Value)
        /\ UNCHANGED <<Accumulated, mappingReset>>
    BY <1>5 DEF PtoDExtract
  <2>2. PtoDBuffer'.Value \in Nat  BY <2>1, <1>0, HeadsAre
  <2>3. SeenTaken' = SeenTaken  BY <2>1, <2>2, <1>1
  <2> QED BY <2>1, <2>3
<1>6. CASE PtoDPass \/ PtoDDiscard
  <2>1. PtoDCallsAfter /\ UNCHANGED <<MaximumActualSequenceNumberSeen, mappingReset>>
    BY <1>6 DEF PtoDPass, PtoDDiscard
  <2>2. Accumulated'["DtoM"] = Accumulated["DtoM"]  BY <2>1, <1>0, OthersCalls DEF PtoDCallsAfter
  <2> QED BY <2>1, <2>2 DEF SeenTaken
<1>7. CASE DtoMManifest \/ DtoMDiscard
  <2>1. DtoMCallsAfter(DtoMBuffer) /\ UNCHANGED <<MaximumActualSequenceNumberSeen, mappingReset>>
    BY <1>7 DEF DtoMManifest, DtoMDiscard
  <2>2. Accumulated'["DtoM"] \subseteq Accumulated["DtoM"]  BY <2>1, <1>0 DEF DtoMCallsAfter
  <2> QED BY <2>1, <2>2 DEF SeenTaken
<1>8. CASE PostMExtract
  <2> DEFINE h == Head(ManifestedBufferRing)
  <2>1. /\ ManifestedBufferRing # <<>> /\ mappingReset' = mappingReset
        /\ \/ \E S : Accumulated' = [Accumulated EXCEPT !["PostM"] = @ \ S]
           \/ Accumulate("PostM", h)
           \/ UNCHANGED Accumulated
        /\ See("PostM", h.Value) \/ UNCHANGED MaximumActualSequenceNumberSeen
    BY <1>8 DEF PostMExtract
  <2>2. h.Value \in Nat  BY <2>1, <1>0, HeadsAre
  <2> HIDE DEF h
  <2>3. SeenTaken' = SeenTaken
    <3>1. UNCHANGED MaximumActualSequenceNumberSeen => SeenTaken' = SeenTaken  BY DEF SeenTaken
    <3> QED BY <2>1, <2>2, <3>1, <1>1
  <2>4. Accumulated'["DtoM"] = Accumulated["DtoM"]  BY <2>1, <1>0, OthersCalls
  <2> QED BY <2>1, <2>3, <2>4
<1>9. CASE \/ UNCHANGED vars \/ CodecOutput \/ DtoMTimeout \/ Manifest \/ Entry \/ DrainInsert \/ Rest
           \/ Begins \/ \E isReference \in BOOLEAN : Collate(isReference)
  <2>1. UNCHANGED msgs
    BY <1>9 DEF vars, CodecOutput, DtoMTimeout, Manifest, Entry, Rest, Begins, DrainBegin, Collate,
       DrainJump, DrainCodec, DrainRelease, DrainCheck, DrainNumber, DrainInsert, DrainCallBefore,
       DrainCallAfter, DrainReturn
  <2> QED BY <2>1, <1>2
<1> QED BY <1>3, <1>4, <1>5, <1>6, <1>7, <1>8, <1>9 DEF Moves, Onward, Downstream

\* A reset is on its way, or is called before the marker.
LEMMA ResetsFrom ==
  ASSUME TypeInv, Unswitched, Coming, Moves
  PROVE  \A m \in Resets' : m \in Resets \/ (DrainCallBefore /\ m.Value = DrainSequenceNumber)
<1>0. Typed /\ DrainSequenceNumber \in Nat  BY DEF TypeInv, Ranges, MessageRanges
<1>1. CASE DtoMSelect \/ DtoMMarker \/ DtoMExtract  BY <1>1, CallsTaken
<1>2. CASE ~(DtoMSelect \/ DtoMMarker \/ DtoMExtract)
  <2>1. Accumulated'["DtoM"] \subseteq Accumulated["DtoM"]  BY <1>2, CallsStay
  <2>2. \A m \in InD' : IsReset(m) => m \in InD \/ (DrainCallBefore /\ m.Value = DrainSequenceNumber)
    <3>1. CASE CodecOutput
      <4>1. /\ codec # <<>>
            /\ UNCHANGED DecodedFrameRing \/ DecodedFrameRing' = Append(DecodedFrameRing, Head(codec))
        BY <3>1 DEF CodecOutput
      <4>2. ~IsReset(Head(codec))
        <5>1. Head(codec) \in CodedItems  BY <4>1, <1>0, HeadsAre
        <5> QED BY <5>1, CodedIs DEF IsReset, IsControl, BeforeCalls
      <4>3. UNCHANGED DecodedFrameRing => InD' = InD  BY DEF InD, ToSet
      <4>4. DecodedFrameRing' = Append(DecodedFrameRing, Head(codec)) => InD' = InD \cup {Head(codec)}
        BY <1>0, AppendAdds DEF Typed, InD
      <4> QED BY <4>1, <4>2, <4>3, <4>4
    <3>2. CASE DrainCallBefore
      <4> DEFINE e == Item("ResetTimeMapping", None, DrainSequenceNumber)
      <4>1. DecodedFrameRing' = Append(DecodedFrameRing, e)  BY <3>2 DEF DrainCallBefore
      <4>2. e.Value = DrainSequenceNumber  BY DEF Item
      <4> HIDE DEF e
      <4>3. InD' = InD \cup {e}  BY <4>1, <1>0, AppendAdds DEF Typed, InD
      <4> QED BY <4>2, <4>3, <3>2
    <3>3. CASE CtoPMarker \/ CtoPFrame  BY <3>3, MarkerReceived, FrameReceived DEF Received
    <3>4. CASE Onward /\ ~CodecOutput /\ ~DrainCallBefore
      <4>1. UNCHANGED DecodedFrameRing
        BY <3>4, <1>2 DEF Onward, Downstream, vars, rings, PtoDExtract, PtoDPass, PtoDDiscard, DtoMTimeout,
           DtoMManifest, DtoMDiscard, Manifest, PostMExtract, Entry, Rest, Begins, DrainBegin, Collate,
           DrainJump, DrainCodec, DrainRelease, DrainCheck, DrainNumber, DrainInsert,
           DrainCallAfter, DrainReturn
      <4> QED BY <4>1 DEF InD, ToSet
    <3> QED BY <3>1, <3>2, <3>3, <3>4 DEF Moves
  <2> QED BY <2>1, <2>2 DEF Resets, IsReset
<1> QED BY <1>1, <1>2

\* What DecodeToManifest takes is below all that has not reached it.
LEMMA TakenFirst ==
  ASSUME TypeInv, Chain, DtoMSelect \/ DtoMMarker \/ DtoMExtract
  PROVE  \/ SeenTaken' = SeenTaken
         \/ \E x \in Everywhere :
              /\ ~IsControl(x) /\ SeenTaken' = x.Value
              /\ Less({x}, InF' \cup InD' \cup InK' \cup InH' \cup InP')
<1>0. /\ Typed /\ ParseRanges /\ MaximumActualSequenceNumberSeen \in [Processes -> Nat]
      /\ "DtoM" \in Processes /\ SeenTaken \in Nat /\ AccumulatedBufferTable \subseteq FrameItems
  BY DEF TypeInv, Ranges, MessageRanges, Typed, Processes, SeenTaken
<1>1. ASSUME NEW v \in Nat, See("DtoM", v) PROVE SeenTaken' \in {SeenTaken, v}
  BY <1>0, <1>1, SeeIs DEF SeenTaken
<1>2. UNCHANGED <<ParsedFrameRing, PtoDBuffer, codec>> => InK' = InK /\ InH' = InH /\ InP' = InP
  BY DEF InK, InH, InP, ToSet
<1>3. UNCHANGED DecodedFrameRing => InD' = InD  BY DEF InD, ToSet
<1>4. UNCHANGED MarkerFrameBuffer => InF' = InF  BY DEF InF
<1>5. CASE DtoMSelect
  <2>1. /\ TakeFrame(Lowest, DesiredFrameIndex) /\ Selectable
        /\ UNCHANGED <<ParsedFrameRing, PtoDBuffer, codec, DecodedFrameRing, MarkerFrameBuffer>>
    BY <1>5 DEF DtoMSelect, rings
  <2>2. Lowest \in InX /\ Lowest \in FrameItems  BY <2>1, <1>0, SelectedIs DEF InX
  <2>3. ~IsControl(Lowest) /\ Lowest.Value \in Nat  BY <2>2, FrameIs
  <2>4. SeenTaken' \in {SeenTaken, Lowest.Value}  BY <2>1, <2>3, <1>1 DEF TakeFrame
  <2>5. Less({Lowest}, InF \cup InD \cup InK \cup InH \cup InP)
    BY <2>2 DEF Chain, ChainLess, Less
  <2>6. InF' = InF /\ InD' = InD /\ InK' = InK /\ InH' = InH /\ InP' = InP
    BY <2>1, <1>2, <1>3, <1>4
  <2> QED BY <2>2, <2>3, <2>4, <2>5, <2>6 DEF Everywhere
<1>6. CASE DtoMMarker
  <2> DEFINE x == MarkerFrameBuffer
  <2>1. /\ IsMarker(x) /\ See("DtoM", x.Value) /\ MarkerFrameBuffer' = Nothing
        /\ UNCHANGED <<ParsedFrameRing, PtoDBuffer, codec, DecodedFrameRing>>
    BY <1>6 DEF DtoMMarker
  <2>2. x \in MarkerItems  BY <2>1, <1>0, HeadsAre
  <2>3. ~IsControl(x) /\ x.Value \in Nat /\ x \in InF  BY <2>2, MarkerIs DEF InF, InHand
  <2>4. SeenTaken' \in {SeenTaken, x.Value}  BY <2>1, <2>3, <1>1
  <2>5. Less({x}, InD \cup InK \cup InH \cup InP)  BY <2>3 DEF Chain, ChainLess, Less
  <2>6. InF' = {}  BY <2>1 DEF InF, InHand
  <2>7. InD' = InD /\ InK' = InK /\ InH' = InH /\ InP' = InP  BY <2>1, <1>2, <1>3
  <2> HIDE DEF x
  <2> QED BY <2>3, <2>4, <2>5, <2>6, <2>7 DEF Everywhere
<1>7. CASE DtoMExtract
  <2> DEFINE x == Head(DecodedFrameRing)
             d == SkipNonDecoded.desired
  <2>1. /\ DecodedFrameRing # <<>> /\ DecodedFrameRing' = Tail(DecodedFrameRing)
        /\ UNCHANGED <<ParsedFrameRing, PtoDBuffer, codec>> /\ MarkerFrameBuffer = Nothing
        /\ \/ UNCHANGED MaximumActualSequenceNumberSeen
           \/ IsFrame(x) /\ TakeFrame(x, d) /\ UNCHANGED MarkerFrameBuffer
    BY <1>7 DEF DtoMExtract, msgs
  <2>2. x \in DecodedItems /\ x.Value \in Nat  BY <2>1, <1>0, HeadsAre
  <2>3. /\ x \in InD /\ Less({x}, InD')
    <3>1. \A m \in DecodedItems : m.Value \in Nat  BY DecodedIs
    <3>2. Less({x}, ToSet(Tail(DecodedFrameRing)))
      BY <3>1, <2>1, <1>0, RisingTail DEF Typed, Chain, ChainRising
    <3>3. x \in InD  BY <2>1, <1>0, TailIs DEF InD, Typed
    <3> QED BY <3>2, <3>3, <2>1 DEF InD
  <2> HIDE DEF x, d
  <2>4. CASE UNCHANGED MaximumActualSequenceNumberSeen  BY <2>4 DEF SeenTaken
  <2>5. CASE IsFrame(x) /\ TakeFrame(x, d) /\ UNCHANGED MarkerFrameBuffer
    <3>1. ~IsControl(x)  BY <2>5 DEF IsFrame, IsControl, BeforeCalls, AfterCalls
    <3>2. SeenTaken' \in {SeenTaken, x.Value}  BY <2>2, <2>5, <1>1 DEF TakeFrame
    <3>3. InF' = {}  BY <2>1, <2>5 DEF InF, InHand
    <3>4. Less({x}, InK \cup InH \cup InP)  BY <2>3 DEF Chain, ChainLess, Less
    <3>5. InK' = InK /\ InH' = InH /\ InP' = InP  BY <2>1, <1>2
    <3>6. Less({x}, InF' \cup InD' \cup InK' \cup InH' \cup InP')
      BY <3>3, <3>4, <3>5, <2>3 DEF Less
    <3> QED BY <3>1, <3>2, <3>6, <2>3 DEF Everywhere
  <2> QED BY <2>1, <2>4, <2>5
<1> QED BY <1>5, <1>6, <1>7

\* Every step keeps what DecodeToManifest has taken below the markers to come.
LEMMA TakenBelowStep ==
  ASSUME TypeInv, Chain, Coming, Unswitched, OneMarker, TakenBelow, InsertedInTime, drain.alone, Moves
  PROVE  TakenBelow'
<1>0. /\ Typed /\ NextBufferSequenceNumber \in Nat /\ DrainSequenceNumber \in Nat
      /\ SeenTaken \in Nat
  BY DEF TypeInv, Ranges, MessageRanges, SeenTaken, Processes
<1>1. NextBufferSequenceNumber <= NextBufferSequenceNumber' /\ NextBufferSequenceNumber' \in Nat
  BY NextRises
<1>2. ASSUME SeenTaken' = SeenTaken PROVE TakenBelow'
  <2>1. ASSUME NEW m \in Upstream', IsMarker(m) PROVE SeenTaken < m.Value
    <3>1. CASE m \in Upstream  BY <3>1, <2>1 DEF TakenBelow
    <3>2. CASE DrainInsert /\ m.Value = DrainSequenceNumber
      <4>1. drain.pc = "insert"  BY <3>2 DEF DrainInsert, At
      <4>2. /\ DrainSequenceNumber > 0
            /\ NextBufferSequenceNumber + Len(CollatedFrameRing) <= DrainSequenceNumber
        BY <4>1 DEF OneMarker, InsertedInTime
      <4>3. Len(CollatedFrameRing) \in Nat  BY <1>0 DEF Typed
      <4> QED BY <4>2, <4>3, <3>2, <1>0 DEF TakenBelow
    <3> QED BY <2>1, <3>1, <3>2, UpstreamFrom
  <2>2. SeenTaken = 0 \/ SeenTaken < NextBufferSequenceNumber'  BY <1>0, <1>1 DEF TakenBelow
  <2> QED BY <1>2, <2>1, <2>2 DEF TakenBelow
<1>3. ASSUME DtoMSelect \/ DtoMMarker \/ DtoMExtract, SeenTaken' # SeenTaken
      PROVE  TakenBelow'
  <2>1. PICK x \in Everywhere :
          /\ ~IsControl(x) /\ SeenTaken' = x.Value
          /\ Less({x}, InF' \cup InD' \cup InK' \cup InH' \cup InP')
    BY <1>3, TakenFirst
  <2>2. x.Value < NextBufferSequenceNumber /\ x.Value \in Nat
    BY <2>1, <1>0, Numbers DEF Chain, ChainBelow
  <2>3. InC' = InC
    BY <1>3 DEF DtoMSelect, DtoMMarker, DtoMExtract, rings, InC, ToSet
  <2>4. ASSUME NEW m \in Upstream', IsMarker(m) PROVE x.Value < m.Value
    <3>1. CASE m \in InC
      <4>1. m \in MarkerItems /\ NextBufferSequenceNumber <= m.Value  BY <3>1, <2>4, MarkerToCome
      <4>2. m.Value \in Nat  BY <4>1, MarkerIs
      <4> QED BY <4>1, <4>2, <2>2, <1>0
    <3>2. CASE m \in InF' \cup InD' \cup InK' \cup InH' \cup InP'
      <4>1. ~IsControl(m)  BY <2>4 DEF IsMarker, IsControl, BeforeCalls, AfterCalls
      <4> QED BY <4>1, <3>2, <2>1 DEF Less
    <3> QED BY <3>1, <3>2, <2>3 DEF Upstream
  <2>5. x.Value < NextBufferSequenceNumber'  BY <2>2, <1>0, <1>1
  <2> QED BY <2>1, <2>4, <2>5 DEF TakenBelow
<1>4. DtoMSelect \/ DtoMMarker \/ DtoMExtract \/ SeenTaken' = SeenTaken  BY CallsStay
<1> QED BY <1>2, <1>3, <1>4

\* What is left below a number stays one frame at most.
LEMMA OneLeftStays ==
  ASSUME TypeInv, TypeInv', Chain, Chain', Unswitched, Coming, Ascending, Moves,
         NEW v \in Nat, OneLeft(v)
  PROVE  OneLeft(v)'
<1>0. NextBufferSequenceNumber \in Nat  BY DEF TypeInv, Ranges, MessageRanges
<1>1. NextBufferSequenceNumber <= NextBufferSequenceNumber' /\ NextBufferSequenceNumber' \in Nat
  BY NextRises
<1>2. v = 0 \/ v < NextBufferSequenceNumber  BY DEF OneLeft
<1>3. v <= NextBufferSequenceNumber  BY <1>0, <1>2
<1>4. v = 0 \/ v < NextBufferSequenceNumber'  BY <1>0, <1>1, <1>2
<1>5. ASSUME NEW m \in Before(v)'
      PROVE  m \in Before(v) /\ m \in InT' \cup InB' /\ reference'[m.id] = reference[m.id]
  <2>1. m \in Before(v) /\ (m \in InT \cup InB => m \in InT' \cup InB')
        /\ reference'[m.id] = reference[m.id]
    BY <1>3, BeforeStays
  <2> QED BY <2>1 DEF OneLeft
<1>6. \A m, o \in Before(v)' : m = o /\ reference'[m.id]  BY <1>5 DEF OneLeft
<1>7. Before(v)' \subseteq InT' \cup InB'  BY <1>5
<1> QED BY <1>4, <1>6, <1>7 DEF OneLeft

\* Once the marker has passed DecodeToManifest the frames of before are gone.
MarkerGone == ~Entering /\ ~MarkerIn(Upstream) => OneLeft(DrainSequenceNumber)

\* This is part of what is known of the drains, before a step and after it.
LEMMA MarkerGoneIs == Sound => MarkerGone
<1> SUFFICES ASSUME Sound, ~Entering, ~MarkerIn(Upstream) PROVE OneLeft(DrainSequenceNumber)
  BY DEF MarkerGone
<1>1. ~MarkerIn(InC)  BY DEF MarkerIn, Upstream
<1>2. DrainSequenceNumber < NextBufferSequenceNumber  BY <1>1 DEF Sound, OneMarker
<1> QED BY <1>2 DEF Sound, Flushed, OneLeft, InT, InB

LEMMA MarkerGoneNext == Sound' => MarkerGone'
BY MarkerGoneIs, PTL

\* Every step keeps the resets behind the frames they are to follow.
LEMMA ResetsBehindStep ==
  ASSUME TypeInv, TypeInv', Sound, Sound', TakenBelow', ResetsBehind, drain.alone, Moves
  PROVE  ResetsBehind'
<1>0. /\ Typed /\ CallsTyped /\ DrainRanges /\ DrainSequenceNumber \in Nat /\ mappingReset \in Nat
      /\ SeenTaken' \in Nat /\ DrainSequenceNumber' \in Nat
  BY DEF TypeInv, Ranges, MessageRanges, SeenTaken, Processes
<1>1. Chain /\ Chain' /\ Unswitched /\ Coming /\ Ascending  BY DEF Sound
<1>2. \A m \in Resets : m.Value \in Nat
  <2>1. Accumulated["DtoM"] \in SUBSET Others(CallsOf("DtoM"))
    BY <1>0 DEF CallsTyped, Processes
  <2>2. \A m \in Accumulated["DtoM"] : m.Value \in Nat  BY <2>1 DEF Others
  <2>3. \A m \in InD : m.Value \in Nat  BY <1>0, Numbers DEF Everywhere
  <2> QED BY <2>2, <2>3 DEF Resets
<1>3. ASSUME NEW m \in Resets
      PROVE  OneLeft(m.Value)' \/ (~Entering' /\ m.Value = DrainSequenceNumber')
  <2>1. m.Value \in Nat  BY <1>2
  <2>2. PICK v \in Nat : v = m.Value  BY <2>1
  <2>3. CASE OneLeft(v)
    <3>1. OneLeft(v)'  BY <2>3, <1>1, OneLeftStays
    <3> QED BY <3>1, <2>2
  <2>4. CASE ~Entering /\ m.Value = DrainSequenceNumber
    <3>1. CASE Begins
      <4>1. drain.pc = "idle" /\ (drain.n = 0 \/ Drained)
        BY <3>1, EnteringIs DEF Begins
      <4>2. drain.n # 0  BY <2>4 DEF Entering
      <4>3. Completed  BY <4>1, <4>2 DEF Completed
      <4>4. ~MarkerIn(Upstream)
        <5>1. \A o \in InC \cup Everywhere : ~IsMarker(o)  BY <4>3, DoneIs
        <5> QED BY <5>1 DEF MarkerIn, Upstream, Everywhere
      <4>5. OneLeft(DrainSequenceNumber)  BY <4>4, <2>4, MarkerGoneIs DEF MarkerGone
      <4>6. OneLeft(v)  BY <4>5, <2>2, <2>4
      <4>7. OneLeft(v)'  BY <4>6, <1>1, OneLeftStays
      <4> QED BY <4>7, <2>2
    <3>2. CASE ~Begins
      <4>1. ~Entering' /\ DrainSequenceNumber' = DrainSequenceNumber  BY <3>2, <2>4, EnteringIs
      <4> QED BY <4>1, <2>4
    <3> QED BY <3>1, <3>2
  <2> QED BY <2>2, <2>3, <2>4 DEF ResetsBehind
<1>4. ASSUME NEW m \in Resets'
      PROVE  OneLeft(m.Value)' \/ (~Entering' /\ m.Value = DrainSequenceNumber')
  <2>1. CASE m \in Resets  BY <2>1, <1>3
  <2>2. CASE DrainCallBefore /\ m.Value = DrainSequenceNumber
    <3>1. drain.pc = "before"  BY <2>2 DEF DrainCallBefore, At
    <3>2. drain.n > 0 /\ drain.n \in Nat /\ ~Begins  BY <3>1, EnteringIs
    <3>3. ~Entering
      <4>1. drain.n # 0  BY <3>2
      <4> QED BY <3>1, <4>1 DEF Entering
    <3>4. ~Entering' /\ DrainSequenceNumber' = DrainSequenceNumber  BY <3>2, <3>3, EnteringIs
    <3> QED BY <3>4, <2>2
  <2> QED BY <2>1, <2>2, <1>1, ResetsFrom
<1>5. OneLeft(mappingReset)'
  <2>1. CASE mappingReset' = mappingReset
    <3>1. PICK r \in Nat : r = mappingReset /\ r = mappingReset'  BY <2>1, <1>0
    <3>2. OneLeft(r)  BY <3>1 DEF ResetsBehind
    <3>3. OneLeft(r)'  BY <3>2, <1>1, OneLeftStays
    <3>4. Before(r)' = Before(mappingReset)'  BY <3>1 DEF Before
    <3> QED BY <3>1, <3>3, <3>4 DEF OneLeft
  <2>2. CASE \E c \in Resets : mappingReset' = c.Value /\ c.Value <= SeenTaken'
    <3>1. PICK c \in Resets : mappingReset' = c.Value /\ c.Value <= SeenTaken'  BY <2>2
    <3>2. CASE OneLeft(c.Value)'
      <4>1. Before(c.Value)' = Before(mappingReset)'  BY <3>1 DEF Before
      <4> QED BY <3>1, <3>2, <4>1 DEF OneLeft
    <3>3. CASE ~Entering' /\ c.Value = DrainSequenceNumber'
      <4>1. ~MarkerIn(Upstream)'
        <5>1. ASSUME NEW o \in Upstream', IsMarker(o) PROVE FALSE
          <6>1. SeenTaken' < o.Value  BY <5>1 DEF TakenBelow
          <6>2. o \in InC' \cup Everywhere'  BY DEF Upstream, Everywhere
          <6>3. o.Value = DrainSequenceNumber'  BY <5>1, <6>2 DEF Sound, OneMarker
          <6> QED BY <6>1, <6>3, <3>1, <3>3, <1>0
        <5> QED BY <5>1 DEF MarkerIn
      <4>2. OneLeft(DrainSequenceNumber)'  BY <4>1, <3>3, MarkerGoneNext DEF MarkerGone
      <4>3. Before(DrainSequenceNumber)' = Before(mappingReset)'  BY <3>1, <3>3 DEF Before
      <4> QED BY <3>1, <3>3, <4>2, <4>3 DEF OneLeft
    <3> QED BY <3>1, <3>2, <3>3, <1>3
  <2>3. mappingReset' = mappingReset \/ \E c \in Resets : mappingReset' = c.Value /\ c.Value <= SeenTaken'
    BY <1>1, CallsTaken, CallsStay
  <2> QED BY <2>1, <2>2, <2>3
<1> QED BY <1>4, <1>5 DEF ResetsBehind

\* The invariant of the resets holds of the initial states.
LEMMA ResetInit == Init => ResetInv
<1> SUFFICES ASSUME Init PROVE TakenBelow /\ ResetsBehind  BY DEF ResetInv
<1>1. SeenTaken = 0 /\ mappingReset = 0 /\ Accumulated["DtoM"] = {}
  BY DEF Init, SeenTaken, Processes
<1>2. InD = {} /\ Upstream = {}
  BY DEF Init, Upstream, InC, InF, InD, InK, InH, InP, InHand, ToSet
<1>3. Resets = {}  BY <1>1, <1>2 DEF Resets
<1>4. Before(0) = {}
  <2>1. Typed /\ Chain  BY TypeInit, ChainInit DEF TypeInv
  <2>2. \A m \in Undelivered : m.Value \in Nat  BY <2>1, UndeliveredIs DEF LeftByStage
  <2>3. \A m \in Undelivered : ~(m.Value < 0)  BY <2>2
  <2> QED BY <2>3 DEF Before
<1> QED BY <1>1, <1>2, <1>3, <1>4 DEF TakenBelow, ResetsBehind, OneLeft

\* Every step keeps it.
LEMMA ResetStep ==
  DrainsOnly =>
    (/\ TypeInv /\ TypeInv' /\ AloneIInv /\ AloneIInv' /\ ResetInv /\ InsertedInTime /\ [Next]_vars
     => ResetInv')
<1> SUFFICES ASSUME DrainsOnly, TypeInv, TypeInv', AloneIInv, AloneIInv', ResetInv, InsertedInTime,
                    [Next]_vars, drain'.alone
             PROVE  TakenBelow' /\ ResetsBehind'
  BY DEF ResetInv
<1>1. drain.alone /\ Moves  BY AloneMoves
<1>2. Sound /\ Sound' /\ TakenBelow /\ ResetsBehind  BY <1>1 DEF AloneIInv, AloneInv, ResetInv
<1>3. TakenBelow'  BY <1>1, <1>2, TakenBelowStep DEF Sound
<1>4. ResetsBehind'  BY <1>1, <1>2, <1>3, ResetsBehindStep
<1> QED BY <1>3, <1>4

\* The time mapping is reset in sequence with the frames: when drains are begun
\* one after the other, no frame of before the marker is still to be timed when
\* the output timer resets its mapping, save the one reference frame that a
\* drain which plays out may leave.
THEOREM DrainsResetInSequence ==
  DrainsOnly => (Spec /\ []InsertedInTime => [](drain.alone => ResetInSequence))
<1> SUFFICES ASSUME DrainsOnly
             PROVE  Spec /\ []InsertedInTime => [](drain.alone => ResetInSequence)
  OBVIOUS
<1> DEFINE IInv == TypeInv /\ AloneIInv /\ ResetInv
<1>1. Init => IInv  BY TypeInit, AloneInit, ResetInit
<1>2. IInv /\ InsertedInTime /\ [Next]_vars => IInv'  BY TypeStep, AloneStep, ResetStep
<1>3. IInv => (drain.alone => ResetInSequence)
  <2> SUFFICES ASSUME ResetInv, drain.alone PROVE LastReference(Before(mappingReset))
    BY DEF ResetInSequence
  <2> DEFINE B == Before(mappingReset)
  <2>1. B \subseteq InT \cup InB /\ \A m, o \in B : m = o /\ reference[m.id]
    BY DEF ResetInv, ResetsBehind, OneLeft
  <2> HIDE DEF B
  <2>2. Cardinality(B) <= 1
    <3>1. CASE B = {}  BY <3>1, FS_EmptySet
    <3>2. ASSUME NEW m \in B PROVE Cardinality(B) <= 1
      <4>1. B = {m}  BY <2>1
      <4>2. Cardinality({m}) = 1  BY FS_Singleton
      <4> QED BY <4>1, <4>2
    <3> QED BY <3>1, <3>2
  <2>3. B \subseteq AccumulatedBufferTable \cup {DtoMBuffer}  BY <2>1 DEF InT, InB, InHand
  <2>4. LastReference(B)  BY <2>1, <2>2, <2>3 DEF LastReference
  <2> QED BY <2>4 DEF B
<1> QED BY <1>1, <1>2, <1>3, PTL DEF Spec
=============================================================================
