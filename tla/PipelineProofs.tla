--------------------------- MODULE PipelineProofs ---------------------------
(***************************************************************************)
(* What is proved of StreamPipeline: the types, the numbers that order the *)
(* buffers of the processes of a stream, and the order of the display.     *)
(*                                                                         *)
(* Each part has an inductive invariant of its own over the parts before   *)
(* it: TypeInv, then Chain and Coming (where a buffer is, by its number),  *)
(* then Order (which display index can still come).                        *)
(***************************************************************************)
EXTENDS StreamPipeline, TLAPS, SequenceTheorems, WellFoundedInduction, FiniteSetTheorems

-----------------------------------------------------------------------------
(***************************************************************************)
(* Numbers and sequences.                                                  *)
(***************************************************************************)
\* A set of natural numbers that is not empty has a smallest element.
LEMMA MinIs ==
  ASSUME NEW S \in SUBSET Nat, S # {}
  PROVE  Min(S) \in S /\ \A m \in S : Min(S) <= m
<1> DEFINE Below == OpToRel(<, Nat)
<1>1. IsWellFoundedOn(Below, Nat)  BY NatLessThanWellFounded
<1>2. \A i, j \in Nat : <<j, i>> \in Below <=> j < i  BY DEF OpToRel
<1> HIDE DEF Below
<1>3. PICK x \in S : \A y \in S : ~ (<<y, x>> \in Below)  BY <1>1, WFMin
<1>4. ASSUME NEW y \in S PROVE x <= y
  <2>1. x \in Nat /\ y \in Nat  OBVIOUS
  <2>2. ~(y < x)  BY <1>2, <1>3, <2>1
  <2> QED BY <2>1, <2>2
<1> QED BY <1>4 DEF Min

\* A set of natural numbers that is not empty and has a bound has a largest.
LEMMA MaxIs ==
  ASSUME NEW S \in SUBSET Nat, S # {}, NEW b \in Nat, \A m \in S : m <= b
  PROVE  Max(S) \in S /\ \A m \in S : m <= Max(S)
<1> DEFINE T == {b - m : m \in S}
<1>1. T \in SUBSET Nat /\ T # {}
  <2>1. ASSUME NEW m \in S PROVE b - m \in Nat  OBVIOUS
  <2> QED BY <2>1
<1>2. PICK m \in S : Min(T) = b - m  BY <1>1, MinIs
<1>3. \A n \in S : b - m <= b - n  BY <1>1, <1>2, MinIs
<1>4. \A n \in S : n <= m  BY <1>3
<1> QED BY <1>4 DEF Max

\* The larger and the smaller of two.
LEMMA MaxOfTwo ==
  ASSUME NEW a \in Nat, NEW b \in Nat
  PROVE  Max({a, b}) = IF a >= b THEN a ELSE b
<1>1. Max({a, b}) \in {a, b} /\ \A m \in {a, b} : m <= Max({a, b})
  BY MaxIs, {a, b} \in SUBSET Nat, a + b \in Nat, \A m \in {a, b} : m <= a + b
<1> QED BY <1>1

\* The smaller and the larger of two numbers are one of them and bound both.
LEMMA MinOfTwo ==
  ASSUME NEW a \in Nat, NEW b \in Nat
  PROVE  Min({a, b}) = IF a <= b THEN a ELSE b
<1>1. Min({a, b}) \in {a, b} /\ \A m \in {a, b} : Min({a, b}) <= m
  BY MinIs, {a, b} \in SUBSET Nat
<1> QED BY <1>1

\* The constants.
LEMMA Bounds ==
  /\ MaxFrames \in Nat /\ MaxFrames < INVALID_INDEX /\ INVALID_INDEX \in Nat
  /\ MaxDrains \in Nat /\ MaxWork \in Nat /\ RingSize \in Nat /\ RingSize > 0
  /\ MaxDecodesOutOfOrder \in Nat /\ MaxDecodesOutOfOrder > 0
  /\ Frames = 1 .. MaxFrames /\ Markers = 1 .. MaxDrains
BY PipelineAssumption DEF INVALID_INDEX, Frames, Markers

-----------------------------------------------------------------------------
(***************************************************************************)
(* Types.                                                                  *)
(***************************************************************************)
FrameItems   == [kind : {"frame"}, id : Frames, Value : Nat]
DroppedItems == [kind : {"dropped"}, id : Frames, Value : Nat]
MarkerItems  == [kind : {"marker"}, id : Markers, Value : Nat]
Others(kinds) == [kind : kinds, id : {None}, Value : Nat]

CollatedItems   == FrameItems \cup MarkerItems \cup Others({"jump", "SwitchFrameParser"})
ParsedItems     == FrameItems \cup MarkerItems \cup Others({"SwitchCodec"})
CodedItems      == FrameItems \cup DroppedItems \cup MarkerItems
DecodedItems    ==
  FrameItems \cup MarkerItems \cup Others({"ResetTimeMapping", "SwitchOutputTimer"})
ManifestedItems ==
  FrameItems \cup MarkerItems \cup Others({"SetDrained", "SwitchComplete"})

\* The calls a process takes in.
CallsOf(p) == CASE p = "CtoP" -> {"SwitchFrameParser"}
                [] p = "PtoD" -> {"SwitchCodec"}
                [] p = "DtoM" -> {"ResetTimeMapping", "SwitchOutputTimer"}
                [] p = "PostM" -> {"SetDrained", "SwitchComplete"}

\* Each process holds its own calls only.
CallsTyped ==
  /\ Accumulated = [p \in Processes |-> Accumulated[p]]
  /\ \A p \in Processes : Accumulated[p] \in SUBSET Others(CallsOf(p))

\* What each ring and table may hold.
Typed ==
  /\ CollatedFrameRing \in Seq(CollatedItems) /\ ParsedFrameRing \in Seq(ParsedItems)
  /\ PtoDBuffer \in FrameItems \cup MarkerItems \cup {Nothing}
  /\ codec \in Seq(CodedItems) /\ DecodedFrameRing \in Seq(DecodedItems)
  /\ AccumulatedBufferTable \in SUBSET FrameItems
  /\ MarkerFrameBuffer \in MarkerItems \cup {Nothing}
  /\ DtoMBuffer \in FrameItems \cup {Nothing}
  /\ manifestor \in Seq(FrameItems) /\ ManifestedBufferRing \in Seq(ManifestedItems)

\* The ranges of the variables that hold no buffers.
InputRanges ==
  /\ collated \in 0 .. MaxFrames /\ reference \in [Frames -> BOOLEAN]
  /\ collatedBy \in [Frames -> 0 .. MaxDrains]
MessageRanges ==
  /\ NextBufferSequenceNumber \in Nat /\ MarkerInCodedFrameIndex \in Markers \cup {None}
  /\ DiscardingUntilMarkerFrame \in [{"CtoP", "PtoD", "DtoM"} -> BOOLEAN]
  /\ MaximumActualSequenceNumberSeen \in [Processes -> Nat]
  /\ Drained \in BOOLEAN
  /\ DrainSequenceNumber \in Nat /\ mappingReset \in Nat
ParseRanges ==
  /\ DisplayFrameIndex \in [Frames -> 0 .. MaxFrames - 1 \cup {INVALID_INDEX}]
  /\ CollapseHolesInDisplayIndices \in [Frames -> BOOLEAN]
  /\ parser \in [deferred : Frames \cup {None}, collapse : BOOLEAN,
                 NextDisplayFrameIndex : 0 .. MaxFrames]
ReorderRanges ==
  /\ NonDecoded \in [released : SUBSET Frames, held : SUBSET Frames,
                     DisplayIndicesCollapse : 0 .. MaxFrames]
  /\ DesiredFrameIndex \in 0 .. MaxFrames
DrainRanges ==
  drain \in [pc : {"idle", "jump", "codec", "release", "check", "number", "insert",
                   "before", "after", "collator", "parser", "codec class", "timer",
                   "complete", "wait"},
             n : 0 .. MaxDrains,
             discard : BOOLEAN, alone : BOOLEAN, switch : BOOLEAN, failed : BOOLEAN]
SwitchRanges ==
  switch \in [Collator : 0 .. MaxDrains, FrameParser : 0 .. MaxDrains,
              Codec : 0 .. MaxDrains, InProgress : BOOLEAN, CodecReset : BOOLEAN,
              LastOneOutOfTheCodec : BOOLEAN, halted : SUBSET {"CtoP", "PtoD"}]
Ranges ==
  InputRanges /\ MessageRanges /\ ParseRanges /\ ReorderRanges /\ DrainRanges /\ SwitchRanges

\* How many indices the parser has given since it was reset, the one for the
\* deferred frame included.
Given == parser.NextDisplayFrameIndex + IF parser.deferred = None THEN 0 ELSE 1

\* Frames are collated in the order of their numbers and no more indices are
\* given than frames parsed.
InputOrder ==
  /\ Given <= collated
  /\ \A i \in DOMAIN CollatedFrameRing : IsFrame(CollatedFrameRing[i]) =>
       Given < CollatedFrameRing[i].id /\ CollatedFrameRing[i].id <= collated
  /\ \A i, j \in DOMAIN CollatedFrameRing :
       i < j /\ IsFrame(CollatedFrameRing[i]) /\ IsFrame(CollatedFrameRing[j])
         => CollatedFrameRing[i].id < CollatedFrameRing[j].id

\* A frame in hand has its index, and so has every non-decoded frame that is
\* noted.
IndexedInHand ==
  /\ DtoMBuffer # Nothing => DisplayFrameIndex[DtoMBuffer.id] # INVALID_INDEX
  /\ \A f \in NonDecoded.released : DisplayFrameIndex[f] # INVALID_INDEX

\* No more collators have been exchanged than switches begun.
Exchanges ==
  /\ switch.Collator <= drain.n /\ (drain.pc # "idle" => drain.n > 0)
  /\ drain.switch /\ drain.pc \in {"jump", "codec", "release", "check", "number", "insert",
                                   "before", "after", "collator"}
       => switch.Collator < drain.n
  /\ drain.pc \in {"collator", "parser", "codec class", "timer", "complete"} => drain.switch

TypeInv == Typed /\ CallsTyped /\ Ranges /\ InputOrder /\ IndexedInHand /\ Exchanges

\* The invariant of the types holds of the initial states.
LEMMA TypeInit == Init => TypeInv
<1> SUFFICES ASSUME Init PROVE TypeInv  OBVIOUS
<1> USE DEF Init
<1>1. Typed /\ CallsTyped  BY DEF Typed, CallsTyped, Processes, Others
<1>2. Ranges
  <2>1. /\ 0 \in 0 .. MaxFrames /\ 0 \in 0 .. MaxDrains
        /\ INVALID_INDEX \in 0 .. MaxFrames - 1 \cup {INVALID_INDEX}
    BY PipelineAssumption
  <2> QED BY <2>1, PipelineAssumption DEF Ranges, InputRanges, MessageRanges, ParseRanges,
         ReorderRanges, DrainRanges, SwitchRanges, Processes, ParserReset, None
<1>3. InputOrder /\ IndexedInHand
  BY Bounds DEF InputOrder, IndexedInHand, Given, ParserReset, None
<1>4. Exchanges BY DEF Exchanges
<1> QED BY <1>1, <1>2, <1>3, <1>4 DEF TypeInv

-----------------------------------------------------------------------------
\* What can be told from the kind of an item.
LEMMA FrameIs ==
  ASSUME NEW m \in FrameItems
  PROVE  /\ IsFrame(m) /\ ~IsMarker(m) /\ ~IsControl(m) /\ m # Nothing /\ m.kind = "frame"
         /\ m.id \in Frames /\ m.Value \in Nat
         /\ \A v \in Nat : /\ [m EXCEPT !.Value = v] \in FrameItems
                          /\ [m EXCEPT !.Value = v].id = m.id
                          /\ [m EXCEPT !.Value = v].Value = v
         /\ [m EXCEPT !.kind = "dropped"] \in DroppedItems
         /\ [m EXCEPT !.kind = "dropped"].Value = m.Value
         /\ [m EXCEPT !.kind = "dropped"].id = m.id
BY DEF FrameItems, DroppedItems, IsFrame, IsMarker, IsControl, BeforeCalls, AfterCalls, Nothing, Item

\* A frame is none of the values that stand for no frame.
LEMMA FrameId ==
  ASSUME NEW m \in FrameItems
  PROVE  m.id \in Nat /\ 0 < m.id /\ m.id <= MaxFrames
<1>1. m.id \in 1 .. MaxFrames  BY FrameIs, Bounds
<1> QED BY <1>1, Bounds

\* What a dropped item is, field by field.
LEMMA DroppedIs ==
  ASSUME NEW m \in DroppedItems
  PROVE  /\ ~IsFrame(m) /\ ~IsMarker(m) /\ ~IsControl(m) /\ m.kind = "dropped"
         /\ m.Value \in Nat /\ m.id \in Frames
BY DEF DroppedItems, IsFrame, IsMarker, IsControl, BeforeCalls, AfterCalls

\* What a marker is, field by field.
LEMMA MarkerIs ==
  ASSUME NEW m \in MarkerItems
  PROVE  /\ ~IsFrame(m) /\ IsMarker(m) /\ ~IsControl(m) /\ m # Nothing /\ m.kind = "marker"
         /\ m.id \in Markers /\ m.id # None /\ m.Value \in Nat
BY DEF MarkerItems, IsFrame, IsMarker, IsControl, BeforeCalls, AfterCalls, Nothing, Item, Markers, None

\* What a control or an empty item is, field by field.
LEMMA OtherIs ==
  ASSUME NEW kinds, kinds \subseteq AfterCalls \cup BeforeCalls \cup {"jump"},
         NEW m \in Others(kinds)
  PROVE  /\ ~IsFrame(m) /\ ~IsMarker(m) /\ m # Nothing /\ m.kind \in kinds /\ m.kind # "dropped"
         /\ IsControl(m) <=> m.kind # "jump"
         /\ m.Value \in Nat
<1>1. m.kind \in kinds /\ m.Value \in Nat  BY DEF Others
<1>2. m.kind \in {"ResetTimeMapping", "SwitchComplete", "SetDrained", "SwitchFrameParser",
                 "SwitchCodec", "SwitchOutputTimer", "jump"}
  BY <1>1 DEF AfterCalls, BeforeCalls
<1>3. ~IsFrame(m) /\ ~IsMarker(m) /\ m # Nothing /\ m.kind # "dropped"
  BY <1>2 DEF IsFrame, IsMarker, Nothing, Item
<1>4. IsControl(m) <=> m.kind # "jump"
  BY <1>2 DEF IsControl, AfterCalls, BeforeCalls
<1> QED BY <1>1, <1>3, <1>4

\* The value for "no buffer in hand" is of no kind a process tests for.
LEMMA NothingIs == ~IsFrame(Nothing) /\ ~IsMarker(Nothing) /\ ~IsControl(Nothing)
BY DEF IsFrame, IsMarker, IsControl, BeforeCalls, AfterCalls, Nothing, Item

\* The items of each ring by their kind.
LEMMA CollatedIs ==
  ASSUME NEW m \in CollatedItems
  PROVE  /\ IsFrame(m) => m \in FrameItems
         /\ IsMarker(m) => m \in MarkerItems
         /\ IsControl(m) => m \in Others({"SwitchFrameParser"})
         /\ ~IsFrame(m) /\ ~IsMarker(m) /\ ~IsControl(m) => m \in Others({"jump"})
         /\ m.Value \in Nat
BY DEF CollatedItems, FrameItems, MarkerItems, Others, IsFrame, IsMarker, IsControl,
       BeforeCalls, AfterCalls

\* Which items the parser can hand on.
LEMMA ParsedIs ==
  ASSUME NEW m \in ParsedItems
  PROVE  /\ IsFrame(m) => m \in FrameItems
         /\ IsMarker(m) => m \in MarkerItems
         /\ IsControl(m) => m \in Others({"SwitchCodec"})
         /\ IsFrame(m) \/ IsMarker(m) \/ IsControl(m)
         /\ m.Value \in Nat
BY DEF ParsedItems, FrameItems, MarkerItems, Others, IsFrame, IsMarker, IsControl,
       BeforeCalls, AfterCalls

\* Which items the collator can hand on.
LEMMA CodedIs ==
  ASSUME NEW m \in CodedItems
  PROVE  /\ IsFrame(m) => m \in FrameItems
         /\ IsMarker(m) => m \in MarkerItems
         /\ m.kind = "dropped" => m \in DroppedItems
         /\ ~IsControl(m)
         /\ IsFrame(m) \/ IsMarker(m) \/ m.kind = "dropped"
         /\ m.Value \in Nat
BY DEF CodedItems, FrameItems, MarkerItems, DroppedItems, IsFrame, IsMarker, IsControl,
       BeforeCalls, AfterCalls

\* Which items the codec can hand on.
LEMMA DecodedIs ==
  ASSUME NEW m \in DecodedItems
  PROVE  /\ IsFrame(m) => m \in FrameItems
         /\ IsMarker(m) => m \in MarkerItems
         /\ IsControl(m) => m \in Others({"ResetTimeMapping", "SwitchOutputTimer"})
         /\ IsFrame(m) \/ IsMarker(m) \/ IsControl(m)
         /\ m.Value \in Nat
BY DEF DecodedItems, FrameItems, MarkerItems, Others, IsFrame, IsMarker, IsControl,
       BeforeCalls, AfterCalls

\* Which items the manifestor can give back.
LEMMA ManifestedIs ==
  ASSUME NEW m \in ManifestedItems
  PROVE  /\ IsFrame(m) => m \in FrameItems
         /\ IsMarker(m) => m \in MarkerItems
         /\ IsControl(m) => m \in Others({"SetDrained", "SwitchComplete"})
         /\ IsFrame(m) \/ IsMarker(m) \/ IsControl(m)
         /\ m.Value \in Nat
BY DEF ManifestedItems, FrameItems, MarkerItems, Others, IsFrame, IsMarker, IsControl,
       BeforeCalls, AfterCalls

\* What the drain and the collator put into the rings.
LEMMA MadeItems ==
  ASSUME NEW v \in Nat
  PROVE  /\ \A f \in Frames : Item("frame", f, v) \in FrameItems
         /\ \A n \in Markers : Item("marker", n, v) \in MarkerItems
         /\ Item("jump", None, v) \in Others({"jump"})
         /\ \A kind \in BeforeCalls \cup AfterCalls : Item(kind, None, v) \in Others({kind})
BY DEF Item, FrameItems, MarkerItems, Others

\* A process that takes in a call of its own, and one whose calls are due.
LEMMA AccumulateTyped ==
  ASSUME CallsTyped, NEW p \in Processes, NEW m \in Others(CallsOf(p)), Accumulate(p, m)
  PROVE  CallsTyped'
BY DEF Accumulate, CallsTyped

\* A control item that is due is one of the control items.
LEMMA DueTyped ==
  ASSUME CallsTyped, NEW p \in Processes, NEW due,
         Accumulated' = [Accumulated EXCEPT ![p] = @ \ due]
  PROVE  CallsTyped'
BY DEF CallsTyped

\* What the rings, the table and the codec have in common.
LEMMA ItemSets ==
  /\ FrameItems \subseteq CollatedItems /\ FrameItems \subseteq ParsedItems
  /\ FrameItems \subseteq CodedItems /\ FrameItems \subseteq DecodedItems
  /\ FrameItems \subseteq ManifestedItems
  /\ MarkerItems \subseteq CollatedItems /\ MarkerItems \subseteq ParsedItems
  /\ MarkerItems \subseteq CodedItems /\ MarkerItems \subseteq DecodedItems
  /\ MarkerItems \subseteq ManifestedItems
  /\ DroppedItems \subseteq CodedItems
  /\ Others({"jump"}) \subseteq CollatedItems
  /\ Others({"SwitchFrameParser"}) \subseteq CollatedItems
  /\ Others({"SwitchCodec"}) \subseteq ParsedItems
  /\ Others({"ResetTimeMapping"}) \subseteq DecodedItems
  /\ Others({"SwitchOutputTimer"}) \subseteq DecodedItems
  /\ Others({"SetDrained"}) \subseteq ManifestedItems
  /\ Others({"SwitchComplete"}) \subseteq ManifestedItems
BY DEF CollatedItems, ParsedItems, CodedItems, DecodedItems, ManifestedItems, Others

\* The marker the codec may hold is taken out of it.
LEMMA UnmarkedIs ==
  ASSUME NEW S, codec \in Seq(S)
  PROVE  \/ CodecUnmarked = codec /\ \A i \in DOMAIN codec : ~IsMarker(codec[i])
         \/ \E k \in 1 .. Len(codec) :
              /\ IsMarker(codec[k]) /\ CodecUnmarked \in Seq(S)
              /\ Len(CodecUnmarked) = Len(codec) - 1
              /\ \A i \in 1 .. Len(codec) - 1 :
                   CodecUnmarked[i] = IF i < k THEN codec[i] ELSE codec[i + 1]
<1>1. CASE ~ \E i \in DOMAIN codec : IsMarker(codec[i])
  BY <1>1 DEF CodecUnmarked
<1>2. CASE \E i \in DOMAIN codec : IsMarker(codec[i])
  <2> DEFINE k == CHOOSE i \in DOMAIN codec : IsMarker(codec[i])
  <2>1. k \in 1 .. Len(codec) /\ IsMarker(codec[k])  BY <1>2
  <2>2. CodecUnmarked = SubSeq(codec, 1, k - 1) \o SubSeq(codec, k + 1, Len(codec))
    BY <1>2 DEF CodecUnmarked, RemoveAt
  <2> HIDE DEF k
  <2> DEFINE a == SubSeq(codec, 1, k - 1)
             b == SubSeq(codec, k + 1, Len(codec))
  <2>3. \A i \in DOMAIN codec : codec[i] \in S  BY ElementOfSeq
  <2>5. a \in Seq(S) /\ Len(a) = k - 1 /\ \A i \in 1 .. k - 1 : a[i] = codec[i]
    BY <2>1, <2>3, SubSeqProperties
  <2>6. /\ b \in Seq(S) /\ Len(b) = Len(codec) - k
        /\ \A i \in 1 .. Len(codec) - k : b[i] = codec[i + k]
    <3>1. \A i \in k + 1 .. Len(codec) : codec[i] \in S  BY <2>1, <2>3
    <3>2. k + 1 \in Int /\ Len(codec) \in Int  BY <2>1
    <3>3. /\ b \in Seq(S) /\ Len(b) = IF k + 1 <= Len(codec) THEN Len(codec) - (k + 1) + 1 ELSE 0
          /\ \A i \in 1 .. Len(codec) - (k + 1) + 1 : b[i] = codec[(k + 1) + i - 1]
      BY <3>1, <3>2, SubSeqProperties
    <3> QED BY <3>3, <2>1
  <2> HIDE DEF a, b
  <2>7. /\ a \o b \in Seq(S) /\ Len(a \o b) = Len(a) + Len(b)
        /\ \A i \in 1 .. Len(a) + Len(b) : (a \o b)[i] = IF i <= Len(a) THEN a[i] ELSE b[i - Len(a)]
    BY <2>5, <2>6, ConcatProperties, Zenon
  <2>8. /\ a \o b \in Seq(S) /\ Len(a \o b) = Len(codec) - 1
        /\ \A i \in 1 .. Len(codec) - 1 :
             (a \o b)[i] = IF i < k THEN codec[i] ELSE codec[i + 1]
    BY <2>1, <2>5, <2>6, <2>7
  <2>9. CodecUnmarked = a \o b  BY <2>2 DEF a, b
  <2> QED BY <2>1, <2>8, <2>9
<1> QED BY <1>1, <1>2

-----------------------------------------------------------------------------
\* What a ring holds after an append and after an extract.
LEMMA AppendIs ==
  ASSUME NEW S, NEW s \in Seq(S), NEW e \in S
  PROVE  /\ Append(s, e) \in Seq(S) /\ Len(Append(s, e)) = Len(s) + 1
         /\ \A i \in 1 .. Len(s) : Append(s, e)[i] = s[i]
         /\ Append(s, e)[Len(s) + 1] = e
         /\ ToSet(Append(s, e)) = ToSet(s) \cup {e}
<1>1. /\ Append(s, e) \in Seq(S) /\ Len(Append(s, e)) = Len(s) + 1
      /\ \A i \in 1 .. Len(s) : Append(s, e)[i] = s[i]
      /\ Append(s, e)[Len(s) + 1] = e
  OBVIOUS
<1>2. DOMAIN s = 1 .. Len(s) /\ DOMAIN Append(s, e) = 1 .. Len(s) + 1 /\ Len(s) \in Nat
  BY <1>1
<1>3. ToSet(Append(s, e)) = ToSet(s) \cup {e}
  <2>1. ASSUME NEW m \in ToSet(Append(s, e)) PROVE m \in ToSet(s) \cup {e}
    <3>1. PICK i \in 1 .. Len(s) + 1 : m = Append(s, e)[i]  BY <1>2 DEF ToSet
    <3> QED BY <3>1, <1>1, <1>2 DEF ToSet
  <2>2. ASSUME NEW m \in ToSet(s) PROVE m \in ToSet(Append(s, e))
    <3>1. PICK i \in 1 .. Len(s) : m = s[i]  BY <1>2 DEF ToSet
    <3>2. i \in 1 .. Len(s) + 1 /\ m = Append(s, e)[i]  BY <3>1, <1>1, <1>2
    <3> QED BY <3>2, <1>2 DEF ToSet
  <2>3. e \in ToSet(Append(s, e))
    <3>1. Len(s) + 1 \in 1 .. Len(s) + 1  BY <1>2
    <3> QED BY <3>1, <1>1, <1>2 DEF ToSet
  <2> QED BY <2>1, <2>2, <2>3
<1> QED BY <1>1, <1>3

\* What is left of a ring when its first item is taken.
LEMMA TailIs ==
  ASSUME NEW S, NEW s \in Seq(S), s # <<>>
  PROVE  /\ Tail(s) \in Seq(S) /\ Len(Tail(s)) = Len(s) - 1 /\ Len(s) \in Nat \ {0}
         /\ \A i \in 1 .. Len(s) - 1 : Tail(s)[i] = s[i + 1]
         /\ Head(s) \in S /\ Head(s) = s[1] /\ Head(s) \in ToSet(s)
         /\ ToSet(Tail(s)) \subseteq ToSet(s)
         /\ ToSet(s) = ToSet(Tail(s)) \cup {Head(s)}
<1>1. /\ Tail(s) \in Seq(S) /\ Len(Tail(s)) = Len(s) - 1 /\ Len(s) \in Nat \ {0}
      /\ \A i \in 1 .. Len(s) - 1 : Tail(s)[i] = s[i + 1]
      /\ Head(s) \in S /\ Head(s) = s[1]
  OBVIOUS
<1>2. DOMAIN s = 1 .. Len(s) /\ DOMAIN Tail(s) = 1 .. Len(s) - 1  BY <1>1
<1>3. Head(s) \in ToSet(s)
  <2>1. 1 \in 1 .. Len(s)  BY <1>1
  <2> QED BY <2>1, <1>1, <1>2 DEF ToSet
<1>4. ASSUME NEW m \in ToSet(Tail(s)) PROVE m \in ToSet(s)
  <2>1. PICK i \in 1 .. Len(s) - 1 : m = Tail(s)[i]  BY <1>2 DEF ToSet
  <2>2. i + 1 \in 1 .. Len(s) /\ m = s[i + 1]  BY <1>1, <2>1
  <2> QED BY <2>2, <1>2 DEF ToSet
<1>5. ASSUME NEW m \in ToSet(s) PROVE m \in ToSet(Tail(s)) \cup {Head(s)}
  <2>1. PICK i \in 1 .. Len(s) : m = s[i]  BY <1>2 DEF ToSet
  <2>2. CASE i = 1  BY <2>1, <2>2, <1>1
  <2>3. CASE i # 1
    <3>1. i - 1 \in 1 .. Len(s) - 1  BY <2>1, <2>3, <1>1
    <3>2. m = Tail(s)[i - 1]  BY <3>1, <2>1, <1>1
    <3> QED BY <3>1, <3>2, <1>2 DEF ToSet
  <2> QED BY <2>2, <2>3
<1> QED BY <1>1, <1>3, <1>4, <1>5

\* The members of a sequence of items.
LEMMA MembersOf ==
  ASSUME NEW S, NEW s \in Seq(S)
  PROVE  /\ ToSet(s) \subseteq S /\ DOMAIN s = 1 .. Len(s) /\ Len(s) \in Nat
         /\ \A i \in 1 .. Len(s) : s[i] \in S /\ s[i] \in ToSet(s)
         /\ \A m \in ToSet(s) : \E i \in 1 .. Len(s) : m = s[i]
BY DEF ToSet
-----------------------------------------------------------------------------
\* The frame the loop takes out of the table is in the table.
LEMMA LowestIs ==
  ASSUME Known # {}, AccumulatedBufferTable \subseteq FrameItems,
         DisplayFrameIndex \in [Frames -> Nat]
  PROVE  /\ Lowest \in Known
         /\ \A o \in Known : DisplayFrameIndex[Lowest.id] <= DisplayFrameIndex[o.id]
<1> DEFINE S == {DisplayFrameIndex[m.id] : m \in Known}
<1>1. S \in SUBSET Nat /\ S # {}
  <2>1. ASSUME NEW m \in Known PROVE DisplayFrameIndex[m.id] \in Nat
    BY FrameIs DEF Known
  <2> QED BY <2>1
<1>2. Min(S) \in S /\ \A i \in S : Min(S) <= i  BY <1>1, MinIs
<1>3. PICK m \in Known : Min(S) = DisplayFrameIndex[m.id]  BY <1>2
<1>4. \A o \in Known : DisplayFrameIndex[m.id] <= DisplayFrameIndex[o.id]
  <2>1. ASSUME NEW o \in Known PROVE Min(S) <= DisplayFrameIndex[o.id]
    <3>1. DisplayFrameIndex[o.id] \in S  OBVIOUS
    <3> QED BY <3>1, <1>2
  <2> QED BY <2>1, <1>3
<1> HIDE DEF S
<1> QED BY <1>3, <1>4 DEF Lowest

\* What every step keeps of the rings.
LEMMA TypedStep == TypeInv /\ [Next]_vars => Typed'
<1> SUFFICES ASSUME TypeInv, [Next]_vars PROVE Typed'  OBVIOUS
<1>0. /\ collated \in 0 .. MaxFrames /\ DisplayFrameIndex \in [Frames -> 0 .. MaxFrames - 1 \cup {INVALID_INDEX}]
      /\ drain.n \in 0 .. MaxDrains /\ (drain.pc # "idle" => drain.n > 0)
      /\ DrainSequenceNumber \in Nat /\ NextBufferSequenceNumber \in Nat
  BY DEF TypeInv, Ranges, InputRanges, MessageRanges, ParseRanges, DrainRanges, Exchanges
<1> USE DEF TypeInv, Typed, rings, input, parse, dtom, msgs, drn
<1>1. ASSUME NEW isReference \in BOOLEAN, Collate(isReference) PROVE Typed'
  <2>1. collated' \in Frames
    <3>1. collated' = collated + 1 /\ collated < MaxFrames  BY <1>1 DEF Collate
    <3> QED BY <3>1, <1>0, Bounds
  <2>2. Item("frame", collated', 0) \in CollatedItems  BY <2>1, MadeItems, ItemSets
  <2>3. CollatedFrameRing' \in Seq(CollatedItems)  BY <1>1, <2>2, AppendIs DEF Collate
  <2> QED BY <1>1, <2>3 DEF Collate
<1>2. CASE CtoPMarker
  <2>1. Head(CollatedFrameRing) \in CollatedItems /\ Tail(CollatedFrameRing) \in Seq(CollatedItems)
    BY <1>2, TailIs DEF CtoPMarker
  <2>2. Head(CollatedFrameRing) \in ParsedItems
    BY <1>2, <2>1, CollatedIs, ItemSets DEF CtoPMarker
  <2>3. ParsedFrameRing' \in Seq(ParsedItems)  BY <1>2, <2>2, AppendIs DEF CtoPMarker
  <2> QED BY <1>2, <2>1, <2>3 DEF CtoPMarker
<1>3. CASE CtoPFrame
  <2> DEFINE h == Head(CollatedFrameRing)
             m == [h EXCEPT !.Value = NextBufferSequenceNumber]
  <2>1. h \in CollatedItems /\ Tail(CollatedFrameRing) \in Seq(CollatedItems)
    BY <1>3, TailIs DEF CtoPFrame
  <2>2. ParsedFrameRing' = ParsedFrameRing \/ (IsFrame(m) /\ ParsedFrameRing' = Append(ParsedFrameRing, m))
    BY <1>3 DEF CtoPFrame
  <2>3. ASSUME IsFrame(m) PROVE m \in ParsedItems
    <3>1. IsFrame(h)  BY <2>1, <2>3 DEF IsFrame, CollatedItems, FrameItems, MarkerItems, Others
    <3>2. m \in FrameItems  BY <3>1, <2>1, CollatedIs, FrameIs DEF Ranges, MessageRanges
    <3> QED BY <3>2, ItemSets
  <2>4. ParsedFrameRing' \in Seq(ParsedItems)
    <3> HIDE DEF m
    <3>1. CASE IsFrame(m) /\ ParsedFrameRing' = Append(ParsedFrameRing, m)
      BY <3>1, <2>3, AppendIs
    <3> QED BY <2>2, <3>1
  <2> QED BY <1>3, <2>1, <2>4 DEF CtoPFrame
<1>4. CASE CtoPControl
  BY <1>4, TailIs DEF CtoPControl
<1>5. CASE CtoPSwitch
  BY <1>5 DEF CtoPSwitch
<1>6. CASE PtoDExtract
  <2>1. Head(ParsedFrameRing) \in ParsedItems /\ Tail(ParsedFrameRing) \in Seq(ParsedItems)
    BY <1>6, TailIs DEF PtoDExtract
  <2>2. PtoDBuffer' \in FrameItems \cup MarkerItems  BY <1>6, <2>1, ParsedIs DEF PtoDExtract
  <2> QED BY <1>6, <2>1, <2>2 DEF PtoDExtract
<1>7. CASE PtoDPass
  <2>1. PtoDBuffer \in CodedItems  BY <1>7, ItemSets DEF PtoDPass
  <2>2. CodecUnmarked \in Seq(CodedItems)  BY UnmarkedIs
  <2>3. (IF IsMarker(PtoDBuffer) THEN CodecUnmarked ELSE codec) \in Seq(CodedItems)  BY <2>2
  <2>4. codec' \in Seq(CodedItems)  BY <1>7, <2>1, <2>3, AppendIs DEF PtoDPass
  <2> QED BY <1>7, <2>4 DEF PtoDPass
<1>8. CASE PtoDDiscard
  BY <1>8 DEF PtoDDiscard
<1>9. CASE PtoDControl
  BY <1>9, TailIs DEF PtoDControl
<1>10. CASE PtoDSwitch
  BY <1>10 DEF PtoDSwitch
<1>11. CASE CodecOutput
  <2>1. Head(codec) \in CodedItems /\ Tail(codec) \in Seq(CodedItems)
    BY <1>11, TailIs DEF CodecOutput
  <2>2. Head(codec).kind # "dropped" => Head(codec) \in DecodedItems
    BY <2>1, CodedIs, ItemSets
  <2>3. DecodedFrameRing' \in Seq(DecodedItems)  BY <1>11, <2>2, AppendIs DEF CodecOutput
  <2> QED BY <1>11, <2>1, <2>3 DEF CodecOutput
<1>12. CASE DtoMSelect
  <2>1. Lowest \in FrameItems
    <3>1. Known # {}  BY <1>12 DEF DtoMSelect, Selectable
    <3>2. DisplayFrameIndex \in [Frames -> Nat]  BY <1>0, Bounds
    <3>3. Lowest \in Known  BY <3>1, <3>2, LowestIs
    <3> QED BY <3>3 DEF Known
  <2> QED BY <1>12, <2>1 DEF DtoMSelect, TakeFrame
<1>13. CASE DtoMMarker
  <2>1. MarkerFrameBuffer \in MarkerItems  BY <1>13, NothingIs DEF DtoMMarker
  <2>2. ManifestedBufferRing' \in Seq(ManifestedItems)
    BY <1>13, <2>1, ItemSets, AppendIs DEF DtoMMarker
  <2> QED BY <1>13, <2>2 DEF DtoMMarker
<1>14. CASE DtoMExtract
  <2> DEFINE m == Head(DecodedFrameRing)
  <2>1. m \in DecodedItems /\ Tail(DecodedFrameRing) \in Seq(DecodedItems)
    BY <1>14, TailIs DEF DtoMExtract
  <2>2. (IsFrame(m) => m \in FrameItems) /\ (IsMarker(m) => m \in MarkerItems)  BY <2>1, DecodedIs
  <2>3. /\ MarkerFrameBuffer' = MarkerFrameBuffer \/ (IsMarker(m) /\ MarkerFrameBuffer' = m)
        /\ DtoMBuffer' = DtoMBuffer \/ (IsFrame(m) /\ DtoMBuffer' = m)
        /\ \/ AccumulatedBufferTable' = AccumulatedBufferTable
           \/ IsFrame(m) /\ AccumulatedBufferTable' = AccumulatedBufferTable \cup {m}
    BY <1>14 DEF DtoMExtract, TakeFrame
  <2>4. /\ DecodedFrameRing' = Tail(DecodedFrameRing)
        /\ UNCHANGED <<CollatedFrameRing, ParsedFrameRing, ManifestedBufferRing, PtoDBuffer,
                       codec, manifestor>>
    BY <1>14 DEF DtoMExtract
  <2> HIDE DEF m
  <2> QED BY <2>1, <2>2, <2>3, <2>4
<1>15. CASE DtoMTimeout
  BY <1>15 DEF DtoMTimeout
<1>16. CASE DtoMManifest
  <2>1. manifestor' \in Seq(FrameItems)  BY <1>16, AppendIs DEF DtoMManifest
  <2> QED BY <1>16, <2>1 DEF DtoMManifest
<1>17. CASE DtoMDiscard
  BY <1>17 DEF DtoMDiscard
<1>18. CASE Manifest
  <2>1. Head(manifestor) \in FrameItems /\ Tail(manifestor) \in Seq(FrameItems)
    BY <1>18, TailIs DEF Manifest
  <2>2. ManifestedBufferRing' \in Seq(ManifestedItems)
    BY <1>18, <2>1, ItemSets, AppendIs DEF Manifest
  <2> QED BY <1>18, <2>1, <2>2 DEF Manifest
<1>19. CASE PostMExtract
  BY <1>19, TailIs DEF PostMExtract
<1>20. ASSUME NEW policy \in Policies, DrainBegin(policy) PROVE Typed'
  BY <1>20 DEF DrainBegin
<1>21. CASE DrainJump
  <2>1. Item("jump", None, 0) \in CollatedItems  BY MadeItems, ItemSets
  <2>2. CollatedFrameRing' \in Seq(CollatedItems)  BY <1>21, <2>1, AppendIs DEF DrainJump
  <2> QED BY <1>21, <2>2 DEF DrainJump
<1>22. CASE DrainCodec
  <2>1. ASSUME NEW i \in DOMAIN codec PROVE codec'[i] \in CodedItems
    BY <1>22, CodedIs, FrameIs, ItemSets DEF DrainCodec
  <2>2. codec' = [i \in 1 .. Len(codec) |-> codec'[i]] /\ Len(codec) \in Nat  BY <1>22 DEF DrainCodec
  <2>3. codec' \in [1 .. Len(codec) -> CodedItems]  BY <2>1, <2>2
  <2>4. codec' \in Seq(CodedItems)  BY <2>2, <2>3, SeqDef, Zenon
  <2> QED BY <1>22, <2>4 DEF DrainCodec
<1>23. CASE DrainRelease
  <2>1. Len(manifestor) \in Nat  OBVIOUS
  <2>2. Min({1, Len(manifestor)}) \in Nat /\ Min({1, Len(manifestor)}) <= Len(manifestor)
    <3>1. Min({1, Len(manifestor)}) = IF 1 <= Len(manifestor) THEN 1 ELSE Len(manifestor)
      BY <2>1, 1 \in Nat, MinOfTwo, Zenon
    <3> QED BY <3>1, <2>1
  <2>3. PICK shown \in 0 .. Len(manifestor) :
          /\ manifestor' = SubSeq(manifestor, 1, shown)
          /\ ManifestedBufferRing' =
               ManifestedBufferRing \o SubSeq(manifestor, shown + 1, Len(manifestor))
    <3>1. 0 .. Min({1, Len(manifestor)}) \subseteq 0 .. Len(manifestor)  BY <2>1, <2>2
    <3> QED BY <1>23, <3>1 DEF DrainRelease
  <2>4. SubSeq(manifestor, 1, shown) \in Seq(FrameItems)
    BY <2>1, <2>3, SubSeqProperties, ElementOfSeq
  <2>5. SubSeq(manifestor, shown + 1, Len(manifestor)) \in Seq(FrameItems)
    BY <2>1, <2>3, SubSeqProperties, ElementOfSeq
  <2>6. SubSeq(manifestor, shown + 1, Len(manifestor)) \in Seq(ManifestedItems)
    BY <2>5, ItemSets
  <2>7. ManifestedBufferRing' \in Seq(ManifestedItems)  BY <2>3, <2>6, ConcatProperties
  <2> QED BY <1>23, <2>3, <2>4, <2>7 DEF DrainRelease
<1>24. CASE DrainCheck
  BY <1>24 DEF DrainCheck
<1>25. CASE DrainNumber
  BY <1>25 DEF DrainNumber
<1>26. CASE DrainInsert
  <2>1. drain.n \in Markers  
    <3>1. drain.pc = "insert"  BY <1>26 DEF DrainInsert, At
    <3> QED BY <3>1, <1>0, Bounds
  <2>2. Item("marker", drain.n, DrainSequenceNumber) \in CollatedItems
    BY <2>1, MadeItems, ItemSets DEF Ranges, MessageRanges
  <2>3. CollatedFrameRing' \in Seq(CollatedItems)  BY <1>26, <2>2, AppendIs DEF DrainInsert
  <2> QED BY <1>26, <2>3 DEF DrainInsert
<1>27. CASE DrainCallBefore
  <2>1. Item("ResetTimeMapping", None, DrainSequenceNumber) \in DecodedItems
    BY MadeItems, ItemSets DEF Ranges, MessageRanges, BeforeCalls
  <2>2. DecodedFrameRing' \in Seq(DecodedItems)  BY <1>27, <2>1, AppendIs DEF DrainCallBefore
  <2> QED BY <1>27, <2>2 DEF DrainCallBefore
<1>28. CASE DrainCallAfter
  <2>1. Item("SetDrained", None, DrainSequenceNumber) \in ManifestedItems
    BY MadeItems, ItemSets DEF Ranges, MessageRanges, AfterCalls
  <2>2. ManifestedBufferRing' \in Seq(ManifestedItems)  BY <1>28, <2>1, AppendIs DEF DrainCallAfter
  <2> QED BY <1>28, <2>2 DEF DrainCallAfter
<1>29. CASE SwitchCollator
  BY <1>29 DEF SwitchCollator
<1>30. CASE SwitchCalls
  <2>1. /\ Item("SwitchFrameParser", None, SwitchNumber) \in CollatedItems
        /\ Item("SwitchCodec", None, SwitchNumber) \in ParsedItems
        /\ Item("SwitchOutputTimer", None, SwitchNumber) \in DecodedItems
    BY MadeItems, ItemSets DEF Ranges, MessageRanges, AfterCalls, SwitchNumber
  <2>2. Item("SwitchComplete", None, CompleteNumber) \in ManifestedItems
    <3>1. CompleteNumber \in Nat  BY <1>0 DEF CompleteNumber
    <3> QED BY <3>1, MadeItems, ItemSets DEF BeforeCalls
  <2>3. /\ CollatedFrameRing' \in Seq(CollatedItems) /\ ParsedFrameRing' \in Seq(ParsedItems)
        /\ DecodedFrameRing' \in Seq(DecodedItems)
        /\ ManifestedBufferRing' \in Seq(ManifestedItems)
    <3>1. /\ Append(CollatedFrameRing, Item("SwitchFrameParser", None, SwitchNumber)) \in Seq(CollatedItems)
          /\ Append(ParsedFrameRing, Item("SwitchCodec", None, SwitchNumber)) \in Seq(ParsedItems)
          /\ Append(DecodedFrameRing, Item("SwitchOutputTimer", None, SwitchNumber)) \in Seq(DecodedItems)
          /\ Append(ManifestedBufferRing, Item("SwitchComplete", None, CompleteNumber)) \in Seq(ManifestedItems)
      BY <2>1, <2>2, AppendIs
    <3> QED BY <1>30, <3>1 DEF SwitchCalls
  <2> QED BY <1>30, <2>3 DEF SwitchCalls
<1>31. CASE DrainReturn
  BY <1>31 DEF DrainReturn
<1>32. CASE DrainGiveUp
  BY <1>32 DEF DrainGiveUp
<1>33. CASE UNCHANGED vars
  BY <1>33 DEF vars
<1> QED BY <1>1, <1>2, <1>3, <1>4, <1>5, <1>6, <1>7, <1>8, <1>9, <1>10, <1>11, <1>12, <1>13, <1>14, <1>15, <1>16, <1>17, <1>18, <1>19, <1>20, <1>21, <1>22, <1>23, <1>24, <1>25, <1>26, <1>27, <1>28, <1>29, <1>30, <1>31, <1>32, <1>33 DEF Next, CtoP, PtoD, DtoMLoop, DtoMInHand, Drain
-----------------------------------------------------------------------------
\* What each process may take in.
LEMMA CallsOfIs ==
  /\ CallsOf("CtoP") = {"SwitchFrameParser"} /\ CallsOf("PtoD") = {"SwitchCodec"}
  /\ CallsOf("DtoM") = {"ResetTimeMapping", "SwitchOutputTimer"}
  /\ CallsOf("PostM") = {"SetDrained", "SwitchComplete"}
  /\ {"CtoP", "PtoD", "DtoM", "PostM"} \subseteq Processes
BY DEF CallsOf, Processes

\* Every step keeps the types of the calls in progress.
LEMMA CallsStep == TypeInv /\ [Next]_vars => CallsTyped'
<1> SUFFICES ASSUME TypeInv, [Next]_vars PROVE CallsTyped'  OBVIOUS
<1>0. CallsTyped /\ Typed  BY DEF TypeInv
<1>1. CASE UNCHANGED Accumulated  BY <1>0, <1>1 DEF CallsTyped
<1>2. CASE CtoPMarker  BY <1>0, <1>2, DueTyped, CallsOfIs DEF CtoPMarker
<1>3. CASE CtoPControl
  <2>1. Head(CollatedFrameRing) \in Others(CallsOf("CtoP"))
    BY <1>0, <1>3, TailIs, CollatedIs, CallsOfIs DEF CtoPControl, Typed
  <2> QED BY <2>1, <1>0, <1>1, <1>3, AccumulateTyped, CallsOfIs DEF CtoPControl
<1>4. CASE PtoDPass \/ PtoDDiscard
  BY <1>0, <1>4, DueTyped, CallsOfIs DEF PtoDPass, PtoDDiscard, PtoDCallsAfter
<1>5. CASE PtoDControl
  <2>1. Head(ParsedFrameRing) \in Others(CallsOf("PtoD"))
    BY <1>0, <1>5, TailIs, ParsedIs, CallsOfIs DEF PtoDControl, Typed
  <2> QED BY <2>1, <1>0, <1>1, <1>5, AccumulateTyped, CallsOfIs DEF PtoDControl
<1>6. CASE DtoMSelect
  BY <1>0, <1>6, DueTyped, CallsOfIs DEF DtoMSelect, TakeFrame
<1>7. CASE DtoMMarker
  BY <1>0, <1>7, DueTyped, CallsOfIs DEF DtoMMarker
<1>8. CASE DtoMExtract
  <2> DEFINE m == Head(DecodedFrameRing)
  <2>1. IsControl(m) => m \in Others(CallsOf("DtoM"))
    BY <1>0, <1>8, TailIs, DecodedIs, CallsOfIs DEF DtoMExtract, Typed
  <2>2. \/ UNCHANGED Accumulated
        \/ IsControl(m) /\ Accumulate("DtoM", m)
        \/ Accumulated' = [Accumulated EXCEPT !["DtoM"] = @ \ Due("DtoM", Number(m), BeforeCalls)]
    BY <1>8 DEF DtoMExtract, TakeFrame, msgs
  <2> HIDE DEF m
  <2>3. CASE IsControl(m) /\ Accumulate("DtoM", m)
    BY <2>1, <2>3, <1>0, AccumulateTyped, CallsOfIs
  <2>4. CASE Accumulated' = [Accumulated EXCEPT !["DtoM"] = @ \ Due("DtoM", Number(m), BeforeCalls)]
    BY <2>4, <1>0, DueTyped, CallsOfIs
  <2> QED BY <2>2, <2>3, <2>4, <1>1
<1>9. CASE DtoMManifest \/ DtoMDiscard
  BY <1>0, <1>9, DueTyped, CallsOfIs DEF DtoMManifest, DtoMDiscard, DtoMCallsAfter
<1>10. CASE PostMExtract
  <2> DEFINE m == Head(ManifestedBufferRing)
             due == Due("PostM", m.Value, BeforeCalls \cup AfterCalls)
  <2>1. IsControl(m) => m \in Others(CallsOf("PostM"))
    BY <1>0, <1>10, TailIs, ManifestedIs, CallsOfIs DEF PostMExtract, Typed
  <2>2. \/ UNCHANGED Accumulated
        \/ IsControl(m) /\ Accumulate("PostM", m)
        \/ Accumulated' = [Accumulated EXCEPT !["PostM"] = @ \ due]
    BY <1>10 DEF PostMExtract
  <2> HIDE DEF m, due
  <2>3. CASE IsControl(m) /\ Accumulate("PostM", m)
    BY <2>1, <2>3, <1>0, AccumulateTyped, CallsOfIs
  <2>4. CASE Accumulated' = [Accumulated EXCEPT !["PostM"] = @ \ due]
    BY <2>4, <1>0, DueTyped, CallsOfIs
  <2> QED BY <2>2, <2>3, <2>4, <1>1
<1>11. ASSUME NEW isReference \in BOOLEAN, Collate(isReference) PROVE UNCHANGED Accumulated
  BY <1>11 DEF Collate, msgs
<1>12. CASE CtoPFrame \/ CtoPSwitch \/ PtoDExtract \/ PtoDSwitch \/ CodecOutput \/ DtoMTimeout \/ Manifest
  BY <1>12, <1>1 DEF CtoPFrame, CtoPSwitch, PtoDExtract, PtoDSwitch, CodecOutput, DtoMTimeout,
     Manifest, msgs
<1>13. ASSUME NEW policy \in Policies, DrainBegin(policy) PROVE UNCHANGED Accumulated
  BY <1>13 DEF DrainBegin, msgs
<1>14. CASE Drain \/ DrainGiveUp
  BY <1>14, <1>1 DEF Drain, DrainJump, DrainCodec, DrainRelease, DrainCheck, DrainNumber, DrainInsert,
     DrainCallBefore, DrainCallAfter, SwitchCollator, SwitchCalls, DrainReturn, DrainGiveUp, msgs
<1>15. CASE UNCHANGED vars  BY <1>15, <1>1 DEF vars, msgs
<1> QED BY <1>1, <1>2, <1>3, <1>4, <1>5, <1>6, <1>7, <1>8, <1>9, <1>10, <1>11, <1>12, <1>13, <1>14, <1>15
        DEF Next, CtoP, PtoD, DtoMLoop, DtoMInHand
-----------------------------------------------------------------------------
\* What parsing does to the indices: an index once known stays known.
StaysIndexed == \A g \in Frames : DisplayFrameIndex[g] # INVALID_INDEX => DisplayFrameIndex'[g] # INVALID_INDEX

\* Numbering a frame gives it a display index and keeps the type of the deferred one.
LEMMA CalculateIs ==
  ASSUME ParseRanges, NEW f \in Frames, parser.NextDisplayFrameIndex < MaxFrames,
         NEW g \in Frames \cup {None}, NEW c \in BOOLEAN,
         CalculateFrameIndex(f), NextIndex(g, c)
  PROVE  /\ ParseRanges' /\ StaysIndexed
         /\ parser'.deferred = g
         /\ parser'.NextDisplayFrameIndex = parser.NextDisplayFrameIndex + 1
<1>1. parser.NextDisplayFrameIndex \in 0 .. MaxFrames - 1 /\ parser.NextDisplayFrameIndex # INVALID_INDEX
  BY Bounds DEF ParseRanges
<1>2. parser.NextDisplayFrameIndex + 1 \in 0 .. MaxFrames  BY <1>1, Bounds
<1>3. parser' \in [deferred : Frames \cup {None}, collapse : BOOLEAN,
                 NextDisplayFrameIndex : 0 .. MaxFrames]
  BY <1>2 DEF NextIndex
<1>4. DisplayFrameIndex' \in [Frames -> 0 .. MaxFrames - 1 \cup {INVALID_INDEX}]
  BY <1>1 DEF CalculateFrameIndex, ParseRanges
<1>5. CollapseHolesInDisplayIndices' \in [Frames -> BOOLEAN]
  BY DEF CalculateFrameIndex, ParseRanges
<1>6. StaysIndexed  BY <1>1 DEF CalculateFrameIndex, ParseRanges, StaysIndexed
<1> QED BY <1>3, <1>4, <1>5, <1>6 DEF ParseRanges, NextIndex

\* Parsing a frame keeps the types of what the parser holds.
LEMMA ParseTyped ==
  ASSUME ParseRanges, NEW limit \in 0 .. MaxFrames, Given <= limit
  PROVE  /\ \A f \in Frames : Given < f /\ f <= limit /\ ParseFrame(f) =>
              ParseRanges' /\ StaysIndexed /\ Given' <= f
         /\ ParseJump \/ ParsePurge => ParseRanges' /\ StaysIndexed /\ Given' <= Given
<1>0. parser.NextDisplayFrameIndex \in Nat /\ parser.deferred \in Frames \cup {None}
  BY Bounds DEF ParseRanges
<1>1. ASSUME UNCHANGED parse
      PROVE ParseRanges' /\ StaysIndexed /\ Given' = Given
  BY <1>1 DEF parse, ParseRanges, StaysIndexed, Given
<1>2. ASSUME NEW f \in Frames, Given < f, f <= limit, ParseFrame(f)
      PROVE  ParseRanges' /\ StaysIndexed /\ Given' <= f
  <2>1. parser.NextDisplayFrameIndex < MaxFrames /\ parser.NextDisplayFrameIndex + 1 <= f
    BY <1>0, <1>2, Bounds DEF Given
  <2>2. CASE ~reference[f]
    <3>1. CalculateFrameIndex(f) /\ NextIndex(parser.deferred, FALSE)  BY <1>2, <2>2 DEF ParseFrame
    <3>2. /\ ParseRanges' /\ StaysIndexed /\ parser'.deferred = parser.deferred
          /\ parser'.NextDisplayFrameIndex = parser.NextDisplayFrameIndex + 1
      BY <3>1, <2>1, <1>0, CalculateIs
    <3> QED BY <3>2, <1>0, <1>2, Bounds DEF Given
  <2>3. CASE reference[f] /\ parser.deferred # None
    <3>1. CalculateFrameIndex(parser.deferred) /\ NextIndex(f, FALSE)  BY <1>2, <2>3 DEF ParseFrame
    <3>2. /\ ParseRanges' /\ StaysIndexed /\ parser'.deferred = f
          /\ parser'.NextDisplayFrameIndex = parser.NextDisplayFrameIndex + 1
      BY <3>1, <2>1, <2>3, <1>0, CalculateIs
    <3> QED BY <3>2, <1>0, <1>2, <2>3, Bounds DEF Given
  <2>4. CASE reference[f] /\ parser.deferred = None
    <3>1. /\ parser' = [parser EXCEPT !.deferred = f]
          /\ UNCHANGED <<DisplayFrameIndex, CollapseHolesInDisplayIndices>>
      BY <1>2, <2>4 DEF ParseFrame
    <3>2. ParseRanges' /\ StaysIndexed  BY <3>1 DEF ParseRanges, StaysIndexed
    <3>3. parser'.NextDisplayFrameIndex = parser.NextDisplayFrameIndex  BY <3>1 DEF ParseRanges
    <3> QED BY <3>2, <3>3, <2>1, <1>0, Bounds DEF Given
  <2> QED BY <2>2, <2>3, <2>4
<1>3. ASSUME ParseJump \/ ParsePurge
      PROVE  ParseRanges' /\ StaysIndexed /\ Given' <= Given
  <2>1. CASE parser.deferred = None
    <3>1. \/ UNCHANGED parse
          \/ /\ parser' = [parser EXCEPT !.collapse = TRUE]
             /\ UNCHANGED <<DisplayFrameIndex, CollapseHolesInDisplayIndices>>
      BY <1>3, <2>1 DEF ParseJump, ParsePurge
    <3>2. CASE /\ parser' = [parser EXCEPT !.collapse = TRUE]
               /\ UNCHANGED <<DisplayFrameIndex, CollapseHolesInDisplayIndices>>
      <4>1. ParseRanges' /\ StaysIndexed  BY <3>2 DEF ParseRanges, StaysIndexed
      <4>2. Given' = Given  BY <3>2 DEF ParseRanges, Given
      <4> QED BY <4>1, <4>2, <1>0 DEF Given
    <3> QED BY <3>1, <3>2, <1>1, <1>0 DEF Given
  <2>2. CASE parser.deferred # None
    <3>1. PICK c \in BOOLEAN : CalculateFrameIndex(parser.deferred) /\ NextIndex(None, c)
      BY <1>3, <2>2 DEF ParseJump, ParsePurge
    <3>2. parser.NextDisplayFrameIndex < MaxFrames  BY <2>2, <1>0, Bounds DEF Given
    <3>3. /\ ParseRanges' /\ StaysIndexed /\ parser'.deferred = None
          /\ parser'.NextDisplayFrameIndex = parser.NextDisplayFrameIndex + 1
      BY <3>1, <3>2, <2>2, <1>0, CalculateIs
    <3> QED BY <3>3, <2>2, <1>0 DEF Given
  <2> QED BY <2>1, <2>2
<1> QED BY <1>2, <1>3

-----------------------------------------------------------------------------
\* What stepping over non-decoded frames does: the desired index only grows,
\* every index it passes is noted or below the collapse, and what is noted has
\* an index.
Indexed == {f \in NonDecoded.held : DisplayFrameIndex[f] # INVALID_INDEX}
Noted   == NonDecoded.released \cup Indexed
Collapse == Max({NonDecoded.DisplayIndicesCollapse} \cup
                 {DisplayFrameIndex[f] : f \in {g \in Indexed :
                     \/ DiscardingUntilMarkerFrame["DtoM"]
                     \/ CollapseHolesInDisplayIndices[g]}})

\* The index reached by skipping the collapsed ones is a number.
LEMMA SkipIs ==
  ASSUME ParseRanges, ReorderRanges,
         \A f \in NonDecoded.released : DisplayFrameIndex[f] # INVALID_INDEX
  PROVE  /\ SkipNonDecoded.desired \in DesiredFrameIndex .. MaxFrames
         /\ Collapse \in NonDecoded.DisplayIndicesCollapse .. MaxFrames
         /\ \/ Collapse = NonDecoded.DisplayIndicesCollapse
            \/ \E g \in Indexed : /\ Collapse = DisplayFrameIndex[g]
                                  /\ \/ DiscardingUntilMarkerFrame["DtoM"]
                                     \/ CollapseHolesInDisplayIndices[g]
         /\ \A d \in DesiredFrameIndex .. SkipNonDecoded.desired - 1 :
              d < Collapse \/ \E f \in Noted : d = DisplayFrameIndex[f]
         /\ SkipNonDecoded.table =
              [released |-> {f \in Noted : DisplayFrameIndex[f] > SkipNonDecoded.desired},
               held |-> NonDecoded.held \ Indexed, DisplayIndicesCollapse |-> Collapse]
<1> DEFINE above == {DisplayFrameIndex[f] : f \in {g \in Indexed :
                       \/ DiscardingUntilMarkerFrame["DtoM"]
                       \/ CollapseHolesInDisplayIndices[g]}}
           indices == {DisplayFrameIndex[f] : f \in Noted}
           free == {d \in DesiredFrameIndex .. DesiredFrameIndex + Collapse + MaxFrames :
                      d \notin indices /\ d >= Collapse}
           desired == IF Noted \cup NonDecoded.held = {} THEN DesiredFrameIndex ELSE Min(free)
<1>1. SkipNonDecoded =
        [desired |-> desired,
         table   |-> [released |-> {f \in Noted : DisplayFrameIndex[f] > desired},
                      held |-> NonDecoded.held \ Indexed, DisplayIndicesCollapse |-> Collapse]]
  BY DEF SkipNonDecoded, Noted, Indexed, Collapse
<1>2. Noted \subseteq Frames /\ \A f \in Noted : DisplayFrameIndex[f] \in 0 .. MaxFrames - 1
  <2>1. NonDecoded.released \subseteq Frames /\ Indexed \subseteq Frames
    BY DEF ReorderRanges, Indexed
  <2>2. \A f \in Noted : DisplayFrameIndex[f] # INVALID_INDEX  BY DEF Noted, Indexed
  <2> QED BY <2>1, <2>2 DEF ParseRanges, Noted
<1>3. /\ NonDecoded.DisplayIndicesCollapse \in 0 .. MaxFrames /\ DesiredFrameIndex \in 0 .. MaxFrames
  BY DEF ReorderRanges
<1>4. above \subseteq 0 .. MaxFrames - 1  BY <1>2 DEF Noted
<1>5. /\ Collapse \in NonDecoded.DisplayIndicesCollapse .. MaxFrames
      /\ Collapse \in {NonDecoded.DisplayIndicesCollapse} \cup above
  <2> DEFINE S == {NonDecoded.DisplayIndicesCollapse} \cup above
  <2>1. S \in SUBSET Nat /\ S # {} /\ \A m \in S : m <= MaxFrames
    <3> HIDE DEF above
    <3>1. above \subseteq Nat /\ \A m \in above : m <= MaxFrames  BY <1>4, Bounds
    <3>2. NonDecoded.DisplayIndicesCollapse \in Nat /\ NonDecoded.DisplayIndicesCollapse <= MaxFrames
      BY <1>3, Bounds
    <3> QED BY <3>1, <3>2
  <2>2. NonDecoded.DisplayIndicesCollapse \in S  OBVIOUS
  <2>3. Collapse = Max(S)  BY DEF Collapse
  <2> HIDE DEF S
  <2>4. Max(S) \in S /\ \A m \in S : m <= Max(S)  BY <2>1, Bounds, MaxIs
  <2>5. Collapse \in NonDecoded.DisplayIndicesCollapse .. MaxFrames  BY <2>1, <2>2, <2>3, <2>4, <1>3
  <2> QED BY <2>3, <2>4, <2>5 DEF S
<1> HIDE DEF above
<1>6. \/ Collapse = NonDecoded.DisplayIndicesCollapse
      \/ \E g \in Indexed : /\ Collapse = DisplayFrameIndex[g]
                            /\ \/ DiscardingUntilMarkerFrame["DtoM"]
                               \/ CollapseHolesInDisplayIndices[g]
  BY <1>5 DEF above
<1>7. indices \subseteq 0 .. MaxFrames - 1  BY <1>2
<1>8. /\ free \in SUBSET Nat /\ free # {} /\ MaxFrames \in free
  <2>1. MaxFrames \notin indices
    <3> HIDE DEF indices
    <3> QED BY <1>7, Bounds
  <2>2. MaxFrames \in DesiredFrameIndex .. DesiredFrameIndex + Collapse + MaxFrames
    BY <1>3, <1>5, Bounds
  <2> HIDE DEF indices
  <2>3. MaxFrames \in free  BY <2>1, <2>2, <1>5, <1>3, Bounds
  <2>4. free \in SUBSET Nat  BY <1>3, <1>5, Bounds
  <2> QED BY <2>3, <2>4
<1>9. Min(free) \in free /\ \A d \in free : Min(free) <= d
  <2> HIDE DEF free
  <2> QED BY <1>8, MinIs
<1>10. desired \in DesiredFrameIndex .. MaxFrames
  <2>1. Min(free) \in DesiredFrameIndex .. DesiredFrameIndex + Collapse + MaxFrames  BY <1>9
  <2>2. Min(free) <= MaxFrames  BY <1>8, <1>9
  <2> HIDE DEF free
  <2> QED BY <2>1, <2>2, <1>3, <1>5, Bounds
<1>11. ASSUME NEW d \in DesiredFrameIndex .. desired - 1
       PROVE  d < Collapse \/ \E f \in Noted : d = DisplayFrameIndex[f]
  <2>1. desired = Min(free) /\ d \in Nat /\ d < Min(free)
    BY <1>3, <1>10, <1>9, <1>8 DEF free
  <2>2. d \notin free  BY <2>1, <1>9, <1>8 DEF free
  <2>3. d \in DesiredFrameIndex .. DesiredFrameIndex + Collapse + MaxFrames
    BY <2>1, <1>10, <1>3, <1>5, Bounds
  <2>4. d \in indices \/ ~(d >= Collapse)  BY <2>2, <2>3
  <2> QED BY <2>4, <2>1, <1>3, <1>5
<1> HIDE DEF desired
<1> QED BY <1>1, <1>5, <1>6, <1>10, <1>11
-----------------------------------------------------------------------------
\* The ranges of what the collator, the messages, the drain and the switch keep.
LEMMA DueIs ==
  ASSUME NEW p, NEW v, NEW calls
  PROVE  Due(p, v, calls) \subseteq Accumulated[p]
BY DEF Due

\* A number that is seen.
LEMMA SeeIs ==
  ASSUME MaximumActualSequenceNumberSeen \in [Processes -> Nat], NEW p \in Processes,
         NEW v \in Nat, See(p, v)
  PROVE  /\ MaximumActualSequenceNumberSeen' \in [Processes -> Nat]
         /\ MaximumActualSequenceNumberSeen'[p] =
              IF MaximumActualSequenceNumberSeen[p] >= v
              THEN MaximumActualSequenceNumberSeen[p] ELSE v
         /\ \A q \in Processes \ {p} :
              MaximumActualSequenceNumberSeen'[q] = MaximumActualSequenceNumberSeen[q]
<1>1. MaximumActualSequenceNumberSeen[p] \in Nat  OBVIOUS
<1>2. Max({MaximumActualSequenceNumberSeen[p], v}) =
        IF MaximumActualSequenceNumberSeen[p] >= v THEN MaximumActualSequenceNumberSeen[p] ELSE v
  BY <1>1, MaxOfTwo, Zenon
<1> QED BY <1>1, <1>2 DEF See

\* The value a mapping is reset with.
LEMMA ResetIs ==
  ASSUME mappingReset \in Nat, NEW S, \A m \in S : m.Value \in Nat, NEW b \in Nat,
         \A m \in S : m.Value <= b
  PROVE  /\ Max({mappingReset} \cup ResetTimes(S)) \in Nat
         /\ \/ Max({mappingReset} \cup ResetTimes(S)) = mappingReset
            \/ \E m \in S : /\ m.kind = "ResetTimeMapping"
                            /\ Max({mappingReset} \cup ResetTimes(S)) = m.Value
<1> DEFINE T == {mappingReset} \cup ResetTimes(S)
<1>1. T \in SUBSET Nat /\ T # {} /\ mappingReset + b \in Nat /\ \A m \in T : m <= mappingReset + b
  BY DEF ResetTimes
<1>2. Max(T) \in T
  <2> HIDE DEF T
  <2> QED BY <1>1, MaxIs
<1>3. Max(T) \in Nat  BY <1>1, <1>2
<1> QED BY <1>2, <1>3 DEF ResetTimes
\* The number of what is taken out of a ring or held in hand is a number.
LEMMA NumberIs ==
  ASSUME AccumulatedBufferTable \subseteq FrameItems, NEW m, m.Value \in Nat
  PROVE  /\ Number(m) \in Nat /\ Number(m) <= m.Value
         /\ \A o \in AccumulatedBufferTable : Number(m) <= o.Value
<1> DEFINE S == {m.Value} \cup {o.Value : o \in AccumulatedBufferTable}
<1>1. S \in SUBSET Nat /\ S # {}  BY FrameIs
<1>2. Min(S) \in S /\ \A v \in S : Min(S) <= v
  <2> HIDE DEF S
  <2> QED BY <1>1, MinIs
<1>3. Number(m) = Min(S)  BY DEF Number
<1> QED BY <1>1, <1>2, <1>3

\* What ParseToDecode and DecodeToManifest do to the variables of the
\* reordering.
LEMMA RecordIs ==
  ASSUME ParseRanges, ReorderRanges, MessageRanges, NEW f \in Frames, RecordNonDecodedFrame(f)
  PROVE  /\ NonDecoded' \in [released : SUBSET Frames, held : SUBSET Frames,
                             DisplayIndicesCollapse : 0 .. MaxFrames]
         /\ \/ NonDecoded' = NonDecoded
            \/ /\ DisplayFrameIndex[f] = INVALID_INDEX
               /\ NonDecoded' = [NonDecoded EXCEPT !.held = @ \cup {f}]
            \/ /\ DisplayFrameIndex[f] # INVALID_INDEX
               /\ NonDecoded'.released = NonDecoded.released \cup {f}
               /\ NonDecoded'.held = NonDecoded.held
               /\ \/ NonDecoded'.DisplayIndicesCollapse = NonDecoded.DisplayIndicesCollapse
                  \/ /\ DiscardingUntilMarkerFrame["PtoD"] \/ CollapseHolesInDisplayIndices[f]
                     /\ NonDecoded'.DisplayIndicesCollapse =
                          IF NonDecoded.DisplayIndicesCollapse >= DisplayFrameIndex[f]
                          THEN NonDecoded.DisplayIndicesCollapse ELSE DisplayFrameIndex[f]
<1>1. CASE NonDecoded' = NonDecoded  BY <1>1 DEF ReorderRanges
<1>2. CASE DisplayFrameIndex[f] = INVALID_INDEX /\ NonDecoded' = [NonDecoded EXCEPT !.held = @ \cup {f}]
  BY <1>2 DEF ReorderRanges
<1>3. CASE /\ DisplayFrameIndex[f] # INVALID_INDEX
           /\ NonDecoded' = [NonDecoded EXCEPT
                !.released = @ \cup {f},
                !.DisplayIndicesCollapse =
                   IF DiscardingUntilMarkerFrame["PtoD"] \/ CollapseHolesInDisplayIndices[f]
                   THEN Max({@, DisplayFrameIndex[f]}) ELSE @]
  <2> DEFINE c == NonDecoded.DisplayIndicesCollapse
             d == DisplayFrameIndex[f]
  <2>1. c \in 0 .. MaxFrames /\ d \in 0 .. MaxFrames - 1
    BY <1>3 DEF ReorderRanges, ParseRanges
  <2>2. Max({c, d}) = IF c >= d THEN c ELSE d
    <3>1. c \in Nat /\ d \in Nat  BY <2>1, Bounds
    <3> QED BY <3>1, MaxOfTwo, Zenon
  <2>3. Max({c, d}) \in 0 .. MaxFrames  BY <2>1, <2>2, Bounds
  <2>4. /\ NonDecoded'.released = NonDecoded.released \cup {f} /\ NonDecoded'.held = NonDecoded.held
        /\ NonDecoded'.DisplayIndicesCollapse =
             IF DiscardingUntilMarkerFrame["PtoD"] \/ CollapseHolesInDisplayIndices[f]
             THEN Max({c, d}) ELSE c
        /\ NonDecoded' = [released |-> NonDecoded'.released, held |-> NonDecoded'.held,
                          DisplayIndicesCollapse |-> NonDecoded'.DisplayIndicesCollapse]
    BY <1>3 DEF ReorderRanges
  <2>5. NonDecoded.released \subseteq Frames /\ NonDecoded.held \subseteq Frames  BY DEF ReorderRanges
  <2> HIDE DEF c, d
  <2>6. NonDecoded'.DisplayIndicesCollapse \in 0 .. MaxFrames  BY <2>1, <2>3, <2>4
  <2>7. NonDecoded' \in [released : SUBSET Frames, held : SUBSET Frames,
                             DisplayIndicesCollapse : 0 .. MaxFrames]
    BY <2>4, <2>5, <2>6
  <2> QED BY <1>3, <2>2, <2>4, <2>7 DEF c, d
<1> QED BY <1>1, <1>2, <1>3 DEF RecordNonDecodedFrame

\* The frame in hand: its index is the desired one at least from then on, if
\* the indices may collapse there.
LEMMA TakeIs ==
  ASSUME ParseRanges, NEW m \in FrameItems, DisplayFrameIndex[m.id] # INVALID_INDEX,
         NEW d \in 0 .. MaxFrames, TakeFrame(m, d)
  PROVE  /\ DtoMBuffer' = m
         /\ DesiredFrameIndex' \in d .. MaxFrames
         /\ \/ DesiredFrameIndex' = d
            \/ CollapseHolesInDisplayIndices[m.id] /\ DesiredFrameIndex' = DisplayFrameIndex[m.id]
<1>1. DisplayFrameIndex[m.id] \in 0 .. MaxFrames - 1  BY FrameIs DEF ParseRanges
<1>2. Max({d, DisplayFrameIndex[m.id]}) = IF d >= DisplayFrameIndex[m.id] THEN d ELSE DisplayFrameIndex[m.id]
  <2>1. d \in Nat /\ DisplayFrameIndex[m.id] \in Nat  BY <1>1, Bounds
  <2> QED BY <2>1, MaxOfTwo, Zenon
<1>3. /\ DtoMBuffer' = m
      /\ DesiredFrameIndex' = IF CollapseHolesInDisplayIndices[m.id]
                              THEN Max({d, DisplayFrameIndex[m.id]}) ELSE d
  BY DEF TakeFrame
<1> QED BY <1>1, <1>2, <1>3, Bounds

\* The index known of the frame the table gives, and of one that comes at its
\* turn.
LEMMA SelectedIs ==
  ASSUME ParseRanges, AccumulatedBufferTable \subseteq FrameItems, Selectable
  PROVE  /\ Lowest \in AccumulatedBufferTable /\ Lowest \in FrameItems
         /\ DisplayFrameIndex[Lowest.id] \in 0 .. MaxFrames - 1
         /\ DisplayFrameIndex[Lowest.id] # INVALID_INDEX
         /\ \A o \in Known : DisplayFrameIndex[Lowest.id] <= DisplayFrameIndex[o.id]
<1>1. Known # {}  BY DEF Selectable
<1>2. DisplayFrameIndex \in [Frames -> Nat]  BY Bounds DEF ParseRanges
<1>3. /\ Lowest \in Known
      /\ \A o \in Known : DisplayFrameIndex[Lowest.id] <= DisplayFrameIndex[o.id]
  BY <1>1, <1>2, LowestIs
<1>4. Lowest \in AccumulatedBufferTable /\ Lowest \in FrameItems
      /\ DisplayFrameIndex[Lowest.id] # INVALID_INDEX
  BY <1>3 DEF Known
<1>5. DisplayFrameIndex[Lowest.id] \in 0 .. MaxFrames - 1
  BY <1>4, FrameIs DEF ParseRanges
<1> QED BY <1>3, <1>4, <1>5
-----------------------------------------------------------------------------
\* Whatever is taken out of a ring has a number.
LEMMA HeadsAre ==
  ASSUME Typed
  PROVE  /\ CollatedFrameRing # <<>> => Head(CollatedFrameRing) \in CollatedItems /\ Head(CollatedFrameRing).Value \in Nat
         /\ ParsedFrameRing # <<>> => Head(ParsedFrameRing) \in ParsedItems /\ Head(ParsedFrameRing).Value \in Nat
         /\ codec # <<>> => Head(codec) \in CodedItems /\ Head(codec).Value \in Nat
         /\ DecodedFrameRing # <<>> => Head(DecodedFrameRing) \in DecodedItems /\ Head(DecodedFrameRing).Value \in Nat
         /\ manifestor # <<>> => Head(manifestor) \in FrameItems /\ Head(manifestor).Value \in Nat
         /\ ManifestedBufferRing # <<>> =>
              Head(ManifestedBufferRing) \in ManifestedItems /\ Head(ManifestedBufferRing).Value \in Nat
         /\ PtoDBuffer # Nothing => PtoDBuffer \in FrameItems \cup MarkerItems /\ PtoDBuffer.Value \in Nat
         /\ DtoMBuffer # Nothing => DtoMBuffer \in FrameItems /\ DtoMBuffer.Value \in Nat
         /\ IsMarker(MarkerFrameBuffer) => MarkerFrameBuffer \in MarkerItems /\ MarkerFrameBuffer.Value \in Nat
<1>1. CollatedFrameRing # <<>> => Head(CollatedFrameRing) \in CollatedItems /\ Head(CollatedFrameRing).Value \in Nat
  BY TailIs, CollatedIs DEF Typed
<1>2. ParsedFrameRing # <<>> => Head(ParsedFrameRing) \in ParsedItems /\ Head(ParsedFrameRing).Value \in Nat
  BY TailIs, ParsedIs DEF Typed
<1>3. codec # <<>> => Head(codec) \in CodedItems /\ Head(codec).Value \in Nat
  BY TailIs, CodedIs DEF Typed
<1>4. DecodedFrameRing # <<>> => Head(DecodedFrameRing) \in DecodedItems /\ Head(DecodedFrameRing).Value \in Nat
  BY TailIs, DecodedIs DEF Typed
<1>5. manifestor # <<>> => Head(manifestor) \in FrameItems /\ Head(manifestor).Value \in Nat
  BY TailIs, FrameIs DEF Typed
<1>6. ManifestedBufferRing # <<>> =>
              Head(ManifestedBufferRing) \in ManifestedItems /\ Head(ManifestedBufferRing).Value \in Nat
  BY TailIs, ManifestedIs DEF Typed
<1>7. PtoDBuffer # Nothing => PtoDBuffer \in FrameItems \cup MarkerItems /\ PtoDBuffer.Value \in Nat
  BY FrameIs, MarkerIs DEF Typed
<1>8. DtoMBuffer # Nothing => DtoMBuffer \in FrameItems /\ DtoMBuffer.Value \in Nat
  BY FrameIs DEF Typed
<1>9. IsMarker(MarkerFrameBuffer) => MarkerFrameBuffer \in MarkerItems /\ MarkerFrameBuffer.Value \in Nat
  BY MarkerIs, NothingIs DEF Typed
<1> QED BY <1>1, <1>2, <1>3, <1>4, <1>5, <1>6, <1>7, <1>8, <1>9

\* Every step keeps the types of the input and of the collator.
LEMMA InputStep == TypeInv /\ [Next]_vars => InputRanges'
<1> SUFFICES ASSUME TypeInv, [Next]_vars PROVE InputRanges'  OBVIOUS
<1>0. InputRanges /\ switch.Collator \in 0 .. MaxDrains  BY DEF TypeInv, Ranges, SwitchRanges
<1>1. CASE UNCHANGED input  BY <1>0, <1>1 DEF InputRanges, input
<1>2. ASSUME NEW isReference \in BOOLEAN, Collate(isReference) PROVE InputRanges'
  <2>1. collated < MaxFrames /\ collated' = collated + 1
        /\ reference' = [reference EXCEPT ![collated'] = isReference]
        /\ collatedBy' = [collatedBy EXCEPT ![collated'] = switch.Collator]
    BY <1>2 DEF Collate
  <2>2. collated' \in 0 .. MaxFrames  BY <2>1, <1>0, Bounds DEF InputRanges
  <2> QED BY <2>1, <2>2, <1>0 DEF InputRanges
<1>3. ASSUME NEW policy \in Policies, DrainBegin(policy) PROVE UNCHANGED input
  BY <1>3 DEF DrainBegin
<1>4. CASE CtoP \/ PtoD \/ CodecOutput \/ Manifest
  BY <1>1, <1>4 DEF CtoP, CtoPMarker, CtoPFrame, CtoPControl, CtoPSwitch, PtoD, PtoDExtract, PtoDPass,
     PtoDDiscard, PtoDControl, PtoDSwitch, CodecOutput, Manifest
<1>5. CASE DtoMLoop \/ DtoMInHand \/ PostMExtract
  BY <1>1, <1>5 DEF DtoMLoop, DtoMSelect, DtoMMarker, DtoMExtract, DtoMTimeout, DtoMInHand,
     DtoMManifest, DtoMDiscard, PostMExtract
<1>6. CASE Drain \/ DrainGiveUp
  BY <1>1, <1>6 DEF Drain, DrainJump, DrainCodec, DrainRelease, DrainCheck, DrainNumber, DrainInsert,
     DrainCallBefore, DrainCallAfter, SwitchCollator, SwitchCalls, DrainReturn, DrainGiveUp
<1>7. CASE UNCHANGED vars  BY <1>1, <1>7 DEF vars
<1> QED BY <1>1, <1>2, <1>3, <1>4, <1>5, <1>6, <1>7 DEF Next

\* Every step keeps the types of the control messages.
LEMMA MessageStep == TypeInv /\ [Next]_vars => MessageRanges'
<1> SUFFICES ASSUME TypeInv, [Next]_vars PROVE MessageRanges'  OBVIOUS
<1>0. /\ MessageRanges /\ Typed /\ CallsTyped /\ DrainRanges
      /\ \A p \in Processes : \A m \in Accumulated[p] : m.Value \in Nat
      /\ (drain.pc # "idle" => drain.n > 0)
  <2>1. MessageRanges /\ Typed /\ CallsTyped /\ DrainRanges  BY DEF TypeInv, Ranges
  <2>2. \A p \in Processes : \A m \in Accumulated[p] : m.Value \in Nat
    BY <2>1 DEF CallsTyped, Others
  <2> QED BY <2>1, <2>2 DEF TypeInv, Exchanges
<1>1. CASE UNCHANGED <<NextBufferSequenceNumber, MarkerInCodedFrameIndex,
                       DiscardingUntilMarkerFrame, MaximumActualSequenceNumberSeen,
                       Drained, DrainSequenceNumber, mappingReset>>
  BY <1>0, <1>1 DEF MessageRanges
<1>2. CASE CtoPMarker
  <2>1. Head(CollatedFrameRing).Value \in Nat  BY <1>0, <1>2, HeadsAre DEF CtoPMarker
  <2>2. MaximumActualSequenceNumberSeen' \in [Processes -> Nat]
    BY <1>0, <1>2, <2>1, SeeIs, CallsOfIs DEF CtoPMarker, MessageRanges
  <2>3. /\ NextBufferSequenceNumber' = Head(CollatedFrameRing).Value + 1
        /\ MarkerInCodedFrameIndex' = None /\ StopDiscarding("CtoP")
        /\ UNCHANGED <<Drained, DrainSequenceNumber, mappingReset>>
    BY <1>2 DEF CtoPMarker, drn
  <2> QED BY <2>1, <2>2, <2>3, <1>0 DEF MessageRanges, StopDiscarding
<1>3. CASE CtoPFrame
  <2> DEFINE m == [Head(CollatedFrameRing) EXCEPT !.Value = NextBufferSequenceNumber]
  <2>1. m.Value = NextBufferSequenceNumber
    <3>1. Head(CollatedFrameRing) \in CollatedItems  BY <1>0, <1>3, HeadsAre DEF CtoPFrame
    <3> QED BY <3>1 DEF CollatedItems, FrameItems, MarkerItems, Others
  <2>2. See("CtoP", NextBufferSequenceNumber)  BY <2>1, <1>3 DEF CtoPFrame
  <2>3. MaximumActualSequenceNumberSeen' \in [Processes -> Nat]
    BY <1>0, <2>2, SeeIs, CallsOfIs DEF MessageRanges
  <2>4. /\ NextBufferSequenceNumber' = NextBufferSequenceNumber + 1
        /\ UNCHANGED <<MarkerInCodedFrameIndex, DiscardingUntilMarkerFrame, Drained,
                       DrainSequenceNumber, mappingReset>>
    BY <1>3 DEF CtoPFrame, drn
  <2> QED BY <2>3, <2>4, <1>0 DEF MessageRanges
<1>4. CASE CtoPControl \/ CtoPSwitch
  BY <1>4, <1>1 DEF CtoPControl, CtoPSwitch, drn, msgs
<1>5. CASE PtoDExtract
  <2>1. /\ See("PtoD", Head(ParsedFrameRing).Value) /\ Head(ParsedFrameRing).Value \in Nat
        /\ StopDiscarding("PtoD") \/ UNCHANGED DiscardingUntilMarkerFrame
        /\ UNCHANGED <<NextBufferSequenceNumber, MarkerInCodedFrameIndex, Drained,
                       DrainSequenceNumber, mappingReset>>
    BY <1>0, <1>5, HeadsAre DEF PtoDExtract, drn
  <2>2. MaximumActualSequenceNumberSeen' \in [Processes -> Nat]
    BY <1>0, <2>1, SeeIs, CallsOfIs DEF MessageRanges
  <2> QED BY <2>1, <2>2, <1>0 DEF MessageRanges, StopDiscarding
<1>6. CASE PtoDPass \/ PtoDDiscard \/ PtoDControl \/ PtoDSwitch \/ CodecOutput \/ Manifest
  BY <1>6, <1>1 DEF PtoDPass, PtoDDiscard, PtoDControl, PtoDSwitch, CodecOutput, Manifest, drn, msgs
<1>7. ASSUME NEW m, m.Value \in Nat, NEW d, TakeFrame(m, d),
             UNCHANGED <<NextBufferSequenceNumber, MarkerInCodedFrameIndex,
                         DiscardingUntilMarkerFrame, Drained, DrainSequenceNumber>>
      PROVE  MessageRanges'
  <2> DEFINE due == Due("DtoM", Number(m), BeforeCalls)
  <2>1. See("DtoM", m.Value) /\ mappingReset' = Max({mappingReset} \cup ResetTimes(due))
    BY <1>7 DEF TakeFrame
  <2>2. MaximumActualSequenceNumberSeen' \in [Processes -> Nat]
    BY <1>0, <1>7, <2>1, SeeIs, CallsOfIs DEF MessageRanges
  <2>3. Number(m) \in Nat  BY <1>7, <1>0, NumberIs DEF Typed
  <2>4. \A o \in due : o.Value \in Nat /\ o.Value <= Number(m)
    BY <1>0, CallsOfIs DEF Due
  <2> HIDE DEF due
  <2>5. mappingReset' \in Nat  BY <2>1, <2>3, <2>4, <1>0, ResetIs DEF MessageRanges
  <2> QED BY <1>0, <1>7, <2>2, <2>5 DEF MessageRanges
<1>8. CASE DtoMSelect
  <2>1. Lowest.Value \in Nat
    BY <1>0, <1>8, SelectedIs, FrameIs DEF DtoMSelect, Typed, TypeInv, Ranges
  <2> QED BY <1>7, <1>8, <2>1 DEF DtoMSelect, drn
<1>9. CASE DtoMMarker
  <2> DEFINE v == MarkerFrameBuffer.Value
             due == Due("DtoM", v, BeforeCalls \cup AfterCalls)
  <2>1. /\ v \in Nat /\ See("DtoM", v) /\ mappingReset' = Max({mappingReset} \cup ResetTimes(due))
        /\ StopDiscarding("DtoM")
        /\ UNCHANGED <<NextBufferSequenceNumber, MarkerInCodedFrameIndex, Drained, DrainSequenceNumber>>
    BY <1>0, <1>9, HeadsAre DEF DtoMMarker, drn
  <2>2. MaximumActualSequenceNumberSeen' \in [Processes -> Nat]
    BY <1>0, <2>1, SeeIs, CallsOfIs DEF MessageRanges
  <2>3. \A o \in due : o.Value \in Nat /\ o.Value <= v  BY <1>0, CallsOfIs DEF Due
  <2> HIDE DEF due
  <2>4. mappingReset' \in Nat  BY <2>1, <2>3, <1>0, ResetIs DEF MessageRanges
  <2> QED BY <1>0, <2>1, <2>2, <2>4 DEF MessageRanges, StopDiscarding
<1>10. CASE DtoMExtract
  <2> DEFINE m == Head(DecodedFrameRing)
             d == SkipNonDecoded.desired
  <2>1. /\ m.Value \in Nat
        /\ UNCHANGED <<NextBufferSequenceNumber, MarkerInCodedFrameIndex,
                       DiscardingUntilMarkerFrame, Drained, DrainSequenceNumber>>
        /\ \/ /\ UNCHANGED MaximumActualSequenceNumberSeen
              /\ \/ UNCHANGED mappingReset
                 \/ mappingReset' = Max({mappingReset} \cup ResetTimes({m}))
           \/ TakeFrame(m, d)
    BY <1>0, <1>10, HeadsAre DEF DtoMExtract, drn, msgs
  <2> HIDE DEF m, d
  <2>2. CASE mappingReset' = Max({mappingReset} \cup ResetTimes({m}))
             /\ UNCHANGED MaximumActualSequenceNumberSeen
    <3>1. mappingReset' \in Nat
      BY <2>1, <2>2, <1>0, ResetIs, \A x \in {m} : x.Value \in Nat /\ x.Value <= m.Value DEF MessageRanges
    <3> QED BY <3>1, <2>1, <2>2, <1>0 DEF MessageRanges
  <2> QED BY <1>1, <1>7, <2>1, <2>2
<1>11. CASE DtoMTimeout \/ DtoMManifest \/ DtoMDiscard
  BY <1>11, <1>1 DEF DtoMTimeout, DtoMManifest, DtoMDiscard, DtoMCallsAfter, drn, msgs
<1>12. CASE PostMExtract
  <2> DEFINE m == Head(ManifestedBufferRing)
  <2>1. /\ m.Value \in Nat /\ m \in ManifestedItems
        /\ UNCHANGED <<NextBufferSequenceNumber, MarkerInCodedFrameIndex,
                       DiscardingUntilMarkerFrame, DrainSequenceNumber, mappingReset>>
        /\ See("PostM", m.Value) \/ UNCHANGED MaximumActualSequenceNumberSeen
        /\ Drained' \in BOOLEAN
    BY <1>0, <1>12, HeadsAre DEF PostMExtract, PostMCall, MessageRanges
  <2> HIDE DEF m
  <2>2. MaximumActualSequenceNumberSeen' \in [Processes -> Nat]
    BY <1>0, <2>1, SeeIs, CallsOfIs DEF MessageRanges
  <2> QED BY <1>0, <2>1, <2>2 DEF MessageRanges
<1>13. ASSUME NEW isReference \in BOOLEAN, Collate(isReference) PROVE MessageRanges'
  BY <1>13, <1>1 DEF Collate, msgs, drn
<1>14. ASSUME NEW policy \in Policies, DrainBegin(policy) PROVE MessageRanges'
  <2>1. /\ UNCHANGED <<NextBufferSequenceNumber, MarkerInCodedFrameIndex,
                       MaximumActualSequenceNumberSeen, Drained, DrainSequenceNumber, mappingReset>>
        /\ DiscardingUntilMarkerFrame' \in [{"CtoP", "PtoD", "DtoM"} -> BOOLEAN]
    <3>1. [p \in {"CtoP", "PtoD", "DtoM"} |-> p # "CtoP" \/ policy # "discard, parse all"]
            \in [{"CtoP", "PtoD", "DtoM"} -> BOOLEAN]
      OBVIOUS
    <3> QED BY <1>14, <3>1, <1>0 DEF DrainBegin, msgs, MessageRanges
  <2> QED BY <2>1, <1>0 DEF MessageRanges
<1>15. CASE DrainNumber
  <2>1. /\ DrainSequenceNumber' = NextBufferSequenceNumber + RingSize /\ Drained' = FALSE
        /\ UNCHANGED <<NextBufferSequenceNumber, MarkerInCodedFrameIndex, mappingReset,
                       DiscardingUntilMarkerFrame, MaximumActualSequenceNumberSeen>>
    BY <1>15 DEF DrainNumber, MarkerNumber, msgs
  <2>2. DrainSequenceNumber' \in Nat  BY <2>1, <1>0, Bounds DEF MessageRanges
  <2> QED BY <2>1, <2>2, <1>0 DEF MessageRanges
<1>16. CASE DrainInsert
  <2>1. drain.n \in Markers
    <3>1. drain.pc = "insert" /\ drain.n \in 0 .. MaxDrains  BY <1>0, <1>16 DEF DrainInsert, At, DrainRanges
    <3> QED BY <3>1, <1>0, Bounds
  <2> QED BY <2>1, <1>16, <1>0 DEF DrainInsert, MessageRanges, msgs
<1>17. CASE DrainJump \/ DrainCodec \/ DrainRelease \/ DrainCheck \/ DrainCallBefore \/ DrainCallAfter
            \/ SwitchCollator \/ SwitchCalls \/ DrainReturn \/ DrainGiveUp
  BY <1>17, <1>1 DEF DrainJump, DrainCodec, DrainRelease, DrainCheck, DrainCallBefore, DrainCallAfter,
     SwitchCollator, SwitchCalls, DrainReturn, DrainGiveUp, msgs
<1>18. CASE UNCHANGED vars  BY <1>1, <1>18 DEF vars, msgs, drn
<1> QED BY <1>2, <1>3, <1>4, <1>5, <1>6, <1>8, <1>9, <1>10, <1>11, <1>12, <1>13, <1>14, <1>15, <1>16, <1>17, <1>18
        DEF Next, CtoP, PtoD, DtoMLoop, DtoMInHand, Drain
-----------------------------------------------------------------------------
\* The parser works through the frames in order, and an index once given stays.
LEMMA ParseStep == TypeInv /\ [Next]_vars => ParseRanges' /\ StaysIndexed /\ InputOrder'
<1> SUFFICES ASSUME TypeInv, [Next]_vars PROVE ParseRanges' /\ StaysIndexed /\ InputOrder'  OBVIOUS
<1> DEFINE r == CollatedFrameRing
<1>0. /\ ParseRanges /\ Typed /\ InputOrder /\ collated \in 0 .. MaxFrames
      /\ r \in Seq(CollatedItems) /\ DOMAIN r = 1 .. Len(r) /\ Len(r) \in Nat
      /\ Given \in Nat
  <2>1. parser.NextDisplayFrameIndex \in Nat  BY Bounds DEF TypeInv, Ranges, ParseRanges
  <2>2. Given \in Nat  BY <2>1 DEF Given
  <2> QED BY <2>2 DEF TypeInv, Ranges, InputRanges, Typed
<1>1. UNCHANGED parse => ParseRanges' /\ StaysIndexed /\ Given' = Given
  BY <1>0 DEF ParseRanges, StaysIndexed, Given, parse
<1>2. CASE UNCHANGED <<parse, CollatedFrameRing, collated>>
  BY <1>0, <1>1, <1>2 DEF InputOrder
<1>3. ASSUME r # <<>>, CollatedFrameRing' = Tail(r), UNCHANGED collated, Given' \in Int,
             Given' <= IF IsFrame(Head(r)) THEN Head(r).id ELSE Given
      PROVE  InputOrder'
  <2>1. /\ Tail(r) \in Seq(CollatedItems) /\ Len(Tail(r)) = Len(r) - 1 /\ Len(r) \in Nat \ {0}
        /\ \A i \in 1 .. Len(r) - 1 : Tail(r)[i] = r[i + 1]
        /\ Head(r) = r[1]
    BY <1>0, <1>3, TailIs
  <2>2. DOMAIN CollatedFrameRing' = 1 .. Len(r) - 1  BY <2>1, <1>3
  <2>3. ASSUME NEW i \in 1 .. Len(r) - 1
        PROVE  i + 1 \in DOMAIN r /\ CollatedFrameRing'[i] = r[i + 1]
    BY <2>1, <1>3, <1>0
  <2>4. 1 \in DOMAIN r  BY <2>1, <1>0
  <2>5. Given' <= collated
    <3>1. r[1] \in CollatedItems /\ (IsFrame(r[1]) => r[1].id <= collated /\ r[1] \in FrameItems)
      BY <2>4, <1>0, CollatedIs DEF InputOrder
    <3>2. IsFrame(r[1]) => r[1].id \in Nat  BY <3>1, FrameId
    <3>3. Given <= collated  BY <1>0 DEF InputOrder
    <3>4. Given' <= IF IsFrame(r[1]) THEN r[1].id ELSE Given  BY <1>3, <2>1
    <3> HIDE DEF r
    <3> QED BY <3>1, <3>2, <3>3, <3>4, <1>0, <1>3, Bounds
  <2>6. ASSUME NEW i \in 1 .. Len(r) - 1, IsFrame(r[i + 1])
        PROVE  Given' < r[i + 1].id /\ r[i + 1].id <= collated
    <3>1. /\ i + 1 \in DOMAIN r /\ 1 < i + 1 /\ r[i + 1] \in CollatedItems /\ r[1] \in CollatedItems
      BY <2>3, <2>4, <1>0
    <3>2. /\ r[i + 1].id \in Frames /\ (IsFrame(r[1]) => r[1].id \in Frames)
      BY <3>1, <2>6, CollatedIs, FrameIs
    <3>3. /\ Given < r[i + 1].id /\ r[i + 1].id <= collated
          /\ IsFrame(r[1]) => r[1].id < r[i + 1].id
      BY <3>1, <2>4, <2>6, <1>0 DEF InputOrder
    <3>4. Given' <= IF IsFrame(r[1]) THEN r[1].id ELSE Given  BY <1>3, <2>1
    <3> HIDE DEF r
    <3> QED BY <3>2, <3>3, <3>4, <1>0, <1>3, Bounds
  <2>7. ASSUME NEW i \in 1 .. Len(r) - 1, NEW j \in 1 .. Len(r) - 1, i < j,
               IsFrame(r[i + 1]), IsFrame(r[j + 1])
        PROVE  r[i + 1].id < r[j + 1].id
    BY <2>3, <2>7, <1>0 DEF InputOrder
  <2> HIDE DEF r
  <2>8. \A i \in DOMAIN CollatedFrameRing' : IsFrame(CollatedFrameRing'[i]) =>
          Given' < CollatedFrameRing'[i].id /\ CollatedFrameRing'[i].id <= collated'
    BY <2>2, <2>3, <2>6, <1>3
  <2>9. \A i, j \in DOMAIN CollatedFrameRing' :
          i < j /\ IsFrame(CollatedFrameRing'[i]) /\ IsFrame(CollatedFrameRing'[j])
            => CollatedFrameRing'[i].id < CollatedFrameRing'[j].id
    BY <2>2, <2>3, <2>7
  <2> QED BY <2>5, <2>8, <2>9, <1>3 DEF InputOrder
<1>4. ASSUME NEW e \in CollatedItems, CollatedFrameRing' = Append(r, e), UNCHANGED parse,
             collated' \in 0 .. MaxFrames, collated' >= collated,
             IsFrame(e) => e.id = collated + 1 /\ collated' = collated + 1
      PROVE  ParseRanges' /\ StaysIndexed /\ InputOrder'
  <2>1. /\ Len(CollatedFrameRing') = Len(r) + 1 /\ DOMAIN CollatedFrameRing' = 1 .. Len(r) + 1
        /\ \A i \in 1 .. Len(r) : CollatedFrameRing'[i] = r[i]
        /\ CollatedFrameRing'[Len(r) + 1] = e
    BY <1>0, <1>4, AppendIs
  <2>2. ASSUME NEW i \in 1 .. Len(r) + 1, IsFrame(CollatedFrameRing'[i])
        PROVE  /\ Given < CollatedFrameRing'[i].id /\ CollatedFrameRing'[i].id <= collated'
               /\ i # Len(r) + 1 => CollatedFrameRing'[i].id <= collated
    <3>1. CASE i = Len(r) + 1
      BY <3>1, <2>1, <2>2, <1>0, <1>4, Bounds DEF InputOrder
    <3>2. CASE i # Len(r) + 1
      <4>1. i \in 1 .. Len(r) /\ CollatedFrameRing'[i] = r[i]  BY <3>2, <2>1, <1>0
      <4>2. r[i] \in FrameItems  BY <4>1, <2>2, <1>0, CollatedIs
      <4>3. r[i].id \in Nat  BY <4>2, FrameId
      <4> QED BY <4>1, <4>3, <2>2, <1>0, <1>4, Bounds DEF InputOrder
    <3> QED BY <3>1, <3>2
  <2>3. ASSUME NEW i \in 1 .. Len(r) + 1, NEW j \in 1 .. Len(r) + 1, i < j,
               IsFrame(CollatedFrameRing'[i]), IsFrame(CollatedFrameRing'[j])
        PROVE  CollatedFrameRing'[i].id < CollatedFrameRing'[j].id
    <3>1. i \in 1 .. Len(r) /\ i # Len(r) + 1  BY <2>3, <1>0
    <3>2. CASE j = Len(r) + 1
      <4>1. CollatedFrameRing'[j].id = collated + 1  BY <3>2, <2>1, <2>3, <1>4
      <4>2. CollatedFrameRing'[i].id <= collated  BY <2>2, <2>3, <3>1
      <4>3. CollatedFrameRing'[i] \in FrameItems  BY <3>1, <2>1, <2>3, <1>0, CollatedIs
      <4>4. CollatedFrameRing'[i].id \in Nat  BY <4>3, FrameId
      <4> QED BY <4>1, <4>2, <4>4, <1>0
    <3>3. CASE j # Len(r) + 1
      <4>1. j \in 1 .. Len(r) /\ CollatedFrameRing'[j] = r[j] /\ CollatedFrameRing'[i] = r[i]
        BY <3>1, <3>3, <2>1, <1>0
      <4> QED BY <4>1, <3>1, <2>3, <1>0 DEF InputOrder
    <3> QED BY <3>2, <3>3
  <2>4. ParseRanges' /\ StaysIndexed /\ Given' = Given  BY <1>1, <1>4
  <2>5. Given' <= collated'  BY <2>4, <1>4, <1>0, Bounds DEF InputOrder
  <2> HIDE DEF r
  <2> QED BY <2>1, <2>2, <2>3, <2>4, <2>5 DEF InputOrder
<1>5. ParseRanges' => Given' \in Int  BY Bounds DEF ParseRanges, Given
<1>6. CASE CtoPMarker
  <2>1. /\ r # <<>> /\ CollatedFrameRing' = Tail(r) /\ UNCHANGED collated /\ IsMarker(Head(r))
        /\ SwitchFrameParser \/ UNCHANGED parse
    BY <1>6 DEF CtoPMarker, input
  <2>2. ~IsFrame(Head(r))  BY <2>1 DEF IsFrame, IsMarker
  <2>3. ParseRanges' /\ StaysIndexed /\ Given' <= Given
    BY <2>1, <1>0, <1>1, ParseTyped DEF SwitchFrameParser, InputOrder
  <2> QED BY <2>1, <2>2, <2>3, <1>3, <1>5
<1>7. CASE CtoPFrame
  <2> DEFINE h == Head(r)
             m == [h EXCEPT !.Value = NextBufferSequenceNumber]
  <2>1. /\ r # <<>> /\ CollatedFrameRing' = Tail(r) /\ UNCHANGED collated
        /\ \/ m.kind = "jump" /\ ParseJump
           \/ IsFrame(m) /\ (UNCHANGED parse \/ ParseFrame(m.id))
    BY <1>7 DEF CtoPFrame, input
  <2>2. h \in CollatedItems /\ h = r[1] /\ 1 \in DOMAIN r  BY <2>1, <1>0, TailIs
  <2>3. m.kind = h.kind /\ m.id = h.id
    BY <2>2 DEF CollatedItems, FrameItems, MarkerItems, Others
  <2>4. CASE IsFrame(h)
    <3>1. h.id \in Frames /\ Given < h.id /\ h.id <= collated
      BY <2>2, <2>4, <1>0, CollatedIs, FrameIs DEF InputOrder
    <3>2. UNCHANGED parse \/ ParseFrame(h.id)  BY <2>1, <2>3, <2>4 DEF IsFrame
    <3>3. ParseRanges' /\ StaysIndexed /\ Given' <= h.id
      <4>1. CASE UNCHANGED parse  BY <4>1, <3>1, <1>1, <1>0, Bounds
      <4>2. CASE ParseFrame(h.id)  BY <4>2, <3>1, <1>0, ParseTyped DEF InputOrder
      <4> QED BY <3>2, <4>1, <4>2
    <3> QED BY <2>1, <2>4, <3>3, <1>3, <1>5
  <2>5. CASE ~IsFrame(h)
    <3>1. ParseJump  BY <2>1, <2>3, <2>5 DEF IsFrame
    <3>2. ParseRanges' /\ StaysIndexed /\ Given' <= Given
      BY <3>1, <1>0, ParseTyped DEF InputOrder
    <3> QED BY <2>1, <2>5, <3>2, <1>3, <1>5
  <2> QED BY <2>4, <2>5
<1>8. CASE CtoPControl
  <2>1. /\ r # <<>> /\ CollatedFrameRing' = Tail(r) /\ UNCHANGED collated /\ IsControl(Head(r))
        /\ SwitchFrameParser \/ UNCHANGED parse
    BY <1>8 DEF CtoPControl, input
  <2>2. ~IsFrame(Head(r))  BY <2>1 DEF IsFrame, IsControl, BeforeCalls, AfterCalls
  <2>3. ParseRanges' /\ StaysIndexed /\ Given' <= Given
    BY <2>1, <1>0, <1>1, ParseTyped DEF SwitchFrameParser, InputOrder
  <2> QED BY <2>1, <2>2, <2>3, <1>3, <1>5
<1>9. CASE CtoPSwitch
  <2>1. /\ parser' = ParserReset
        /\ UNCHANGED <<DisplayFrameIndex, CollapseHolesInDisplayIndices, CollatedFrameRing, collated>>
    BY <1>9 DEF CtoPSwitch, rings, input
  <2>2. ParseRanges' /\ Given' = 0
    BY <2>1, <1>0, Bounds DEF ParseRanges, Given, ParserReset, None
  <2>3. StaysIndexed  BY <2>1 DEF StaysIndexed
  <2>4. \A i \in DOMAIN r : IsFrame(r[i]) => 0 < r[i].id
    BY <1>0, CollatedIs, FrameId
  <2> HIDE DEF r
  <2> QED BY <2>1, <2>2, <2>3, <2>4, <1>0, Bounds DEF InputOrder, r
<1>10. ASSUME NEW isReference \in BOOLEAN, Collate(isReference)
       PROVE  ParseRanges' /\ StaysIndexed /\ InputOrder'
  <2>1. /\ collated' = collated + 1 /\ collated < MaxFrames /\ UNCHANGED parse
        /\ CollatedFrameRing' = Append(r, Item("frame", collated', 0))
    BY <1>10 DEF Collate
  <2>2. collated' \in Frames /\ collated' \in 0 .. MaxFrames  BY <2>1, <1>0, Bounds
  <2>3. Item("frame", collated', 0) \in CollatedItems  BY <2>2, MadeItems, ItemSets
  <2>4. Item("frame", collated', 0).id = collated'  BY DEF Item
  <2> QED BY <2>1, <2>2, <2>3, <2>4, <1>0, <1>4
<1>11. ASSUME NEW e \in CollatedItems, CollatedFrameRing' = Append(r, e), UNCHANGED <<parse, collated>>,
              ~IsFrame(e)
       PROVE  ParseRanges' /\ StaysIndexed /\ InputOrder'
  BY <1>11, <1>4, <1>0
<1>12. CASE DrainJump
  <2>1. Item("jump", None, 0) \in CollatedItems /\ ~IsFrame(Item("jump", None, 0))
    BY MadeItems, ItemSets DEF IsFrame, Item
  <2> QED BY <1>12, <2>1, <1>11 DEF DrainJump, input
<1>13. CASE DrainInsert
  <2> DEFINE e == Item("marker", drain.n, DrainSequenceNumber)
  <2>1. e \in CollatedItems
    <3>1. drain.n \in 0 .. MaxDrains /\ drain.n > 0 /\ DrainSequenceNumber \in Nat
      BY <1>13 DEF DrainInsert, At, TypeInv, Ranges, DrainRanges, MessageRanges, Exchanges
    <3>2. drain.n \in Markers  BY <3>1, Bounds
    <3> QED BY <3>1, <3>2, MadeItems, ItemSets
  <2>2. ~IsFrame(e)  BY DEF IsFrame, Item
  <2>3. CollatedFrameRing' = Append(r, e) /\ UNCHANGED <<parse, collated>>
    BY <1>13 DEF DrainInsert, input
  <2> HIDE DEF e
  <2> QED BY <2>1, <2>2, <2>3, <1>11
<1>14. CASE SwitchCalls
  <2> DEFINE e == Item("SwitchFrameParser", None, SwitchNumber)
  <2>1. e \in CollatedItems
    <3>1. SwitchNumber \in Nat  BY DEF SwitchNumber, TypeInv, Ranges, MessageRanges
    <3> QED BY <3>1, MadeItems, ItemSets DEF AfterCalls
  <2>2. ~IsFrame(e)  BY DEF IsFrame, Item
  <2>3. UNCHANGED <<parse, collated>> /\ (UNCHANGED CollatedFrameRing \/ CollatedFrameRing' = Append(r, e))
    BY <1>14 DEF SwitchCalls, input
  <2> HIDE DEF e
  <2> QED BY <2>1, <2>2, <2>3, <1>11, <1>2
<1>15. ASSUME NEW policy \in Policies, DrainBegin(policy)
       PROVE  UNCHANGED <<parse, CollatedFrameRing, collated>>
  BY <1>15 DEF DrainBegin, rings, input
<1>16. CASE PtoD \/ CodecOutput \/ Manifest
  BY <1>2, <1>16 DEF PtoD, PtoDExtract, PtoDPass, PtoDDiscard, PtoDControl, PtoDSwitch, CodecOutput,
     Manifest, rings, input
<1>17. CASE DtoMLoop \/ DtoMInHand \/ PostMExtract
  BY <1>2, <1>17 DEF DtoMLoop, DtoMSelect, DtoMMarker, DtoMExtract, DtoMTimeout, DtoMInHand,
     DtoMManifest, DtoMDiscard, PostMExtract, rings, input
<1>18. CASE DrainCodec \/ DrainRelease \/ DrainCheck \/ DrainNumber \/ DrainCallBefore \/ DrainCallAfter
            \/ SwitchCollator \/ DrainReturn \/ DrainGiveUp
  BY <1>2, <1>18 DEF DrainCodec, DrainRelease, DrainCheck, DrainNumber,
     DrainCallBefore, DrainCallAfter, SwitchCollator, DrainReturn, DrainGiveUp, rings, input
<1>19. CASE UNCHANGED vars  BY <1>2, <1>19 DEF vars, rings, input
<1> QED BY <1>2, <1>6, <1>7, <1>8, <1>9, <1>10, <1>12, <1>13, <1>14, <1>15, <1>16, <1>17, <1>18, <1>19
        DEF Next, CtoP, Drain
-----------------------------------------------------------------------------
\* The table of non-decoded frames, the desired index and the frame in hand.
LEMMA ReorderStep == TypeInv /\ [Next]_vars => ReorderRanges' /\ IndexedInHand'
<1> SUFFICES ASSUME TypeInv, [Next]_vars PROVE ReorderRanges' /\ IndexedInHand'  OBVIOUS
<1>0. /\ ReorderRanges /\ IndexedInHand /\ Typed /\ ParseRanges /\ MessageRanges
      /\ StaysIndexed /\ ParseRanges' /\ Typed'
  BY ParseStep, TypedStep DEF TypeInv, Ranges
<1>a. NonDecoded.released \subseteq Frames /\ NonDecoded.held \subseteq Frames
  BY <1>0 DEF ReorderRanges
<1>b. (\A f \in NonDecoded'.released : DisplayFrameIndex[f] # INVALID_INDEX) /\ NonDecoded'.released \subseteq Frames
        => \A f \in NonDecoded'.released : DisplayFrameIndex'[f] # INVALID_INDEX
  BY <1>0 DEF StaysIndexed
<1>1. CASE UNCHANGED <<NonDecoded, DesiredFrameIndex, DtoMBuffer>>
  <2>1. DtoMBuffer # Nothing => DtoMBuffer.id \in Frames  BY <1>0, HeadsAre, FrameIs
  <2> QED BY <2>1, <1>0, <1>1, <1>a DEF ReorderRanges, IndexedInHand, StaysIndexed
<1>c. /\ SkipNonDecoded.desired \in 0 .. MaxFrames
      /\ SkipNonDecoded.table \in [released : SUBSET Frames, held : SUBSET Frames,
                                   DisplayIndicesCollapse : 0 .. MaxFrames]
      /\ \A f \in SkipNonDecoded.table.released : DisplayFrameIndex[f] # INVALID_INDEX
  <2>1. /\ SkipNonDecoded.desired \in DesiredFrameIndex .. MaxFrames
        /\ Collapse \in NonDecoded.DisplayIndicesCollapse .. MaxFrames
        /\ SkipNonDecoded.table =
              [released |-> {f \in Noted : DisplayFrameIndex[f] > SkipNonDecoded.desired},
               held |-> NonDecoded.held \ Indexed, DisplayIndicesCollapse |-> Collapse]
    BY <1>0, SkipIs DEF IndexedInHand
  <2>2. Noted \subseteq Frames /\ \A f \in Noted : DisplayFrameIndex[f] # INVALID_INDEX
    BY <1>0, <1>a DEF Noted, Indexed, IndexedInHand
  <2>3. NonDecoded.DisplayIndicesCollapse \in Nat /\ DesiredFrameIndex \in Nat
    BY <1>0 DEF ReorderRanges
  <2>4. SkipNonDecoded.desired \in 0 .. MaxFrames /\ Collapse \in 0 .. MaxFrames
    BY <2>1, <2>3, Bounds
  <2> QED BY <2>1, <2>2, <2>4, <1>a
<1>2. ASSUME UNCHANGED <<DisplayFrameIndex>>, NonDecoded' = SkipNonDecoded.table,
             DesiredFrameIndex' \in 0 .. MaxFrames,
             UNCHANGED DtoMBuffer
      PROVE  ReorderRanges' /\ IndexedInHand'
  BY <1>2, <1>c, <1>0 DEF ReorderRanges, IndexedInHand
<1>3. CASE PtoDDiscard
  <2>1. UNCHANGED <<DesiredFrameIndex, DtoMBuffer, DisplayFrameIndex>>
    BY <1>3 DEF PtoDDiscard, dtom, parse
  <2>2. CASE UNCHANGED NonDecoded  BY <2>1, <2>2, <1>1
  <2>3. CASE IsFrame(PtoDBuffer) /\ RecordNonDecodedFrame(PtoDBuffer.id)
    <3>1. PtoDBuffer.id \in Frames  BY <2>3, <1>0, FrameIs, MarkerIs, NothingIs DEF Typed
    <3>2. /\ NonDecoded' \in [released : SUBSET Frames, held : SUBSET Frames,
                             DisplayIndicesCollapse : 0 .. MaxFrames]
          /\ \A f \in NonDecoded'.released :
               f \in NonDecoded.released \/ DisplayFrameIndex[f] # INVALID_INDEX
      BY <3>1, <2>3, <1>0, RecordIs
    <3> QED BY <3>2, <2>1, <1>0 DEF ReorderRanges, IndexedInHand
  <2> QED BY <1>3, <2>2, <2>3 DEF PtoDDiscard
<1>4. CASE DtoMSelect
  <2>1. /\ TakeFrame(Lowest, DesiredFrameIndex) /\ UNCHANGED <<NonDecoded, DisplayFrameIndex>>
        /\ Lowest \in FrameItems /\ DisplayFrameIndex[Lowest.id] # INVALID_INDEX
    BY <1>4, <1>0, SelectedIs DEF DtoMSelect, Typed, parse
  <2>2. DtoMBuffer' = Lowest /\ DesiredFrameIndex' \in DesiredFrameIndex .. MaxFrames
    BY <2>1, <1>0, TakeIs DEF ReorderRanges
  <2>3. DesiredFrameIndex' \in 0 .. MaxFrames
    <3>1. DesiredFrameIndex \in Nat  BY <1>0 DEF ReorderRanges
    <3> QED BY <2>2, <3>1, Bounds
  <2> QED BY <2>1, <2>2, <2>3, <1>0 DEF ReorderRanges, IndexedInHand
<1>5. CASE DtoMMarker
  BY <1>5, <1>2, <1>c DEF DtoMMarker, parse
<1>6. CASE DtoMExtract
  <2> DEFINE m == Head(DecodedFrameRing)
             d == SkipNonDecoded.desired
  <2>1. /\ NonDecoded' = SkipNonDecoded.table /\ UNCHANGED DisplayFrameIndex
        /\ \/ DesiredFrameIndex' = d /\ UNCHANGED DtoMBuffer
           \/ IsFrame(m) /\ DisplayFrameIndex[m.id] <= d /\ TakeFrame(m, d)
        /\ IsFrame(m) => m \in FrameItems
    BY <1>6, <1>0, HeadsAre, DecodedIs DEF DtoMExtract, parse
  <2> HIDE DEF m, d
  <2>2. CASE DesiredFrameIndex' = d /\ UNCHANGED DtoMBuffer
    BY <2>1, <2>2, <1>2, <1>c DEF d
  <2>3. CASE IsFrame(m) /\ DisplayFrameIndex[m.id] <= d /\ TakeFrame(m, d)
    <3>1. d \in 0 .. MaxFrames /\ m \in FrameItems  BY <1>c, <2>1, <2>3 DEF d
    <3>2. DisplayFrameIndex[m.id] # INVALID_INDEX  BY <3>1, <2>3, Bounds
    <3>3. DtoMBuffer' = m /\ DesiredFrameIndex' \in d .. MaxFrames
      BY <3>1, <3>2, <2>3, <1>0, TakeIs
    <3>4. DesiredFrameIndex' \in 0 .. MaxFrames  BY <3>1, <3>3, Bounds
    <3> QED BY <2>1, <3>2, <3>3, <3>4, <1>c DEF ReorderRanges, IndexedInHand
  <2> QED BY <2>1, <2>2, <2>3
<1>7. CASE DtoMTimeout
  BY <1>7, <1>2, <1>c DEF DtoMTimeout, parse
<1>8. CASE DtoMManifest \/ DtoMDiscard
  <2>1. /\ DtoMBuffer # Nothing /\ DesiredFrameIndex' = DisplayFrameIndex[DtoMBuffer.id] + 1
        /\ DtoMBuffer' = Nothing /\ UNCHANGED <<NonDecoded, DisplayFrameIndex>>
    BY <1>8 DEF DtoMManifest, DtoMDiscard, NextDesired, parse
  <2>2. DisplayFrameIndex[DtoMBuffer.id] \in 0 .. MaxFrames - 1
    BY <2>1, <1>0, HeadsAre, FrameIs DEF IndexedInHand, ParseRanges
  <2>3. DesiredFrameIndex' \in 0 .. MaxFrames  BY <2>1, <2>2, Bounds
  <2> QED BY <2>1, <2>3, <1>0 DEF ReorderRanges, IndexedInHand
<1>9. ASSUME NEW isReference \in BOOLEAN, Collate(isReference)
      PROVE  UNCHANGED <<NonDecoded, DesiredFrameIndex, DtoMBuffer>>
  BY <1>9 DEF Collate, dtom
<1>10. ASSUME NEW policy \in Policies, DrainBegin(policy)
       PROVE  UNCHANGED <<NonDecoded, DesiredFrameIndex, DtoMBuffer>>
  BY <1>10 DEF DrainBegin, dtom
<1>11. CASE CtoP \/ PtoDExtract \/ PtoDPass \/ PtoDControl \/ PtoDSwitch \/ CodecOutput \/ Manifest
            \/ PostMExtract
  BY <1>1, <1>11 DEF CtoP, CtoPMarker, CtoPFrame, CtoPControl, CtoPSwitch, PtoDExtract, PtoDPass,
     PtoDControl, PtoDSwitch, CodecOutput, Manifest, PostMExtract, dtom
<1>12. CASE Drain \/ DrainGiveUp
  BY <1>1, <1>12 DEF Drain, DrainJump, DrainCodec, DrainRelease, DrainCheck, DrainNumber, DrainInsert,
     DrainCallBefore, DrainCallAfter, SwitchCollator, SwitchCalls, DrainReturn, DrainGiveUp, dtom
<1>13. CASE UNCHANGED vars  BY <1>1, <1>13 DEF vars, dtom
<1> QED BY <1>3, <1>4, <1>5, <1>6, <1>7, <1>8, <1>9, <1>1, <1>10, <1>11, <1>12, <1>13
        DEF Next, PtoD, DtoMLoop, DtoMInHand

\* The drain and the switch.
LEMMA DrainStep == TypeInv /\ [Next]_vars => DrainRanges' /\ SwitchRanges' /\ Exchanges'
<1> SUFFICES ASSUME TypeInv, [Next]_vars PROVE DrainRanges' /\ SwitchRanges' /\ Exchanges'  OBVIOUS
<1>0. DrainRanges /\ SwitchRanges /\ Exchanges /\ Drained \in BOOLEAN
  BY DEF TypeInv, Ranges, MessageRanges
<1>1. ASSUME UNCHANGED drain, SwitchRanges', switch'.Collator = switch.Collator
      PROVE  DrainRanges' /\ SwitchRanges' /\ Exchanges'
  BY <1>0, <1>1 DEF DrainRanges, Exchanges
<1>2. ASSUME UNCHANGED drain, UNCHANGED switch
      PROVE  DrainRanges' /\ SwitchRanges' /\ Exchanges'
  BY <1>0, <1>1, <1>2 DEF SwitchRanges
<1>3. ASSUME NEW p \in {"codec", "release", "check", "number", "insert", "before", "after",
                        "collator"}, drain.pc # "idle",
             drain.pc \in {"jump", "codec", "release", "check", "number", "insert", "before", "after"},
             p = "collator" => drain.switch, Go(p), UNCHANGED switch
      PROVE  DrainRanges' /\ SwitchRanges' /\ Exchanges'
  BY <1>0, <1>3 DEF DrainRanges, SwitchRanges, Exchanges, Go
<1>4. ASSUME NEW p \in {"codec class", "timer", "complete", "wait", "idle"}, drain.pc # "idle",
             p \in {"codec class", "timer", "complete"} => drain.switch, Go(p), UNCHANGED switch
      PROVE  DrainRanges' /\ SwitchRanges' /\ Exchanges'
  BY <1>0, <1>4 DEF DrainRanges, SwitchRanges, Exchanges, Go
<1>5. CASE DrainJump \/ DrainCodec \/ DrainRelease \/ DrainCheck \/ DrainNumber \/ DrainInsert
           \/ DrainCallBefore
  BY <1>5, <1>3 DEF DrainJump, DrainCodec, DrainRelease, DrainCheck, DrainNumber, DrainInsert,
     DrainCallBefore, At
<1>6. CASE DrainCallAfter
  BY <1>6, <1>3, <1>4 DEF DrainCallAfter, At
<1>7. CASE SwitchCalls \/ DrainReturn
  BY <1>7, <1>4, <1>0 DEF SwitchCalls, DrainReturn, At, Exchanges
<1>8. CASE DrainGiveUp
  BY <1>8, <1>0 DEF DrainGiveUp, DrainRanges, SwitchRanges, Exchanges, At
<1>9. CASE SwitchCollator
  <2>1. drain.pc = "collator" /\ drain' = [drain EXCEPT !.pc = "parser"]
        /\ switch' = [switch EXCEPT !.InProgress = TRUE, !.LastOneOutOfTheCodec = FALSE,
                              !.Collator = @ + 1]
    BY <1>9 DEF SwitchCollator, At, Go
  <2>2. drain.switch /\ switch.Collator < drain.n /\ drain.n \in 0 .. MaxDrains
        /\ switch.Collator \in 0 .. MaxDrains /\ drain.n > 0
    BY <2>1, <1>0 DEF Exchanges, DrainRanges, SwitchRanges
  <2>3. switch.Collator + 1 \in 0 .. MaxDrains /\ switch.Collator + 1 <= drain.n  BY <2>2, Bounds
  <2>4. DrainRanges'  BY <2>1, <1>0 DEF DrainRanges
  <2>5. SwitchRanges' /\ switch'.Collator = switch.Collator + 1  BY <2>1, <2>3, <1>0 DEF SwitchRanges
  <2>6. drain'.pc = "parser" /\ drain'.n = drain.n /\ drain'.switch = drain.switch  BY <2>1, <1>0 DEF DrainRanges
  <2> QED BY <2>2, <2>3, <2>4, <2>5, <2>6 DEF Exchanges
<1>10. ASSUME NEW policy \in Policies, DrainBegin(policy)
       PROVE  DrainRanges' /\ SwitchRanges' /\ Exchanges'
  <2>1. /\ drain.pc = "idle" /\ drain.n < MaxDrains /\ UNCHANGED switch
        /\ drain' = [pc |-> IF Plays(policy) THEN "check" ELSE "jump", n |-> drain.n + 1,
               discard |-> ~Plays(policy), switch |-> IsSwitch(policy),
               failed |-> drain.failed, alone |-> drain.n = 0 \/ (drain.alone /\ Drained)]
    BY <1>10 DEF DrainBegin, At
  <2>2. drain.n + 1 \in 0 .. MaxDrains /\ drain.n \in Nat
    <3>1. drain.n \in 0 .. MaxDrains /\ drain.n < MaxDrains  BY <2>1, <1>0 DEF DrainRanges
    <3> QED BY <3>1, Bounds
  <2>3. Plays(policy) \in BOOLEAN /\ IsSwitch(policy) \in BOOLEAN  BY DEF Plays, IsSwitch
  <2>4. drain.failed \in BOOLEAN /\ (drain.n = 0 \/ (drain.alone /\ Drained)) \in BOOLEAN
    BY <1>0 DEF DrainRanges
  <2>5. DrainRanges'  BY <2>1, <2>2, <2>3, <2>4 DEF DrainRanges
  <2>6. /\ drain'.n = drain.n + 1 /\ drain'.pc \in {"check", "jump"} /\ switch' = switch /\ switch.Collator <= drain.n
        /\ switch.Collator \in Nat
    BY <2>1, <1>0, Bounds DEF Exchanges, SwitchRanges
  <2>7. SwitchRanges'  BY <2>6, <1>0 DEF SwitchRanges
  <2>8. /\ switch'.Collator < drain'.n /\ drain'.n > 0
        /\ drain'.pc \notin {"collator", "parser", "codec class", "timer", "complete"}
    <3>1. drain'.pc \notin {"collator", "parser", "codec class", "timer", "complete"}  BY <2>6
    <3>2. drain.n + 1 > 0 /\ switch.Collator < drain.n + 1  BY <2>2, <2>6
    <3> QED BY <3>1, <3>2, <2>6
  <2>9. switch'.Collator <= drain'.n  BY <2>2, <2>6
  <2> QED BY <2>5, <2>7, <2>8, <2>9 DEF Exchanges
<1>11. CASE CtoPMarker \/ CtoPControl \/ CtoPSwitch
  <2>1. UNCHANGED drain  BY <1>11 DEF CtoPMarker, CtoPControl, CtoPSwitch, drn
  <2>2. SwitchRanges' /\ switch'.Collator = switch.Collator
    BY <1>11, <1>0 DEF CtoPMarker, CtoPControl, CtoPSwitch, SwitchFrameParser, SwitchRanges
  <2> QED BY <2>1, <2>2, <1>1
<1>12. CASE PtoDPass \/ PtoDDiscard \/ PtoDControl \/ PtoDSwitch
  <2>1. UNCHANGED drain  BY <1>12 DEF PtoDPass, PtoDDiscard, PtoDControl, PtoDSwitch, drn
  <2>2. SwitchRanges' /\ switch'.Collator = switch.Collator
    <3>1. \/ UNCHANGED switch
          \/ switch' = [switch EXCEPT !.halted = @ \cup {"PtoD"}]
          \/ switch' = [switch EXCEPT !.halted = @ \ {"PtoD"}, !.CodecReset = TRUE,
                              !.Codec = switch.Collator]
      BY <1>12 DEF PtoDPass, PtoDDiscard, PtoDControl, PtoDSwitch, PtoDCallsAfter
    <3> QED BY <3>1, <1>0 DEF SwitchRanges
  <2> QED BY <2>1, <2>2, <1>1
<1>13. CASE DtoMMarker \/ DtoMExtract \/ DtoMManifest \/ DtoMDiscard
  <2>1. UNCHANGED drain  BY <1>13 DEF DtoMMarker, DtoMExtract, DtoMManifest, DtoMDiscard, drn
  <2>2. UNCHANGED switch \/ switch' = [switch EXCEPT !.LastOneOutOfTheCodec = TRUE]
    BY <1>13 DEF DtoMMarker, DtoMExtract, DtoMManifest, DtoMDiscard, DtoMCallsAfter, LastOneOut
  <2>3. SwitchRanges' /\ switch'.Collator = switch.Collator  BY <2>2, <1>0 DEF SwitchRanges
  <2> QED BY <2>1, <2>3, <1>1
<1>14. CASE PostMExtract
  <2>1. UNCHANGED drain  BY <1>14 DEF PostMExtract
  <2>2. \/ UNCHANGED switch
        \/ switch' = [switch EXCEPT !.CodecReset = FALSE, !.InProgress = FALSE]
    BY <1>14 DEF PostMExtract, PostMCall
  <2>3. SwitchRanges' /\ switch'.Collator = switch.Collator  BY <2>2, <1>0 DEF SwitchRanges
  <2> QED BY <2>1, <2>3, <1>1
<1>15. ASSUME NEW isReference \in BOOLEAN, Collate(isReference)
       PROVE  UNCHANGED drain /\ UNCHANGED switch
  BY <1>15 DEF Collate, drn
<1>16. CASE CtoPFrame \/ PtoDExtract \/ CodecOutput \/ DtoMSelect \/ DtoMTimeout \/ Manifest
  BY <1>2, <1>16 DEF CtoPFrame, PtoDExtract, CodecOutput, DtoMSelect, DtoMTimeout, Manifest, drn
<1>17. CASE UNCHANGED vars  BY <1>2, <1>17 DEF vars, drn
<1> QED BY <1>2, <1>5, <1>6, <1>7, <1>8, <1>9, <1>10, <1>11, <1>12, <1>13, <1>14, <1>15, <1>16, <1>17
        DEF Next, CtoP, PtoD, DtoMLoop, DtoMInHand, Drain
-----------------------------------------------------------------------------
\* The type invariant is kept by every step.
LEMMA TypeStep == TypeInv /\ [Next]_vars => TypeInv'
BY TypedStep, CallsStep, InputStep, MessageStep, ParseStep, ReorderStep, DrainStep
   DEF TypeInv, Ranges

\* The invariant of the types holds of every behaviour.
LEMMA TypeInvariance == Spec => []TypeInv
BY TypeInit, TypeStep, PTL DEF Spec

\* Every variable stays in its range: the rings carry frames, markers and the
\* calls of their own process, an index is one below the number of frames or
\* open, and no class is exchanged more often than drains are begun.
THEOREM PipelineTypes == Spec => []TypeOK
<1>1. TypeInv => TypeOK
  <2> SUFFICES ASSUME TypeInv PROVE TypeOK  OBVIOUS
  <2>0. Typed /\ CallsTyped /\ Ranges  BY DEF TypeInv
  <2>1. /\ FrameItems \subseteq Items /\ DroppedItems \subseteq Items /\ MarkerItems \subseteq Items
        /\ \A kinds \in SUBSET ({"jump"} \cup BeforeCalls \cup AfterCalls) : Others(kinds) \subseteq Items
        /\ Nothing \in Items
    <3>1. /\ MaxFrames <= Max({MaxFrames, MaxDrains}) /\ MaxDrains <= Max({MaxFrames, MaxDrains})
          /\ Max({MaxFrames, MaxDrains}) \in Nat
      BY Bounds, MaxOfTwo
    <3>2. Frames \subseteq 0 .. Max({MaxFrames, MaxDrains})
          /\ Markers \subseteq 0 .. Max({MaxFrames, MaxDrains}) /\ 0 \in 0 .. Max({MaxFrames, MaxDrains})
      BY <3>1, Bounds
    <3> QED BY <3>2 DEF Items, FrameItems, DroppedItems, MarkerItems, Others, Nothing, Item, None
  <2>2. /\ CollatedItems \subseteq Items /\ ParsedItems \subseteq Items /\ CodedItems \subseteq Items
        /\ DecodedItems \subseteq Items /\ ManifestedItems \subseteq Items
    BY <2>1 DEF CollatedItems, ParsedItems, CodedItems, DecodedItems, ManifestedItems, BeforeCalls, AfterCalls
  <2>3. /\ CollatedFrameRing \in Seq(Items) /\ ParsedFrameRing \in Seq(Items)
        /\ DecodedFrameRing \in Seq(Items) /\ ManifestedBufferRing \in Seq(Items)
        /\ codec \in Seq(Items) /\ manifestor \in Seq(Items)
    BY <2>0, <2>1, <2>2, SeqMonotonic DEF Typed
  <2>4. /\ {PtoDBuffer, DtoMBuffer, MarkerFrameBuffer} \subseteq Items
        /\ AccumulatedBufferTable \subseteq Items
    BY <2>0, <2>1 DEF Typed
  <2>5. Accumulated \in [Processes -> SUBSET Items]
    <3>1. ASSUME NEW p \in Processes PROVE Accumulated[p] \subseteq Items
      <4>1. CallsOf(p) \subseteq {"jump"} \cup BeforeCalls \cup AfterCalls
        BY CallsOfIs DEF Processes, BeforeCalls, AfterCalls
      <4> QED BY <4>1, <2>0, <2>1 DEF CallsTyped
    <3>2. Accumulated = [p \in Processes |-> Accumulated[p]]  BY <2>0 DEF CallsTyped
    <3> QED BY <3>1, <3>2
  <2> QED BY <2>0, <2>3, <2>4, <2>5 DEF TypeOK, Ranges, InputRanges, MessageRanges, ParseRanges,
          ReorderRanges, DrainRanges, SwitchRanges
<1> QED BY <1>1, TypeInvariance, PTL
-----------------------------------------------------------------------------
(***************************************************************************)
(* Sequence numbers.                                                       *)
(***************************************************************************)
\* What each stage holds, from the rings of CollateToParse down to what has
\* been timed.
InHand(b) == {b} \ {Nothing}
InP == ToSet(ParsedFrameRing)
InH == InHand(PtoDBuffer)
InK == ToSet(codec)
InD == ToSet(DecodedFrameRing)
InF == InHand(MarkerFrameBuffer)
InX == AccumulatedBufferTable \cup InHand(DtoMBuffer) \cup ToSet(manifestor) \cup ToSet(ManifestedBufferRing)
Everywhere == InX \cup InF \cup InD \cup InK \cup InH \cup InP

\* Everything of one stage is numbered below everything of another.
Less(A, B) == \A a \in A : \A b \in B : ~IsControl(a) /\ ~IsControl(b) => a.Value < b.Value

\* A ring is numbered in its order.
Rising(s) ==
  \A i, j \in DOMAIN s : i < j /\ ~IsControl(s[i]) /\ ~IsControl(s[j]) => s[i].Value < s[j].Value

\* The numbers fall from stage to stage, and CollateToParse has given none
\* that is not below its next one.
ChainLess ==
  /\ Less(InX, InF \cup InD \cup InK \cup InH \cup InP)
  /\ Less(InF, InD \cup InK \cup InH \cup InP)
  /\ Less(InD, InK \cup InH \cup InP)
  /\ Less(InK, InH \cup InP)
  /\ Less(InH, InP)
ChainRising == Rising(ParsedFrameRing) /\ Rising(codec) /\ Rising(DecodedFrameRing)
ChainBelow == \A m \in Everywhere : ~IsControl(m) => m.Value < NextBufferSequenceNumber
Chain == ChainLess /\ ChainRising /\ ChainBelow

\* A marker on its way to CollateToParse is the one waited for, and is numbered
\* above whatever will get a number before it.
Coming ==
  /\ \A k \in DOMAIN CollatedFrameRing : IsMarker(CollatedFrameRing[k]) =>
       /\ CollatedFrameRing[k].id = MarkerInCodedFrameIndex
       /\ NextBufferSequenceNumber + k - 1 <= CollatedFrameRing[k].Value
  /\ \A j, k \in DOMAIN CollatedFrameRing :
       IsMarker(CollatedFrameRing[j]) /\ IsMarker(CollatedFrameRing[k]) => j = k
  /\ MarkerInCodedFrameIndex # None =>
       \E k \in DOMAIN CollatedFrameRing : IsMarker(CollatedFrameRing[k])

\* The marker gets in before its number is used up: between the numbering of
\* a marker and its insertion no more buffers pass than a ring can hold, those
\* that are in the ring already included, and it does not overtake an earlier
\* marker that CollateToParse still waits for.
MarkerInTime ==
  drain.pc = "insert" =>
    /\ MarkerInCodedFrameIndex = None
    /\ NextBufferSequenceNumber + Len(CollatedFrameRing) <= DrainSequenceNumber

-----------------------------------------------------------------------------
\* A ring stays in the order of its numbers when its head is taken, and when
\* something is appended that is numbered above all of it or has no number.
LEMMA RisingTail ==
  ASSUME NEW S, NEW s \in Seq(S), s # <<>>, Rising(s), \A m \in S : m.Value \in Nat
  PROVE  /\ Rising(Tail(s))
         /\ Less({Head(s)}, ToSet(Tail(s)))
<1>1. /\ Tail(s) \in Seq(S) /\ Len(Tail(s)) = Len(s) - 1 /\ Len(s) \in Nat \ {0}
      /\ \A i \in 1 .. Len(s) - 1 : Tail(s)[i] = s[i + 1]
      /\ Head(s) = s[1]
  BY TailIs
<1>2. DOMAIN s = 1 .. Len(s) /\ DOMAIN Tail(s) = 1 .. Len(s) - 1  BY <1>1
<1>3. Rising(Tail(s))
  <2>1. ASSUME NEW i \in 1 .. Len(s) - 1, NEW j \in 1 .. Len(s) - 1, i < j,
               ~IsControl(Tail(s)[i]), ~IsControl(Tail(s)[j])
        PROVE  Tail(s)[i].Value < Tail(s)[j].Value
    <3>1. /\ i + 1 \in DOMAIN s /\ j + 1 \in DOMAIN s /\ i + 1 < j + 1
          /\ Tail(s)[i] = s[i + 1] /\ Tail(s)[j] = s[j + 1]
      BY <1>1, <1>2, <2>1
    <3> QED BY <3>1, <2>1 DEF Rising
  <2> QED BY <2>1, <1>2 DEF Rising
<1>4. ASSUME NEW m \in ToSet(Tail(s)), ~IsControl(Head(s)), ~IsControl(m)
      PROVE  Head(s).Value < m.Value
  <2>1. PICK i \in 1 .. Len(s) - 1 : m = Tail(s)[i]  BY <1>2 DEF ToSet
  <2>2. 1 \in DOMAIN s /\ i + 1 \in DOMAIN s /\ 1 < i + 1 /\ m = s[i + 1]  BY <1>1, <1>2, <2>1
  <2> QED BY <2>2, <1>1, <1>4 DEF Rising
<1> QED BY <1>3, <1>4 DEF Less

\* A larger number appended to a rising ring leaves it rising.
LEMMA RisingAppend ==
  ASSUME NEW S, NEW s \in Seq(S), NEW e \in S, Rising(s),
         IsControl(e) \/ Less(ToSet(s), {e})
  PROVE  Rising(Append(s, e))
<1>1. /\ Append(s, e) \in Seq(S) /\ Len(Append(s, e)) = Len(s) + 1 /\ Len(s) \in Nat
      /\ \A i \in 1 .. Len(s) : Append(s, e)[i] = s[i]
      /\ Append(s, e)[Len(s) + 1] = e
  BY AppendIs
<1>2. DOMAIN s = 1 .. Len(s) /\ DOMAIN Append(s, e) = 1 .. Len(s) + 1  BY <1>1
<1>3. ASSUME NEW i \in 1 .. Len(s) + 1, NEW j \in 1 .. Len(s) + 1, i < j,
             ~IsControl(Append(s, e)[i]), ~IsControl(Append(s, e)[j])
      PROVE  Append(s, e)[i].Value < Append(s, e)[j].Value
  <2>1. i \in 1 .. Len(s) /\ Append(s, e)[i] = s[i]  BY <1>1, <1>3
  <2>2. CASE j = Len(s) + 1
    <3>1. Append(s, e)[j] = e /\ s[i] \in ToSet(s)  BY <2>1, <2>2, <1>1, <1>2 DEF ToSet
    <3> QED BY <2>1, <3>1, <1>3 DEF Less
  <2>3. CASE j # Len(s) + 1
    <3>1. j \in 1 .. Len(s) /\ Append(s, e)[j] = s[j]  BY <2>3, <1>1, <1>3
    <3> QED BY <2>1, <3>1, <1>2, <1>3 DEF Rising
  <2> QED BY <2>2, <2>3
<1> QED BY <1>2, <1>3 DEF Rising

\* The codec without its marker is in order too.
LEMMA RisingUnmarked ==
  ASSUME NEW S, codec \in Seq(S), Rising(codec)
  PROVE  /\ CodecUnmarked \in Seq(S) /\ Rising(CodecUnmarked)
         /\ ToSet(CodecUnmarked) \subseteq ToSet(codec)
<1>1. CASE CodecUnmarked = codec  BY <1>1
<1>2. ASSUME NEW k \in 1 .. Len(codec), CodecUnmarked \in Seq(S),
             Len(CodecUnmarked) = Len(codec) - 1,
             \A i \in 1 .. Len(codec) - 1 :
               CodecUnmarked[i] = IF i < k THEN codec[i] ELSE codec[i + 1]
      PROVE  Rising(CodecUnmarked) /\ ToSet(CodecUnmarked) \subseteq ToSet(codec)
  <2> DEFINE u == CodecUnmarked
             at(i) == IF i < k THEN i ELSE i + 1
  <2>1. DOMAIN u = 1 .. Len(codec) - 1 /\ DOMAIN codec = 1 .. Len(codec) /\ Len(codec) \in Nat
    BY <1>2
  <2>2. ASSUME NEW i \in DOMAIN u PROVE at(i) \in DOMAIN codec /\ u[i] = codec[at(i)]
    BY <1>2, <2>1
  <2>3. ASSUME NEW i \in DOMAIN u, NEW j \in DOMAIN u, i < j PROVE at(i) < at(j)
    BY <1>2, <2>1, <2>3
  <2> HIDE DEF u, at
  <2>4. Rising(u)  BY <2>2, <2>3 DEF Rising
  <2>5. ToSet(u) \subseteq ToSet(codec)  BY <2>2 DEF ToSet
  <2> QED BY <2>4, <2>5 DEF u
<1> QED BY <1>1, <1>2, UnmarkedIs
-----------------------------------------------------------------------------
\* What is in hand, in a ring or in a table has a number.
LEMMA Numbers ==
  ASSUME Typed
  PROVE  /\ \A m \in Everywhere : m.Value \in Nat
         /\ \A m \in InH \cup InF : ~IsControl(m)
         /\ PtoDBuffer = Nothing => InH = {}
         /\ PtoDBuffer # Nothing => InH = {PtoDBuffer}
         /\ MarkerFrameBuffer = Nothing => InF = {}
         /\ MarkerFrameBuffer # Nothing => InF = {MarkerFrameBuffer}
<1>1. /\ \A m \in ToSet(ParsedFrameRing) : m.Value \in Nat
      /\ \A m \in ToSet(codec) : m.Value \in Nat
      /\ \A m \in ToSet(DecodedFrameRing) : m.Value \in Nat
      /\ \A m \in ToSet(manifestor) : m.Value \in Nat
      /\ \A m \in ToSet(ManifestedBufferRing) : m.Value \in Nat
  BY MembersOf, ParsedIs, CodedIs, DecodedIs, FrameIs, ManifestedIs DEF Typed
<1>2. /\ \A m \in InHand(PtoDBuffer) : m.Value \in Nat /\ ~IsControl(m)
      /\ \A m \in InHand(MarkerFrameBuffer) : m.Value \in Nat /\ ~IsControl(m)
      /\ \A m \in InHand(DtoMBuffer) : m.Value \in Nat
      /\ \A m \in AccumulatedBufferTable : m.Value \in Nat
  BY FrameIs, MarkerIs DEF Typed, InHand
<1> QED BY <1>1, <1>2 DEF Everywhere, InX, InF, InD, InK, InH, InP, InHand

\* The order of the numbers holds of the initial states.
LEMMA ChainInit == Init => Chain /\ Coming
<1> SUFFICES ASSUME Init PROVE Chain /\ Coming  OBVIOUS
<1>1. InP = {} /\ InH = {} /\ InK = {} /\ InD = {} /\ InF = {} /\ InX = {}
  BY DEF Init, InP, InH, InK, InD, InF, InX, InHand, ToSet
<1>2. Rising(<<>>)  BY DEF Rising
<1>3. Coming  BY DEF Init, Coming
<1> QED BY <1>1, <1>2, <1>3 DEF Init, Chain, ChainLess, ChainRising, ChainBelow, Less, Everywhere

\* A call that is put into a ring, whose number is not one of the ring's.
LEMMA ChainCall ==
  ASSUME Typed, Chain,
         UNCHANGED <<NextBufferSequenceNumber, PtoDBuffer, codec,
                     MarkerFrameBuffer, AccumulatedBufferTable, DtoMBuffer, manifestor>>,
         NEW e, IsControl(e),
         \/ /\ e \in ParsedItems /\ ParsedFrameRing' = Append(ParsedFrameRing, e)
            /\ UNCHANGED <<DecodedFrameRing, ManifestedBufferRing>>
         \/ /\ e \in DecodedItems /\ DecodedFrameRing' = Append(DecodedFrameRing, e)
            /\ UNCHANGED <<ParsedFrameRing, ManifestedBufferRing>>
         \/ /\ e \in ManifestedItems /\ ManifestedBufferRing' = Append(ManifestedBufferRing, e)
            /\ UNCHANGED <<ParsedFrameRing, DecodedFrameRing>>
  PROVE  Chain'
<1>1. Rising(ParsedFrameRing) /\ Rising(DecodedFrameRing) /\ Rising(codec)  BY DEF Chain, ChainRising
<1>2. Rising(ParsedFrameRing') /\ Rising(DecodedFrameRing') /\ Rising(codec')
  BY <1>1, RisingAppend DEF Typed
<1>3. /\ InP' \subseteq InP \cup {e} /\ InD' \subseteq InD \cup {e} /\ InX' \subseteq InX \cup {e}
  <2>1. CASE e \in ParsedItems /\ ParsedFrameRing' = Append(ParsedFrameRing, e)
             /\ UNCHANGED <<DecodedFrameRing, ManifestedBufferRing>>
    <3>1. InP' = InP \cup {e}  BY <2>1, AppendIs DEF Typed, InP
    <3> QED BY <2>1, <3>1 DEF InD, InX, ToSet
  <2>2. CASE e \in DecodedItems /\ DecodedFrameRing' = Append(DecodedFrameRing, e)
             /\ UNCHANGED <<ParsedFrameRing, ManifestedBufferRing>>
    <3>1. InD' = InD \cup {e}  BY <2>2, AppendIs DEF Typed, InD
    <3> QED BY <2>2, <3>1 DEF InP, InX, ToSet
  <2>3. CASE e \in ManifestedItems /\ ManifestedBufferRing' = Append(ManifestedBufferRing, e)
             /\ UNCHANGED <<ParsedFrameRing, DecodedFrameRing>>
    <3>1. ToSet(ManifestedBufferRing') = ToSet(ManifestedBufferRing) \cup {e}
      BY <2>3, AppendIs DEF Typed
    <3> QED BY <2>3, <3>1 DEF InP, InD, InX, ToSet
  <2> QED BY <2>1, <2>2, <2>3
<1>4. InH' = InH /\ InK' = InK /\ InF' = InF  BY DEF InH, InK, InF, ToSet
<1>5. ChainLess'  BY <1>3, <1>4 DEF Chain, ChainLess, Less
<1>6. ChainBelow'  BY <1>3, <1>4 DEF Chain, ChainBelow, Everywhere
<1> QED BY <1>2, <1>5, <1>6 DEF Chain, ChainRising

\* Buffers released move from the manifestor to the ring of PostManifest.
LEMMA ReleasedIs ==
  ASSUME NEW S, NEW q \in Seq(S), NEW T, S \subseteq T, NEW r \in Seq(T),
         NEW shown \in 0 .. Min({1, Len(q)})
  PROVE  /\ shown \in 0 .. Len(q)
         /\ ToSet(SubSeq(q, 1, shown)) \cup ToSet(r \o SubSeq(q, shown + 1, Len(q)))
              = ToSet(q) \cup ToSet(r)
         /\ ToSet(SubSeq(q, 1, shown)) \subseteq ToSet(q)
<1>1. Len(q) \in Nat /\ DOMAIN q = 1 .. Len(q) /\ Len(r) \in Nat /\ DOMAIN r = 1 .. Len(r)  OBVIOUS
<1>2. Min({1, Len(q)}) = IF 1 <= Len(q) THEN 1 ELSE Len(q)
  BY <1>1, 1 \in Nat, MinOfTwo, Zenon
<1>3. shown \in 0 .. Len(q) /\ shown \in Nat  BY <1>1, <1>2
<1> DEFINE a == SubSeq(q, 1, shown)
           b == SubSeq(q, shown + 1, Len(q))
<1>4. a \in Seq(S) /\ Len(a) = shown /\ \A i \in 1 .. shown : a[i] = q[i]
  BY <1>1, <1>3, SubSeqProperties, ElementOfSeq
<1>5. /\ b \in Seq(T) /\ Len(b) = Len(q) - shown
      /\ \A i \in 1 .. Len(q) - shown : b[i] = q[i + shown]
  <2>1. \A i \in shown + 1 .. Len(q) : q[i] \in T  BY <1>1, <1>3
  <2>2. shown + 1 \in Int /\ Len(q) \in Int  BY <1>1, <1>3
  <2>3. /\ b \in Seq(T) /\ Len(b) = IF shown + 1 <= Len(q) THEN Len(q) - (shown + 1) + 1 ELSE 0
        /\ \A i \in 1 .. Len(q) - (shown + 1) + 1 : b[i] = q[(shown + 1) + i - 1]
    BY <2>1, <2>2, SubSeqProperties
  <2> HIDE DEF b
  <2>4. Len(q) - (shown + 1) + 1 = Len(q) - shown /\ (shown + 1 <= Len(q) <=> Len(q) - shown # 0)
    <3>1. Len(q) \in Nat /\ shown \in Nat /\ shown <= Len(q)  BY <1>1, <1>3
    <3>2. \A m, n \in Nat : n <= m => m - (n + 1) + 1 = m - n /\ (n + 1 <= m <=> m - n # 0)  OBVIOUS
    <3> QED BY <3>1, <3>2, Zenon
  <2>5. Len(b) = Len(q) - shown  BY <2>3, <2>4
  <2>6. ASSUME NEW i \in 1 .. Len(q) - shown PROVE b[i] = q[i + shown]
    <3>1. (shown + 1) + i - 1 = i + shown  BY <1>1, <1>3
    <3> QED BY <2>3, <2>4, <3>1
  <2> QED BY <2>3, <2>5, <2>6
<1> HIDE DEF a, b
<1>6. /\ r \o b \in Seq(T) /\ Len(r \o b) = Len(r) + Len(b)
      /\ \A i \in 1 .. Len(r) + Len(b) : (r \o b)[i] = IF i <= Len(r) THEN r[i] ELSE b[i - Len(r)]
  BY <1>5, ConcatProperties
<1> DEFINE c == r \o b
<1> HIDE DEF c
<1>7. DOMAIN a = 1 .. shown /\ DOMAIN c = 1 .. Len(r) + (Len(q) - shown)
  BY <1>4, <1>5, <1>6 DEF c
<1>8. ASSUME NEW m \in ToSet(a) PROVE m \in ToSet(q)
  BY <1>8, <1>4, <1>7, <1>1, <1>3 DEF ToSet
<1>9. ASSUME NEW m \in ToSet(c) PROVE m \in ToSet(q) \cup ToSet(r)
  <2>1. PICK i \in 1 .. Len(r) + (Len(q) - shown) : m = c[i]  BY <1>7 DEF ToSet
  <2>2. CASE i <= Len(r)
    <3>1. i \in 1 .. Len(r) /\ i \in 1 .. Len(r) + Len(b)  BY <2>1, <2>2, <1>1, <1>3, <1>5
    <3>2. m = r[i]  BY <2>1, <2>2, <3>1, <1>6 DEF c
    <3> QED BY <3>1, <3>2, <1>1 DEF ToSet
  <2>3. CASE ~(i <= Len(r))
    <3>1. i - Len(r) \in 1 .. Len(q) - shown  BY <2>1, <2>3, <1>1, <1>3
    <3>2. m = q[i - Len(r) + shown]  BY <2>1, <2>3, <3>1, <1>5, <1>6 DEF c
    <3>3. i - Len(r) + shown \in 1 .. Len(q)  BY <3>1, <1>1, <1>3
    <3> QED BY <3>2, <3>3, <1>1 DEF ToSet
  <2> QED BY <2>2, <2>3
<1>10. ASSUME NEW m \in ToSet(r) PROVE m \in ToSet(c)
  <2>1. PICK i \in 1 .. Len(r) : m = r[i]  BY <1>1 DEF ToSet
  <2>2. i \in 1 .. Len(r) + (Len(q) - shown) /\ i <= Len(r)  BY <2>1, <1>1, <1>3
  <2>3. c[i] = m  BY <2>1, <2>2, <1>5, <1>6 DEF c
  <2> QED BY <2>2, <2>3, <1>7 DEF ToSet
<1>11. ASSUME NEW m \in ToSet(q) PROVE m \in ToSet(a) \cup ToSet(c)
  <2>1. PICK i \in 1 .. Len(q) : m = q[i]  BY <1>1 DEF ToSet
  <2>2. CASE i <= shown
    <3>1. i \in 1 .. shown /\ a[i] = m  BY <2>1, <2>2, <1>1, <1>3, <1>4
    <3> QED BY <3>1, <1>7 DEF ToSet
  <2>3. CASE ~(i <= shown)
    <3>1. i - shown \in 1 .. Len(q) - shown  BY <2>1, <2>3, <1>1, <1>3
    <3>2. b[i - shown] = m  BY <3>1, <2>1, <1>5, <1>1, <1>3
    <3>3. /\ Len(r) + (i - shown) \in 1 .. Len(r) + (Len(q) - shown)
          /\ ~(Len(r) + (i - shown) <= Len(r)) /\ (Len(r) + (i - shown)) - Len(r) = i - shown
      BY <3>1, <1>1, <1>3
    <3>4. c[Len(r) + (i - shown)] = m  BY <3>2, <3>3, <1>5, <1>6 DEF c
    <3> QED BY <3>3, <3>4, <1>7 DEF ToSet
  <2> QED BY <2>2, <2>3
<1>12. ToSet(a) \cup ToSet(c) = ToSet(q) \cup ToSet(r) /\ ToSet(a) \subseteq ToSet(q)
  BY <1>8, <1>9, <1>10, <1>11
<1> QED BY <1>3, <1>12 DEF a, b, c

\* Every step keeps the numbers of each stage above those of the stages after it.
LEMMA ChainStep == TypeInv /\ Chain /\ Coming /\ [Next]_vars => Chain'
<1> SUFFICES ASSUME TypeInv, Chain, Coming, [Next]_vars PROVE Chain'  OBVIOUS
<1>0. /\ Typed /\ MessageRanges /\ ChainLess /\ ChainRising /\ ChainBelow
      /\ NextBufferSequenceNumber \in Nat
      /\ \A m \in Everywhere : m.Value \in Nat
      /\ \A m \in InH \cup InF : ~IsControl(m)
      /\ PtoDBuffer = Nothing => InH = {}
      /\ PtoDBuffer # Nothing => InH = {PtoDBuffer}
      /\ MarkerFrameBuffer = Nothing => InF = {}
      /\ MarkerFrameBuffer # Nothing => InF = {MarkerFrameBuffer}
  BY Numbers DEF TypeInv, Ranges, MessageRanges, Chain
<1>1. ASSUME InP' = InP, InH' = InH, InK' = InK, InD' = InD, InF' = InF, InX' \subseteq InX,
             UNCHANGED <<NextBufferSequenceNumber, ParsedFrameRing, codec, DecodedFrameRing>>
      PROVE  Chain'
  BY <1>0, <1>1 DEF Chain, ChainLess, ChainRising, ChainBelow, Less, Everywhere, Rising
<1>2. ASSUME UNCHANGED <<NextBufferSequenceNumber, ParsedFrameRing, PtoDBuffer, codec, DecodedFrameRing,
                         MarkerFrameBuffer, AccumulatedBufferTable, DtoMBuffer, manifestor,
                         ManifestedBufferRing>>
      PROVE  Chain'
  BY <1>1, <1>2 DEF InP, InH, InK, InD, InF, InX, ToSet
\* What CollateToParse passes on.
<1>3. ASSUME NEW m \in ParsedItems, ~IsControl(m), NextBufferSequenceNumber <= m.Value,
             NextBufferSequenceNumber' = m.Value + 1,
             ParsedFrameRing' = Append(ParsedFrameRing, m),
             UNCHANGED <<PtoDBuffer, codec, DecodedFrameRing,
                         MarkerFrameBuffer, AccumulatedBufferTable, DtoMBuffer, manifestor,
                         ManifestedBufferRing>>
      PROVE  Chain'
  <2>1. InP' = InP \cup {m}  BY <1>0, <1>3, AppendIs DEF InP, Typed
  <2>2. InH' = InH /\ InK' = InK /\ InD' = InD /\ InF' = InF /\ InX' = InX
    BY <1>3 DEF InH, InK, InD, InF, InX, ToSet
  <2>3. Less(Everywhere, {m})
    BY <1>0, <1>3, ParsedIs DEF ChainBelow, Less
  <2>4. Rising(Append(ParsedFrameRing, m))
    <3>1. Less(ToSet(ParsedFrameRing), {m})  BY <2>3 DEF Less, Everywhere, InP
    <3> QED BY <3>1, <1>0, RisingAppend DEF ChainRising, Typed
  <2>5. ChainLess'
    BY <2>1, <2>2, <2>3, <1>0 DEF ChainLess, Less, Everywhere
  <2>6. ChainBelow'
    <3>1. ASSUME NEW x \in Everywhere', ~IsControl(x) PROVE x.Value < m.Value + 1
      <4>1. x \in Everywhere \/ x = m  BY <2>1, <2>2, <3>1 DEF Everywhere
      <4>2. m.Value \in Nat  BY ParsedIs
      <4>3. CASE x \in Everywhere  BY <4>2, <4>3, <1>0, <1>3, <3>1 DEF ChainBelow
      <4> QED BY <4>1, <4>2, <4>3
    <3> QED BY <3>1, <1>3 DEF ChainBelow
  <2> QED BY <2>4, <2>5, <2>6, <1>0, <1>3 DEF Chain, ChainRising
<1>4. CASE CtoPMarker
  <2> DEFINE m == Head(CollatedFrameRing)
  <2>1. /\ CollatedFrameRing # <<>> /\ IsMarker(m) /\ NextBufferSequenceNumber' = m.Value + 1
        /\ ParsedFrameRing' = Append(ParsedFrameRing, m)
        /\ UNCHANGED <<PtoDBuffer, codec, DecodedFrameRing,
                         MarkerFrameBuffer, AccumulatedBufferTable, DtoMBuffer, manifestor,
                         ManifestedBufferRing>>
    BY <1>4 DEF CtoPMarker, dtom
  <2>2. m \in MarkerItems  BY <2>1, <1>0, HeadsAre, CollatedIs
  <2>3. m \in ParsedItems /\ ~IsControl(m)  BY <2>2, ItemSets, MarkerIs
  <2>4. 1 \in DOMAIN CollatedFrameRing /\ m = CollatedFrameRing[1]
    BY <2>1, <1>0, TailIs, MembersOf DEF Typed
  <2>5. NextBufferSequenceNumber <= m.Value
    <3>1. NextBufferSequenceNumber + 1 - 1 <= CollatedFrameRing[1].Value
      BY <2>4, <2>1 DEF Coming
    <3> QED BY <3>1, <2>4, <1>0
  <2> HIDE DEF m
  <2> QED BY <2>1, <2>3, <2>5, <1>3
<1>5. CASE CtoPFrame
  <2> DEFINE h == Head(CollatedFrameRing)
             m == [h EXCEPT !.Value = NextBufferSequenceNumber]
  <2>1. /\ CollatedFrameRing # <<>>
        /\ NextBufferSequenceNumber' = NextBufferSequenceNumber + 1
        /\ \/ UNCHANGED ParsedFrameRing
           \/ IsFrame(m) /\ ParsedFrameRing' = Append(ParsedFrameRing, m)
        /\ UNCHANGED <<PtoDBuffer, codec, DecodedFrameRing,
                         MarkerFrameBuffer, AccumulatedBufferTable, DtoMBuffer, manifestor,
                         ManifestedBufferRing>>
    BY <1>5 DEF CtoPFrame, dtom
  <2>2. h \in CollatedItems  BY <2>1, <1>0, HeadsAre
  <2>3. m.kind = h.kind  BY <2>2 DEF CollatedItems, FrameItems, MarkerItems, Others
  <2>4. ASSUME IsFrame(m) PROVE m \in FrameItems /\ m.Value = NextBufferSequenceNumber
    <3>1. h \in FrameItems  BY <2>2, <2>3, <2>4, CollatedIs DEF IsFrame
    <3> QED BY <3>1, <1>0, FrameIs
  <2> HIDE DEF m
  <2>5. CASE IsFrame(m) /\ ParsedFrameRing' = Append(ParsedFrameRing, m)
    <3>1. m \in ParsedItems /\ ~IsControl(m) /\ NextBufferSequenceNumber <= m.Value
          /\ NextBufferSequenceNumber' = m.Value + 1
      <4>1. m \in FrameItems /\ m.Value = NextBufferSequenceNumber  BY <2>4, <2>5
      <4>2. m \in ParsedItems /\ ~IsControl(m)  BY <4>1, ItemSets, FrameIs
      <4>3. NextBufferSequenceNumber <= m.Value /\ NextBufferSequenceNumber' = m.Value + 1
        BY <4>1, <2>1, <1>0
      <4> QED BY <4>2, <4>3
    <3> QED BY <3>1, <2>1, <2>5, <1>3
  <2>6. CASE UNCHANGED ParsedFrameRing
    <3>1. InP' = InP /\ InH' = InH /\ InK' = InK /\ InD' = InD /\ InF' = InF /\ InX' = InX
      BY <2>1, <2>6 DEF InP, InH, InK, InD, InF, InX, ToSet
    <3>2. ChainBelow'
      <4>1. ASSUME NEW x \in Everywhere', ~IsControl(x) PROVE x.Value < NextBufferSequenceNumber + 1
        <5>1. x \in Everywhere  BY <3>1, <4>1 DEF Everywhere
        <5> QED BY <5>1, <4>1, <1>0 DEF ChainBelow
      <4> QED BY <4>1, <2>1 DEF ChainBelow
    <3>3. ChainLess' /\ ChainRising'
      BY <3>1, <1>0, <2>1, <2>6 DEF ChainLess, ChainRising, Less, Rising
    <3> QED BY <3>2, <3>3 DEF Chain
  <2> QED BY <2>1, <2>5, <2>6
<1>6. CASE PtoDExtract
  <2> DEFINE m == Head(ParsedFrameRing)
  <2>1. /\ PtoDBuffer = Nothing /\ ParsedFrameRing # <<>> /\ ~IsControl(m) /\ PtoDBuffer' = m
        /\ ParsedFrameRing' = Tail(ParsedFrameRing)
        /\ UNCHANGED <<NextBufferSequenceNumber, codec, DecodedFrameRing,
                         MarkerFrameBuffer, AccumulatedBufferTable, DtoMBuffer, manifestor,
                         ManifestedBufferRing>>
    BY <1>6 DEF PtoDExtract, dtom
  <2>2. m \in InP /\ InP' \subseteq InP  BY <2>1, <1>0, TailIs DEF InP, Typed
  <2>3. Rising(Tail(ParsedFrameRing)) /\ Less({m}, InP')
    BY <2>1, <1>0, RisingTail, ParsedIs DEF InP, Typed, ChainRising
  <2>4. InH' \subseteq {m} /\ InH = {}  BY <2>1, <1>0 DEF InH, InHand
  <2>5. InK' = InK /\ InD' = InD /\ InF' = InF /\ InX' = InX
    BY <2>1 DEF InK, InD, InF, InX, ToSet
  <2> HIDE DEF m
  <2>6. ChainLess'
    BY <2>2, <2>3, <2>4, <2>5, <1>0 DEF ChainLess, Less
  <2>7. ChainBelow'
    BY <2>1, <2>2, <2>4, <2>5, <1>0 DEF ChainBelow, Everywhere
  <2> QED BY <2>1, <2>3, <2>6, <2>7, <1>0 DEF Chain, ChainRising
<1>7. CASE PtoDPass
  <2> DEFINE k == IF IsMarker(PtoDBuffer) THEN CodecUnmarked ELSE codec
  <2>1. /\ PtoDBuffer # Nothing /\ PtoDBuffer' = Nothing /\ codec' = Append(k, PtoDBuffer)
        /\ UNCHANGED <<NextBufferSequenceNumber, ParsedFrameRing, DecodedFrameRing,
                         MarkerFrameBuffer, AccumulatedBufferTable, DtoMBuffer, manifestor,
                         ManifestedBufferRing>>
    BY <1>7 DEF PtoDPass, dtom, rings
  <2>2. k \in Seq(CodedItems) /\ Rising(k) /\ ToSet(k) \subseteq InK
    BY <1>0, RisingUnmarked DEF Typed, ChainRising, InK
  <2>3. PtoDBuffer \in CodedItems  BY <2>1, <1>0, ItemSets, HeadsAre
  <2>4. InH = {PtoDBuffer} /\ InH' = {}  BY <2>1, <1>0 DEF InH, InHand
  <2> HIDE DEF k
  <2>5. InK' = ToSet(k) \cup {PtoDBuffer}  BY <2>1, <2>2, <2>3, AppendIs DEF InK
  <2>6. Rising(codec')
    <3>1. Less(ToSet(k), {PtoDBuffer})  BY <2>2, <2>4, <1>0 DEF ChainLess, Less
    <3> QED BY <3>1, <2>1, <2>2, <2>3, RisingAppend
  <2>7. InP' = InP /\ InD' = InD /\ InF' = InF /\ InX' = InX
    BY <2>1 DEF InP, InD, InF, InX, ToSet
  <2>8. InK' \subseteq InK \cup InH  BY <2>2, <2>4, <2>5
  <2>9. ChainLess'
    BY <2>4, <2>7, <2>8, <1>0 DEF ChainLess, Less
  <2>10. ChainBelow'
    BY <2>1, <2>4, <2>7, <2>8, <1>0 DEF ChainBelow, Everywhere
  <2> QED BY <2>1, <2>6, <2>9, <2>10, <1>0 DEF Chain, ChainRising
<1>8. CASE PtoDDiscard \/ PtoDSwitch
  <2>1. /\ InP' = InP /\ InH' \subseteq InH /\ InK' \subseteq InK /\ InD' = InD /\ InF' = InF /\ InX' = InX
        /\ UNCHANGED <<NextBufferSequenceNumber, ParsedFrameRing, DecodedFrameRing>>
        /\ codec' = codec \/ codec' = <<>>
    BY <1>8 DEF PtoDDiscard, PtoDSwitch, dtom, rings, InP, InH, InK, InD, InF, InX, InHand, ToSet
  <2>2. Rising(codec')  BY <2>1, <1>0 DEF ChainRising, Rising
  <2>3. ChainLess'
    BY <2>1, <1>0 DEF ChainLess, Less
  <2>4. ChainBelow'
    BY <2>1, <1>0 DEF ChainBelow, Everywhere
  <2> QED BY <2>1, <2>2, <2>3, <2>4, <1>0 DEF Chain, ChainRising
<1>9. CASE PtoDControl
  <2>1. /\ ParsedFrameRing # <<>> /\ ParsedFrameRing' = Tail(ParsedFrameRing)
        /\ UNCHANGED <<NextBufferSequenceNumber, PtoDBuffer, codec, DecodedFrameRing,
                         MarkerFrameBuffer, AccumulatedBufferTable, DtoMBuffer, manifestor,
                         ManifestedBufferRing>>
    BY <1>9 DEF PtoDControl, dtom
  <2>2. InP' \subseteq InP  BY <2>1, <1>0, TailIs DEF InP, Typed
  <2>3. Rising(Tail(ParsedFrameRing))
    BY <2>1, <1>0, RisingTail, ParsedIs DEF InP, Typed, ChainRising
  <2>5. InH' = InH /\ InK' = InK /\ InD' = InD /\ InF' = InF /\ InX' = InX
    BY <2>1 DEF InH, InK, InD, InF, InX, ToSet
  <2>6. ChainLess'
    BY <2>2, <2>5, <1>0 DEF ChainLess, Less
  <2>7. ChainBelow'
    BY <2>1, <2>2, <2>5, <1>0 DEF ChainBelow, Everywhere
  <2> QED BY <2>1, <2>3, <2>6, <2>7, <1>0 DEF Chain, ChainRising
<1>10. CASE CodecOutput
  <2> DEFINE m == Head(codec)
  <2>1. /\ codec # <<>> /\ codec' = Tail(codec)
        /\ DecodedFrameRing' = IF m.kind = "dropped" THEN DecodedFrameRing ELSE Append(DecodedFrameRing, m)
        /\ UNCHANGED <<NextBufferSequenceNumber, ParsedFrameRing, PtoDBuffer,
                         MarkerFrameBuffer, AccumulatedBufferTable, DtoMBuffer, manifestor,
                         ManifestedBufferRing>>
    BY <1>10 DEF CodecOutput, dtom
  <2>2. m \in InK /\ InK' \subseteq InK /\ m \in CodedItems  BY <2>1, <1>0, TailIs DEF InK, Typed
  <2>3. Rising(Tail(codec)) /\ Less({m}, InK')
    BY <2>1, <1>0, RisingTail, CodedIs DEF InK, Typed, ChainRising
  <2> HIDE DEF m
  <2>4. m.kind # "dropped" => m \in DecodedItems  BY <2>2, CodedIs, ItemSets
  <2>5. InD' \subseteq InD \cup {m} /\ Rising(DecodedFrameRing')
    <3>1. CASE m.kind = "dropped"  BY <3>1, <2>1, <1>0 DEF InD, ToSet, ChainRising
    <3>2. CASE m.kind # "dropped"
      <4>1. Less(ToSet(DecodedFrameRing), {m})  BY <2>2, <1>0 DEF ChainLess, Less, InD
      <4>2. DecodedFrameRing' = Append(DecodedFrameRing, m) /\ m \in DecodedItems  BY <3>2, <2>1, <2>4
      <4>3. InD' = InD \cup {m}  BY <4>2, <1>0, AppendIs DEF InD, Typed
      <4>4. Rising(DecodedFrameRing')  BY <4>1, <4>2, <1>0, RisingAppend DEF Typed, ChainRising
      <4> QED BY <4>3, <4>4
    <3> QED BY <3>1, <3>2
  <2>6. InP' = InP /\ InH' = InH /\ InF' = InF /\ InX' = InX
    BY <2>1 DEF InP, InH, InF, InX, ToSet
  <2>7. ChainLess'
    BY <2>2, <2>3, <2>5, <2>6, <1>0 DEF ChainLess, Less
  <2>8. ChainBelow'
    BY <2>1, <2>2, <2>5, <2>6, <1>0 DEF ChainBelow, Everywhere
  <2> QED BY <2>1, <2>3, <2>5, <2>7, <2>8, <1>0 DEF Chain, ChainRising
<1>11. CASE DtoMSelect
  <2>1. /\ DtoMBuffer' = Lowest /\ Lowest \in AccumulatedBufferTable
        /\ AccumulatedBufferTable' = AccumulatedBufferTable \ {Lowest}
        /\ UNCHANGED <<NextBufferSequenceNumber, ParsedFrameRing, PtoDBuffer, codec, DecodedFrameRing,
                       MarkerFrameBuffer, manifestor, ManifestedBufferRing>>
    BY <1>11, <1>0, SelectedIs DEF DtoMSelect, TakeFrame, Typed, TypeInv, Ranges, rings
  <2>2. InX' \subseteq InX  BY <2>1 DEF InX, InHand, ToSet
  <2> QED BY <2>1, <2>2, <1>1 DEF InP, InH, InK, InD, InF, ToSet
<1>12. CASE DtoMMarker
  <2>1. /\ MarkerFrameBuffer' = Nothing /\ MarkerFrameBuffer # Nothing /\ MarkerFrameBuffer \in MarkerItems
        /\ ManifestedBufferRing' = Append(ManifestedBufferRing, MarkerFrameBuffer)
        /\ UNCHANGED <<NextBufferSequenceNumber, ParsedFrameRing, PtoDBuffer, codec, DecodedFrameRing,
                       AccumulatedBufferTable, DtoMBuffer, manifestor>>
    BY <1>12, <1>0, NothingIs DEF DtoMMarker, Typed
  <2>2. ToSet(ManifestedBufferRing') = ToSet(ManifestedBufferRing) \cup {MarkerFrameBuffer}
    BY <2>1, <1>0, AppendIs, ItemSets DEF Typed
  <2>3. InX' \subseteq InX \cup InF /\ InF' = {}
    BY <2>1, <2>2, <1>0 DEF InX, InF, InHand, ToSet
  <2>4. InP' = InP /\ InH' = InH /\ InK' = InK /\ InD' = InD
    BY <2>1 DEF InP, InH, InK, InD, ToSet
  <2>5. ChainLess'
    BY <2>3, <2>4, <1>0 DEF ChainLess, Less
  <2>6. ChainBelow'
    BY <2>1, <2>3, <2>4, <1>0 DEF ChainBelow, Everywhere
  <2> QED BY <2>1, <2>5, <2>6, <1>0 DEF Chain, ChainRising
<1>13. CASE DtoMExtract
  <2> DEFINE m == Head(DecodedFrameRing)
  <2>1. /\ DecodedFrameRing # <<>> /\ DecodedFrameRing' = Tail(DecodedFrameRing)
        /\ MarkerFrameBuffer = Nothing
        /\ UNCHANGED <<NextBufferSequenceNumber, ParsedFrameRing, PtoDBuffer, codec, manifestor,
                       ManifestedBufferRing>>
        /\ \/ UNCHANGED <<AccumulatedBufferTable, MarkerFrameBuffer, DtoMBuffer>>
           \/ /\ MarkerFrameBuffer' = m
              /\ UNCHANGED <<AccumulatedBufferTable, DtoMBuffer>>
           \/ /\ DtoMBuffer' = m
              /\ UNCHANGED <<AccumulatedBufferTable, MarkerFrameBuffer>>
           \/ /\ AccumulatedBufferTable' = AccumulatedBufferTable \cup {m}
              /\ UNCHANGED <<MarkerFrameBuffer, DtoMBuffer>>
    BY <1>13 DEF DtoMExtract, TakeFrame
  <2>2. m \in InD /\ InD' \subseteq InD  BY <2>1, <1>0, TailIs DEF InD, Typed
  <2>3. Rising(Tail(DecodedFrameRing)) /\ Less({m}, InD')
    BY <2>1, <1>0, RisingTail, DecodedIs DEF InD, Typed, ChainRising
  <2> HIDE DEF m
  <2>4. \/ InX' \subseteq InX \cup {m} /\ InF' = {}
        \/ InX' = InX /\ InF' \subseteq {m}
    BY <2>1, <1>0 DEF InX, InF, InHand, ToSet
  <2>5. InP' = InP /\ InH' = InH /\ InK' = InK /\ InF = {}
    BY <2>1, <1>0 DEF InP, InH, InK, ToSet
  <2>6. ChainLess'
    <3>1. CASE InX' \subseteq InX \cup {m} /\ InF' = {}
      BY <3>1, <2>2, <2>3, <2>5, <1>0 DEF ChainLess, Less
    <3>2. CASE InX' = InX /\ InF' \subseteq {m}
      BY <3>2, <2>2, <2>3, <2>5, <1>0 DEF ChainLess, Less
    <3> QED BY <3>1, <3>2, <2>4
  <2>7. ChainBelow'
    BY <2>1, <2>2, <2>4, <2>5, <1>0 DEF ChainBelow, Everywhere
  <2> QED BY <2>1, <2>3, <2>6, <2>7, <1>0 DEF Chain, ChainRising
<1>14. CASE DtoMManifest \/ DtoMDiscard
  <2>1. /\ DtoMBuffer # Nothing /\ DtoMBuffer' = Nothing /\ DtoMBuffer \in FrameItems
        /\ manifestor' = manifestor \/ manifestor' = Append(manifestor, DtoMBuffer)
        /\ UNCHANGED <<NextBufferSequenceNumber, ParsedFrameRing, PtoDBuffer, codec, DecodedFrameRing,
                       MarkerFrameBuffer, AccumulatedBufferTable, ManifestedBufferRing>>
    BY <1>14, <1>0, HeadsAre DEF DtoMManifest, DtoMDiscard, rings
  <2>2. ToSet(manifestor') \subseteq ToSet(manifestor) \cup {DtoMBuffer}
    <3>1. CASE manifestor' = manifestor  BY <3>1 DEF ToSet
    <3>2. CASE manifestor' = Append(manifestor, DtoMBuffer)  BY <3>2, <2>1, <1>0, AppendIs DEF Typed
    <3> QED BY <2>1, <3>1, <3>2
  <2>3. InX' \subseteq InX  BY <2>1, <2>2 DEF InX, InHand, ToSet
  <2> QED BY <2>1, <2>3, <1>1 DEF InP, InH, InK, InD, InF, ToSet
<1>15. CASE Manifest
  <2>1. /\ manifestor # <<>> /\ manifestor' = Tail(manifestor)
        /\ ManifestedBufferRing' = Append(ManifestedBufferRing, Head(manifestor))
        /\ UNCHANGED <<NextBufferSequenceNumber, ParsedFrameRing, PtoDBuffer, codec, DecodedFrameRing,
                       MarkerFrameBuffer, AccumulatedBufferTable, DtoMBuffer>>
    BY <1>15 DEF Manifest, dtom
  <2>2. Head(manifestor) \in ManifestedItems /\ Head(manifestor) \in ToSet(manifestor)
        /\ ToSet(Tail(manifestor)) \subseteq ToSet(manifestor)
    BY <2>1, <1>0, TailIs, ItemSets DEF Typed
  <2>3. ToSet(ManifestedBufferRing') = ToSet(ManifestedBufferRing) \cup {Head(manifestor)}
    BY <2>1, <2>2, <1>0, AppendIs DEF Typed
  <2>4. InX' \subseteq InX  BY <2>1, <2>2, <2>3 DEF InX
  <2> QED BY <2>1, <2>4, <1>1 DEF InP, InH, InK, InD, InF, ToSet
<1>16. CASE PostMExtract
  <2>1. /\ ManifestedBufferRing # <<>> /\ ManifestedBufferRing' = Tail(ManifestedBufferRing)
        /\ UNCHANGED <<NextBufferSequenceNumber, ParsedFrameRing, PtoDBuffer, codec, DecodedFrameRing,
                       MarkerFrameBuffer, AccumulatedBufferTable, DtoMBuffer, manifestor>>
    BY <1>16 DEF PostMExtract, dtom
  <2>2. ToSet(ManifestedBufferRing') \subseteq ToSet(ManifestedBufferRing)
    BY <2>1, <1>0, TailIs DEF Typed
  <2>3. InX' \subseteq InX  BY <2>1, <2>2 DEF InX, ToSet
  <2> QED BY <2>1, <2>3, <1>1 DEF InP, InH, InK, InD, InF, ToSet
<1>17. CASE DrainCodec
  <2>1. /\ codec' = [i \in DOMAIN codec |-> IF IsFrame(codec[i])
                       THEN [codec[i] EXCEPT !.kind = "dropped"] ELSE codec[i]]
        /\ UNCHANGED <<NextBufferSequenceNumber, ParsedFrameRing, PtoDBuffer, DecodedFrameRing,
                       MarkerFrameBuffer, AccumulatedBufferTable, DtoMBuffer, manifestor,
                       ManifestedBufferRing>>
    BY <1>17 DEF DrainCodec, dtom, rings
  <2>2. DOMAIN codec' = DOMAIN codec  BY <2>1
  <2>3. ASSUME NEW i \in DOMAIN codec
        PROVE  /\ codec'[i].Value = codec[i].Value /\ ~IsControl(codec[i]) /\ codec[i] \in InK
    <3>1. codec[i] \in CodedItems /\ codec[i] \in InK  BY <1>0, MembersOf DEF Typed, InK
    <3>2. ~IsControl(codec[i])  BY <3>1, CodedIs
    <3>3. CASE IsFrame(codec[i])
      <4>1. codec[i] \in FrameItems  BY <3>1, <3>3, CodedIs
      <4> QED BY <4>1, <3>1, <3>2, <3>3, <2>1, FrameIs
    <3>4. CASE ~IsFrame(codec[i])  BY <3>4, <3>1, <3>2, <2>1
    <3> QED BY <3>3, <3>4
  <2>4. Rising(codec')  BY <2>2, <2>3, <1>0 DEF Rising, ChainRising
  <2>5. \A x \in InK' : \E y \in InK : x.Value = y.Value /\ ~IsControl(y)
    <3>1. ASSUME NEW x \in InK' PROVE \E y \in InK : x.Value = y.Value /\ ~IsControl(y)
      <4>1. PICK i \in DOMAIN codec : x = codec'[i]  BY <2>2 DEF InK, ToSet
      <4> QED BY <4>1, <2>3
    <3> QED BY <3>1
  <2>6. InP' = InP /\ InH' = InH /\ InD' = InD /\ InF' = InF /\ InX' = InX
    BY <2>1 DEF InP, InH, InD, InF, InX, ToSet
  <2>7. ChainLess'
    BY <2>5, <2>6, <1>0 DEF ChainLess, Less
  <2>8. ChainBelow'
    BY <2>1, <2>5, <2>6, <1>0 DEF ChainBelow, Everywhere
  <2> QED BY <2>1, <2>4, <2>7, <2>8, <1>0 DEF Chain, ChainRising
<1>18. CASE DrainRelease
  <2>1. PICK shown \in 0 .. Min({1, Len(manifestor)}) :
          /\ manifestor' = SubSeq(manifestor, 1, shown)
          /\ ManifestedBufferRing' =
               ManifestedBufferRing \o SubSeq(manifestor, shown + 1, Len(manifestor))
    BY <1>18 DEF DrainRelease
  <2>2. UNCHANGED <<NextBufferSequenceNumber, ParsedFrameRing, PtoDBuffer, codec, DecodedFrameRing,
                    MarkerFrameBuffer, AccumulatedBufferTable, DtoMBuffer>>
    BY <1>18 DEF DrainRelease, dtom
  <2>3. ToSet(manifestor') \cup ToSet(ManifestedBufferRing')
          = ToSet(manifestor) \cup ToSet(ManifestedBufferRing)
    <3>1. manifestor \in Seq(FrameItems) /\ ManifestedBufferRing \in Seq(ManifestedItems)
          /\ FrameItems \subseteq ManifestedItems
      BY <1>0, ItemSets DEF Typed
    <3> QED BY <2>1, <3>1, ReleasedIs
  <2>4. InX' = InX  BY <2>2, <2>3 DEF InX
  <2> QED BY <2>2, <2>4, <1>1 DEF InP, InH, InK, InD, InF, ToSet
\* Calls have no number of their own.
<1>19. CASE DrainCallBefore
  <2> DEFINE e == Item("ResetTimeMapping", None, DrainSequenceNumber)
  <2>1. e \in DecodedItems /\ IsControl(e)
    BY <1>0, MadeItems, ItemSets DEF MessageRanges, BeforeCalls, IsControl, Item
  <2>2. /\ DecodedFrameRing' = Append(DecodedFrameRing, e)
        /\ UNCHANGED <<NextBufferSequenceNumber, ParsedFrameRing, PtoDBuffer, codec,
                       MarkerFrameBuffer, AccumulatedBufferTable, DtoMBuffer, manifestor,
                       ManifestedBufferRing>>
    BY <1>19 DEF DrainCallBefore, dtom
  <2> HIDE DEF e
  <2> QED BY <2>1, <2>2, <1>0, ChainCall
<1>20. CASE DrainCallAfter
  <2> DEFINE e == Item("SetDrained", None, DrainSequenceNumber)
  <2>1. e \in ManifestedItems /\ IsControl(e)
    BY <1>0, MadeItems, ItemSets DEF MessageRanges, AfterCalls, IsControl, Item
  <2>2. /\ ManifestedBufferRing' = Append(ManifestedBufferRing, e)
        /\ UNCHANGED <<NextBufferSequenceNumber, ParsedFrameRing, PtoDBuffer, codec,
                       MarkerFrameBuffer, AccumulatedBufferTable, DtoMBuffer, manifestor,
                       DecodedFrameRing>>
    BY <1>20 DEF DrainCallAfter, dtom
  <2> HIDE DEF e
  <2> QED BY <2>1, <2>2, <1>0, ChainCall
<1>21. CASE SwitchCalls
  <2> DEFINE p == Item("SwitchCodec", None, SwitchNumber)
             d == Item("SwitchOutputTimer", None, SwitchNumber)
             e == Item("SwitchComplete", None, CompleteNumber)
  <2>1. /\ p \in ParsedItems /\ IsControl(p) /\ d \in DecodedItems /\ IsControl(d)
        /\ e \in ManifestedItems /\ IsControl(e)
    <3>1. SwitchNumber \in Nat /\ CompleteNumber \in Nat
      BY <1>0 DEF MessageRanges, SwitchNumber, CompleteNumber
    <3> QED BY <3>1, MadeItems, ItemSets DEF BeforeCalls, AfterCalls, IsControl, Item
  <2>2. /\ UNCHANGED <<NextBufferSequenceNumber, PtoDBuffer, codec,
                       MarkerFrameBuffer, AccumulatedBufferTable, DtoMBuffer, manifestor>>
        /\ \/ UNCHANGED <<ParsedFrameRing, DecodedFrameRing, ManifestedBufferRing>>
           \/ /\ ParsedFrameRing' = Append(ParsedFrameRing, p)
              /\ UNCHANGED <<DecodedFrameRing, ManifestedBufferRing>>
           \/ /\ DecodedFrameRing' = Append(DecodedFrameRing, d)
              /\ UNCHANGED <<ParsedFrameRing, ManifestedBufferRing>>
           \/ /\ ManifestedBufferRing' = Append(ManifestedBufferRing, e)
              /\ UNCHANGED <<ParsedFrameRing, DecodedFrameRing>>
    BY <1>21 DEF SwitchCalls, dtom
  <2> HIDE DEF p, d, e
  <2> QED BY <2>1, <2>2, <1>0, <1>2, ChainCall
<1>22. ASSUME NEW isReference \in BOOLEAN, Collate(isReference) PROVE Chain'
  BY <1>22, <1>2 DEF Collate, dtom
<1>23. ASSUME NEW policy \in Policies, DrainBegin(policy) PROVE Chain'
  BY <1>23, <1>2 DEF DrainBegin, dtom, rings
<1>24. CASE CtoPControl \/ CtoPSwitch \/ DtoMTimeout
  BY <1>24, <1>2 DEF CtoPControl, CtoPSwitch, DtoMTimeout, dtom, rings
<1>25. CASE DrainJump \/ DrainCheck \/ DrainNumber \/ DrainInsert \/ SwitchCollator \/ DrainReturn
            \/ DrainGiveUp
  BY <1>25, <1>2 DEF DrainJump, DrainCheck, DrainNumber, DrainInsert, SwitchCollator, DrainReturn,
     DrainGiveUp, dtom, rings
<1>26. CASE UNCHANGED vars  BY <1>2, <1>26 DEF vars, dtom, rings
<1> QED BY <1>4, <1>5, <1>6, <1>7, <1>8, <1>9, <1>10, <1>11, <1>12, <1>13, <1>14, <1>15, <1>16, <1>17,
           <1>18, <1>19, <1>20, <1>21, <1>22, <1>23, <1>24, <1>25, <1>26
        DEF Next, CtoP, PtoD, DtoMLoop, DtoMInHand, Drain
-----------------------------------------------------------------------------
\* A marker that comes is numbered above what comes before it.
LEMMA ComingStep == TypeInv /\ Chain /\ Coming /\ MarkerInTime /\ [Next]_vars => Coming'
<1> SUFFICES ASSUME TypeInv, Chain, Coming, MarkerInTime, [Next]_vars PROVE Coming'  OBVIOUS
<1> DEFINE r == CollatedFrameRing
           n == NextBufferSequenceNumber
<1>0. /\ r \in Seq(CollatedItems) /\ DOMAIN r = 1 .. Len(r) /\ Len(r) \in Nat
      /\ \A i \in 1 .. Len(r) : r[i] \in CollatedItems
      /\ n \in Nat /\ DrainSequenceNumber \in Nat /\ Typed
  BY DEF TypeInv, Typed, Ranges, MessageRanges
<1>1. CASE UNCHANGED <<CollatedFrameRing, NextBufferSequenceNumber, MarkerInCodedFrameIndex>>
  BY <1>1 DEF Coming
\* Something else than a marker is appended.
<1>2. ASSUME NEW e \in CollatedItems, ~IsMarker(e), CollatedFrameRing' = Append(r, e),
             UNCHANGED <<NextBufferSequenceNumber, MarkerInCodedFrameIndex>>
      PROVE  Coming'
  <2>1. /\ DOMAIN CollatedFrameRing' = 1 .. Len(r) + 1
        /\ \A i \in 1 .. Len(r) : CollatedFrameRing'[i] = r[i]
        /\ CollatedFrameRing'[Len(r) + 1] = e
    BY <1>0, <1>2, AppendIs
  <2>2. ASSUME NEW k \in DOMAIN CollatedFrameRing', IsMarker(CollatedFrameRing'[k])
        PROVE  k \in DOMAIN r /\ CollatedFrameRing'[k] = r[k] /\ IsMarker(r[k])
    <3>1. k # Len(r) + 1  BY <2>1, <2>2, <1>2
    <3>2. k \in 1 .. Len(r)  BY <3>1, <2>1, <1>0
    <3> QED BY <3>2, <2>1, <2>2, <1>0
  <2>3. ASSUME NEW k \in DOMAIN r, IsMarker(r[k])
        PROVE  k \in DOMAIN CollatedFrameRing' /\ CollatedFrameRing'[k] = r[k]
    BY <2>1, <1>0
  <2> HIDE DEF r
  <2> QED BY <2>2, <2>3, <1>2 DEF Coming, r
\* The head is taken out: a marker, or something else.
<1>3. ASSUME r # <<>>, CollatedFrameRing' = Tail(r), ~IsMarker(Head(r)),
             NextBufferSequenceNumber' \in n .. n + 1, UNCHANGED MarkerInCodedFrameIndex
      PROVE  Coming'
  <2>1. /\ Len(Tail(r)) = Len(r) - 1 /\ DOMAIN Tail(r) = 1 .. Len(r) - 1 /\ Len(r) \in Nat \ {0}
        /\ \A i \in 1 .. Len(r) - 1 : Tail(r)[i] = r[i + 1]
        /\ Head(r) = r[1]
    BY <1>0, <1>3, TailIs, MembersOf
  <2>2. ASSUME NEW k \in DOMAIN CollatedFrameRing', IsMarker(CollatedFrameRing'[k])
        PROVE  /\ k + 1 \in DOMAIN r /\ CollatedFrameRing'[k] = r[k + 1] /\ IsMarker(r[k + 1])
               /\ NextBufferSequenceNumber' + k - 1 <= r[k + 1].Value /\ k \in Nat
    <3>1. k + 1 \in DOMAIN r /\ CollatedFrameRing'[k] = r[k + 1] /\ IsMarker(r[k + 1])
          /\ k \in Nat
      BY <2>1, <2>2, <1>3, <1>0
    <3>2. n + (k + 1) - 1 <= r[k + 1].Value  BY <3>1 DEF Coming
    <3>3. r[k + 1].Value \in Nat  BY <3>1, <1>0, CollatedIs
    <3> HIDE DEF r, n
    <3> QED BY <3>1, <3>2, <3>3, <1>0, <1>3
  <2>3. ASSUME NEW k \in DOMAIN r, IsMarker(r[k])
        PROVE  k - 1 \in DOMAIN CollatedFrameRing' /\ CollatedFrameRing'[k - 1] = r[k]
    <3>1. k # 1  BY <2>1, <2>3, <1>3
    <3> QED BY <3>1, <2>1, <2>3, <1>0, <1>3
  <2>4. \A k \in DOMAIN CollatedFrameRing' : IsMarker(CollatedFrameRing'[k]) =>
          /\ CollatedFrameRing'[k].id = MarkerInCodedFrameIndex'
          /\ NextBufferSequenceNumber' + k - 1 <= CollatedFrameRing'[k].Value
    BY <2>2, <1>3 DEF Coming
  <2>5. ASSUME NEW j \in DOMAIN CollatedFrameRing', NEW k \in DOMAIN CollatedFrameRing',
               IsMarker(CollatedFrameRing'[j]), IsMarker(CollatedFrameRing'[k])
        PROVE  j = k
    <3>1. j + 1 = k + 1  BY <2>2, <2>5 DEF Coming
    <3> QED BY <3>1, <2>2, <2>5
  <2>6. MarkerInCodedFrameIndex' # None =>
          \E k \in DOMAIN CollatedFrameRing' : IsMarker(CollatedFrameRing'[k])
    BY <2>3, <1>3 DEF Coming
  <2> QED BY <2>4, <2>5, <2>6 DEF Coming
<1>4. CASE CtoPMarker
  <2>1. /\ r # <<>> /\ CollatedFrameRing' = Tail(r) /\ IsMarker(Head(r))
        /\ MarkerInCodedFrameIndex' = None
    BY <1>4 DEF CtoPMarker
  <2>2. /\ DOMAIN Tail(r) = 1 .. Len(r) - 1 /\ Len(r) \in Nat \ {0}
        /\ \A i \in 1 .. Len(r) - 1 : Tail(r)[i] = r[i + 1]
        /\ Head(r) = r[1]
    BY <1>0, <2>1, TailIs, MembersOf
  <2>3. ASSUME NEW k \in DOMAIN CollatedFrameRing' PROVE ~IsMarker(CollatedFrameRing'[k])
    <3>1. /\ k + 1 \in DOMAIN r /\ 1 \in DOMAIN r /\ k + 1 # 1 /\ CollatedFrameRing'[k] = r[k + 1]
      BY <2>1, <2>2, <2>3, <1>0
    <3> QED BY <3>1, <2>1, <2>2 DEF Coming
  <2> QED BY <2>1, <2>3 DEF Coming
<1>5. CASE CtoPFrame
  <2> DEFINE h == Head(r)
             m == [h EXCEPT !.Value = n]
  <2>1. /\ r # <<>> /\ CollatedFrameRing' = Tail(r) /\ NextBufferSequenceNumber' = n + 1
        /\ UNCHANGED MarkerInCodedFrameIndex /\ ~IsMarker(m)
    BY <1>5 DEF CtoPFrame
  <2>2. h \in CollatedItems  BY <2>1, <1>0, HeadsAre
  <2>3. m.kind = h.kind  BY <2>2 DEF CollatedItems, FrameItems, MarkerItems, Others
  <2>4. ~IsMarker(h) /\ n + 1 \in n .. n + 1  BY <2>1, <2>3, <1>0 DEF IsMarker
  <2> HIDE DEF m
  <2> QED BY <2>1, <2>4, <1>3
<1>6. CASE CtoPControl
  <2>1. /\ r # <<>> /\ CollatedFrameRing' = Tail(r) /\ IsControl(Head(r))
        /\ UNCHANGED <<NextBufferSequenceNumber, MarkerInCodedFrameIndex>>
    BY <1>6 DEF CtoPControl
  <2>2. ~IsMarker(Head(r)) /\ n \in n .. n + 1
    BY <2>1, <1>0 DEF IsMarker, IsControl, BeforeCalls, AfterCalls
  <2> QED BY <2>1, <2>2, <1>3
<1>7. ASSUME NEW isReference \in BOOLEAN, Collate(isReference) PROVE Coming'
  <2> DEFINE e == Item("frame", collated', 0)
  <2>1. /\ CollatedFrameRing' = Append(r, e)
        /\ UNCHANGED <<NextBufferSequenceNumber, MarkerInCodedFrameIndex>>
    BY <1>7 DEF Collate
  <2>2. e \in CollatedItems
    <3>1. collated' = collated + 1 /\ collated < MaxFrames /\ collated \in 0 .. MaxFrames
      BY <1>7 DEF Collate, TypeInv, Ranges, InputRanges
    <3>2. collated' \in Frames  BY <3>1, Bounds
    <3> QED BY <3>2, MadeItems, ItemSets
  <2>3. ~IsMarker(e)  BY DEF IsMarker, Item
  <2> HIDE DEF e
  <2> QED BY <2>1, <2>2, <2>3, <1>2
<1>8. CASE DrainJump
  <2>1. Item("jump", None, 0) \in CollatedItems /\ ~IsMarker(Item("jump", None, 0))
    BY MadeItems, ItemSets DEF IsMarker, Item
  <2> QED BY <1>8, <2>1, <1>2 DEF DrainJump
<1>9. CASE SwitchCalls
  <2> DEFINE e == Item("SwitchFrameParser", None, SwitchNumber)
  <2>1. e \in CollatedItems
    <3>1. SwitchNumber \in Nat  BY <1>0 DEF SwitchNumber
    <3> QED BY <3>1, MadeItems, ItemSets DEF AfterCalls
  <2>2. ~IsMarker(e)  BY DEF IsMarker, Item
  <2>3. /\ UNCHANGED <<NextBufferSequenceNumber, MarkerInCodedFrameIndex>>
        /\ UNCHANGED CollatedFrameRing \/ CollatedFrameRing' = Append(r, e)
    BY <1>9 DEF SwitchCalls
  <2> HIDE DEF e
  <2> QED BY <2>1, <2>2, <2>3, <1>1, <1>2
<1>10. CASE DrainInsert
  <2> DEFINE e == Item("marker", drain.n, DrainSequenceNumber)
  <2>1. /\ CollatedFrameRing' = Append(r, e) /\ MarkerInCodedFrameIndex' = drain.n
        /\ UNCHANGED NextBufferSequenceNumber /\ drain.pc = "insert"
    BY <1>10 DEF DrainInsert, At
  <2>2. /\ e.id = drain.n /\ e.Value = DrainSequenceNumber /\ IsMarker(e)
    BY DEF Item, IsMarker
  <2>3. e \in CollatedItems
    <3>1. drain.n \in 0 .. MaxDrains /\ drain.n > 0
      BY <2>1 DEF TypeInv, Ranges, DrainRanges, Exchanges
    <3>2. drain.n \in Markers  BY <3>1, Bounds
    <3> QED BY <3>2, <1>0, MadeItems, ItemSets
  <2> HIDE DEF e
  <2>4. MarkerInCodedFrameIndex = None /\ n + Len(r) <= DrainSequenceNumber
    BY <2>1 DEF MarkerInTime
  <2>5. ASSUME NEW k \in DOMAIN r PROVE ~IsMarker(r[k])
    <3>1. IsMarker(r[k]) => r[k].id = None  BY <2>4 DEF Coming
    <3>2. r[k] \in CollatedItems  BY <1>0
    <3> QED BY <3>1, <3>2, CollatedIs, MarkerIs
  <2>6. /\ DOMAIN CollatedFrameRing' = 1 .. Len(r) + 1
        /\ \A i \in 1 .. Len(r) : CollatedFrameRing'[i] = r[i]
        /\ CollatedFrameRing'[Len(r) + 1] = e
    BY <1>0, <2>1, <2>3, AppendIs
  <2>7. ASSUME NEW k \in DOMAIN CollatedFrameRing', IsMarker(CollatedFrameRing'[k])
        PROVE  k = Len(r) + 1
    <3>1. k \in 1 .. Len(r) => ~IsMarker(CollatedFrameRing'[k])  BY <2>5, <2>6, <1>0
    <3> QED BY <3>1, <2>6, <2>7, <1>0
  <2>8. Len(r) + 1 \in DOMAIN CollatedFrameRing'  BY <2>6, <1>0
  <2>9. n + (Len(r) + 1) - 1 <= DrainSequenceNumber  BY <2>4, <1>0
  <2> HIDE DEF r, n
  <2> QED BY <2>1, <2>2, <2>6, <2>7, <2>8, <2>9 DEF Coming, n
<1>11. ASSUME NEW policy \in Policies, DrainBegin(policy)
       PROVE  UNCHANGED <<CollatedFrameRing, NextBufferSequenceNumber, MarkerInCodedFrameIndex>>
  BY <1>11 DEF DrainBegin, rings
<1>12. CASE CtoPSwitch \/ PtoD \/ CodecOutput \/ Manifest
  BY <1>1, <1>12 DEF CtoPSwitch, PtoD, PtoDExtract, PtoDPass, PtoDDiscard, PtoDControl, PtoDSwitch,
     CodecOutput, Manifest, rings
<1>13. CASE DtoMLoop \/ DtoMInHand \/ PostMExtract
  BY <1>1, <1>13 DEF DtoMLoop, DtoMSelect, DtoMMarker, DtoMExtract, DtoMTimeout, DtoMInHand,
     DtoMManifest, DtoMDiscard, PostMExtract, rings
<1>14. CASE DrainCodec \/ DrainRelease \/ DrainCheck \/ DrainNumber \/ DrainCallBefore \/ DrainCallAfter
            \/ SwitchCollator \/ DrainReturn \/ DrainGiveUp
  BY <1>1, <1>14 DEF DrainCodec, DrainRelease, DrainCheck, DrainNumber,
     DrainCallBefore, DrainCallAfter, SwitchCollator, DrainReturn, DrainGiveUp, rings
<1>15. CASE UNCHANGED vars  BY <1>1, <1>15 DEF vars, rings
<1> QED BY <1>1, <1>4, <1>5, <1>6, <1>7, <1>8, <1>9, <1>10, <1>11, <1>12, <1>13, <1>14, <1>15
        DEF Next, CtoP, Drain

-----------------------------------------------------------------------------
\* One ring before another.
LEMMA RisingConcat ==
  ASSUME NEW S, NEW s \in Seq(S), NEW t \in Seq(S), Rising(s), Rising(t), Less(ToSet(s), ToSet(t))
  PROVE  Rising(s \o t) /\ ToSet(s \o t) = ToSet(s) \cup ToSet(t) /\ s \o t \in Seq(S)
<1> DEFINE c == s \o t
<1>1. /\ c \in Seq(S) /\ Len(c) = Len(s) + Len(t)
      /\ \A i \in 1 .. Len(s) + Len(t) : c[i] = IF i <= Len(s) THEN s[i] ELSE t[i - Len(s)]
  BY ConcatProperties
<1>2. /\ DOMAIN c = 1 .. Len(s) + Len(t) /\ DOMAIN s = 1 .. Len(s) /\ DOMAIN t = 1 .. Len(t)
      /\ Len(s) \in Nat /\ Len(t) \in Nat
  <2> HIDE DEF c
  <2> QED BY <1>1
<1> HIDE DEF c
<1>3. ASSUME NEW i \in DOMAIN c
      PROVE  \/ i \in DOMAIN s /\ c[i] = s[i] /\ i <= Len(s)
             \/ i - Len(s) \in DOMAIN t /\ c[i] = t[i - Len(s)] /\ ~(i <= Len(s))
  BY <1>1, <1>2
<1>4. ASSUME NEW i \in DOMAIN c, NEW j \in DOMAIN c, i < j, ~IsControl(c[i]), ~IsControl(c[j])
      PROVE  c[i].Value < c[j].Value
  <2>0. i \in Nat /\ j \in Nat  BY <1>2
  <2>1. CASE j <= Len(s)
    <3>1. i <= Len(s)  BY <2>0, <2>1, <1>2, <1>4
    <3> QED BY <2>1, <3>1, <1>3, <1>4 DEF Rising
  <2>2. CASE ~(j <= Len(s)) /\ i <= Len(s)
    <3>1. c[i] \in ToSet(s) /\ c[j] \in ToSet(t)  BY <2>2, <1>3 DEF ToSet
    <3> QED BY <3>1, <1>4 DEF Less
  <2>3. CASE ~(j <= Len(s)) /\ ~(i <= Len(s))
    <3>1. /\ i - Len(s) \in DOMAIN t /\ c[i] = t[i - Len(s)]
          /\ j - Len(s) \in DOMAIN t /\ c[j] = t[j - Len(s)]
      BY <2>3, <1>3
    <3>2. i - Len(s) < j - Len(s)  BY <2>0, <1>2, <1>4
    <3> QED BY <3>1, <3>2, <1>4 DEF Rising
  <2> QED BY <2>1, <2>2, <2>3
<1>5. ToSet(c) \subseteq ToSet(s) \cup ToSet(t)  BY <1>3 DEF ToSet
<1>6. ASSUME NEW i \in DOMAIN s PROVE s[i] \in ToSet(c)
  <2>1. i \in DOMAIN c /\ c[i] = s[i]  BY <1>1, <1>2
  <2> QED BY <2>1 DEF ToSet
<1>7. ASSUME NEW i \in DOMAIN t PROVE t[i] \in ToSet(c)
  <2>1. i + Len(s) \in 1 .. Len(s) + Len(t) /\ ~(i + Len(s) <= Len(s)) /\ (i + Len(s)) - Len(s) = i
    BY <1>2
  <2>2. i + Len(s) \in DOMAIN c /\ c[i + Len(s)] = t[i]  BY <2>1, <1>1, <1>2
  <2> QED BY <2>2 DEF ToSet
<1>8. ToSet(c) = ToSet(s) \cup ToSet(t)
  <2>1. ToSet(s) \subseteq ToSet(c)  BY <1>6 DEF ToSet
  <2>2. ToSet(t) \subseteq ToSet(c)  BY <1>7 DEF ToSet
  <2> QED BY <1>5, <2>1, <2>2
<1>9. Rising(c)  BY <1>4 DEF Rising
<1> QED BY <1>1, <1>8, <1>9 DEF c

\* The order of the stages is that of the sequence the property looks at.
LEMMA DecodeOrderIs ==
  ASSUME Typed, Chain
  PROVE  /\ Rising(InDecodeOrder) /\ \E n \in Nat : DOMAIN InDecodeOrder = 1 .. n
         /\ ToSet(InDecodeOrder) = InD \cup InK \cup InH \cup InP
<1> DEFINE S == ParsedItems \cup CodedItems \cup DecodedItems \cup {Nothing}
           h == IF PtoDBuffer = Nothing THEN <<>> ELSE <<PtoDBuffer>>
<1>1. DecodedFrameRing \in Seq(S) /\ codec \in Seq(S) /\ h \in Seq(S) /\ ParsedFrameRing \in Seq(S)
  <2>1. PtoDBuffer \in S  BY ItemSets DEF Typed
  <2>3. ParsedItems \subseteq S /\ CodedItems \subseteq S /\ DecodedItems \subseteq S  OBVIOUS
  <2> HIDE DEF S
  <2>a. <<>> \in Seq(S)  OBVIOUS
  <2>b. <<PtoDBuffer>> \in Seq(S)  BY <2>1
  <2>2. h \in Seq(S)  BY <2>a, <2>b
  <2>4. /\ DecodedFrameRing \in Seq(DecodedItems) /\ codec \in Seq(CodedItems)
        /\ ParsedFrameRing \in Seq(ParsedItems)
    BY DEF Typed
  <2> HIDE DEF h
  <2>5. DecodedFrameRing \in Seq(S)  BY <2>3, <2>4, SeqMonotonic
  <2>6. codec \in Seq(S)  BY <2>3, <2>4, SeqMonotonic
  <2>7. ParsedFrameRing \in Seq(S)  BY <2>3, <2>4, SeqMonotonic
  <2> QED BY <2>2, <2>5, <2>6, <2>7
<1>2. ToSet(h) = InH /\ Rising(h)
  BY DEF InH, InHand, ToSet, Rising
<1> HIDE DEF S, h
<1>3. /\ Rising(DecodedFrameRing \o codec) /\ ToSet(DecodedFrameRing \o codec) = InD \cup InK
      /\ DecodedFrameRing \o codec \in Seq(S)
  BY <1>1, RisingConcat DEF Chain, ChainLess, ChainRising, InD, InK, Less
<1> DEFINE a == DecodedFrameRing \o codec
<1> HIDE DEF a
<1>4. /\ Rising(a \o h) /\ ToSet(a \o h) = InD \cup InK \cup InH /\ a \o h \in Seq(S)
  <2>1. Less(ToSet(a), ToSet(h))  BY <1>2, <1>3 DEF Chain, ChainLess, Less, a
  <2>2. Rising(a) /\ ToSet(a) = InD \cup InK /\ a \in Seq(S)  BY <1>3 DEF a
  <2>3. h \in Seq(S) /\ ToSet(h) = InH /\ Rising(h)  BY <1>1, <1>2
  <2>4. /\ Rising(a \o h) /\ ToSet(a \o h) = ToSet(a) \cup ToSet(h) /\ a \o h \in Seq(S)
    BY <2>1, <2>2, <2>3, RisingConcat
  <2> QED BY <2>2, <2>3, <2>4
<1> DEFINE b == a \o h
<1> HIDE DEF b
<1>5. /\ Rising(b \o ParsedFrameRing) /\ b \o ParsedFrameRing \in Seq(S)
      /\ ToSet(b \o ParsedFrameRing) = InD \cup InK \cup InH \cup InP
  <2>1. Less(ToSet(b), ToSet(ParsedFrameRing))  BY <1>4 DEF Chain, ChainLess, Less, b, InP
  <2>2. b \in Seq(S) /\ Rising(b) /\ Rising(ParsedFrameRing)  BY <1>4 DEF b, Chain, ChainRising
  <2>3. /\ Rising(b \o ParsedFrameRing) /\ b \o ParsedFrameRing \in Seq(S)
        /\ ToSet(b \o ParsedFrameRing) = ToSet(b) \cup InP
    BY <1>1, <2>1, <2>2, RisingConcat DEF InP
  <2>4. ToSet(b) = InD \cup InK \cup InH  BY <1>4 DEF b
  <2> QED BY <2>3, <2>4
<1>6. b \o ParsedFrameRing = InDecodeOrder  BY DEF InDecodeOrder, a, b, h
<1>7. Len(InDecodeOrder) \in Nat /\ DOMAIN InDecodeOrder = 1 .. Len(InDecodeOrder)
  BY <1>5, <1>6, MembersOf
<1> QED BY <1>5, <1>6, <1>7

\* Frames and markers leave CollateToParse with ever larger sequence numbers
\* and stay in that order up to the reordering.
THEOREM NumbersStayInOrder == Spec /\ []MarkerInTime => []NumbersIncrease
<1>1. Init => TypeInv /\ Chain /\ Coming  BY TypeInit, ChainInit
<1>2. TypeInv /\ Chain /\ Coming /\ MarkerInTime /\ [Next]_vars => (TypeInv /\ Chain /\ Coming)'
  BY TypeStep, ChainStep, ComingStep
<1>3. TypeInv /\ Chain /\ Coming => NumbersIncrease
  <2> SUFFICES ASSUME TypeInv, Chain PROVE NumbersIncrease  OBVIOUS
  <2>1. Rising(InDecodeOrder)  BY DecodeOrderIs DEF TypeInv
  <2>2. ASSUME NEW i \in DOMAIN InDecodeOrder, NEW j \in 1 .. i - 1
        PROVE  j \in DOMAIN InDecodeOrder /\ j < i
    <3>1. \E n \in Nat : DOMAIN InDecodeOrder = 1 .. n  BY DecodeOrderIs DEF TypeInv
    <3> QED BY <3>1, <2>2
  <2> QED BY <2>1, <2>2 DEF NumbersIncrease, Rising
<1> QED BY <1>1, <1>2, <1>3, PTL DEF Spec

-----------------------------------------------------------------------------
(***************************************************************************)
(* The order of display before any drain.                                  *)
(***************************************************************************)
\* What DecodeToManifest has not taken in hand yet.
Waiting == InP \cup InH \cup InK \cup InD \cup AccumulatedBufferTable

\* A frame that has its index.
HasIndex(f) == DisplayFrameIndex[f] # INVALID_INDEX

\* There are frames only, numbered as they were collated, and no process
\* discards or is halted.
Quiet ==
  /\ drain.pc = "idle" /\ "CtoP" \notin switch.halted /\ MarkerFrameBuffer = Nothing
  /\ \A p \in {"CtoP", "PtoD", "DtoM"} : ~DiscardingUntilMarkerFrame[p]
  /\ \A m \in ToSet(CollatedFrameRing) \cup Everywhere : IsFrame(m)
  /\ \A m \in Everywhere : m.id = m.Value + 1
  /\ \A i \in DOMAIN CollatedFrameRing : CollatedFrameRing[i].id = NextBufferSequenceNumber + i
  /\ collated = NextBufferSequenceNumber + Len(CollatedFrameRing)

\* Every frame parsed has an index of its own, except the one deferred.
Numbered ==
  /\ parser.deferred <= NextBufferSequenceNumber
  /\ \A f \in Frames : HasIndex(f) <=> f <= NextBufferSequenceNumber /\ f # parser.deferred
  /\ \A f \in Frames : HasIndex(f) => DisplayFrameIndex[f] < parser.NextDisplayFrameIndex
  /\ \A f, g \in Frames :
       HasIndex(f) /\ HasIndex(g) /\ DisplayFrameIndex[f] = DisplayFrameIndex[g] => f = g

\* From the frame f to the frame g no reference frame comes but f.
Leads(f, g) == reference[f] /\ \A h \in f + 1 .. g : ~reference[h]

\* Only a reference frame is displayed after one that was collated later, up to
\* the next reference frame.
Reordered ==
  /\ parser.deferred # None => Leads(parser.deferred, NextBufferSequenceNumber)
  /\ \A f, g \in Frames :
       f < g /\ HasIndex(f) /\ HasIndex(g) /\ DisplayFrameIndex[g] < DisplayFrameIndex[f]
         => Leads(f, g)

\* Only the first index may leap.
NoLeap ==
  /\ parser.collapse => parser.NextDisplayFrameIndex = 0
  /\ \A f \in Frames : CollapseHolesInDisplayIndices[f] => DisplayFrameIndex[f] = 0
  /\ NonDecoded.DisplayIndicesCollapse = 0

\* What waits is not noted as not decoded, and its turn comes.
TurnToCome ==
  /\ DesiredFrameIndex <= parser.NextDisplayFrameIndex
  /\ \A f \in NonDecoded.released \cup NonDecoded.held : f <= NextBufferSequenceNumber
  /\ \A m \in Waiting : /\ m.id \notin NonDecoded.released \cup NonDecoded.held
                        /\ HasIndex(m.id) => DesiredFrameIndex <= DisplayFrameIndex[m.id]

\* The frame in hand is the next of all.
NextInHand ==
  DtoMBuffer # Nothing =>
    /\ DesiredFrameIndex <= DisplayFrameIndex[DtoMBuffer.id]
    /\ \A m \in Waiting :
         HasIndex(m.id) => DisplayFrameIndex[DtoMBuffer.id] < DisplayFrameIndex[m.id]

Order ==
  Quiet /\ Chain /\ Coming /\ Numbered /\ Reordered /\ NoLeap /\ TurnToCome /\ NextInHand
OrderInv == drain.n = 0 => Order

-----------------------------------------------------------------------------
\* No frame is made on the way from CollateToParse to the end.
LEMMA NothingAdded ==
  ASSUME Typed, \A m \in Everywhere : IsFrame(m),
         \/ PtoDExtract \/ PtoDPass \/ PtoDDiscard \/ PtoDSwitch \/ CodecOutput
         \/ (DtoMSelect /\ ParseRanges) \/ DtoMExtract \/ DtoMTimeout \/ DtoMManifest \/ DtoMDiscard
         \/ Manifest \/ PostMExtract
  PROVE  Everywhere' \subseteq Everywhere /\ Waiting' \subseteq Waiting
<1> USE DEF Everywhere, Waiting, InX, InHand
<1>1. CASE PtoDExtract
  <2>1. /\ ParsedFrameRing # <<>> /\ ParsedFrameRing' = Tail(ParsedFrameRing)
        /\ PtoDBuffer' = Head(ParsedFrameRing)
        /\ UNCHANGED <<codec, DecodedFrameRing, dtom, manifestor, ManifestedBufferRing>>
    BY <1>1 DEF PtoDExtract
  <2>2. InP' \cup InH' \subseteq InP  BY <2>1, TailIs DEF InP, InH, Typed
  <2> QED BY <2>1, <2>2 DEF InK, InD, InF, ToSet, dtom
<1>2. CASE PtoDPass
  <2>1. /\ PtoDBuffer # Nothing /\ PtoDBuffer' = Nothing
        /\ codec' = Append(IF IsMarker(PtoDBuffer) THEN CodecUnmarked ELSE codec, PtoDBuffer)
        /\ UNCHANGED <<ParsedFrameRing, DecodedFrameRing, dtom, manifestor, ManifestedBufferRing>>
    BY <1>2 DEF PtoDPass, rings
  <2>2. InH = {PtoDBuffer} /\ InH' = {}  BY <2>1 DEF InH
  <2>3. PtoDBuffer \in FrameItems /\ ~IsMarker(PtoDBuffer)
    BY <2>1, <2>2, MarkerIs, FrameIs DEF Typed
  <2>4. InK' = InK \cup {PtoDBuffer}  BY <2>1, <2>3, ItemSets, AppendIs DEF InK, Typed
  <2> QED BY <2>1, <2>2, <2>4 DEF InP, InD, InF, ToSet, dtom
<1>3. CASE PtoDDiscard
  <2>1. /\ PtoDBuffer' = Nothing
        /\ UNCHANGED <<ParsedFrameRing, codec, DecodedFrameRing, dtom, manifestor, ManifestedBufferRing>>
    BY <1>3 DEF PtoDDiscard, rings
  <2> QED BY <2>1 DEF InP, InH, InK, InD, InF, ToSet, dtom
<1>4. CASE PtoDSwitch
  <2>1. /\ codec' = <<>>
        /\ UNCHANGED <<ParsedFrameRing, PtoDBuffer, DecodedFrameRing, dtom, manifestor, ManifestedBufferRing>>
    BY <1>4 DEF PtoDSwitch, rings
  <2>2. InK' = {}  BY <2>1 DEF InK, ToSet
  <2> QED BY <2>1, <2>2 DEF InP, InH, InD, InF, ToSet, dtom
<1>5. CASE CodecOutput
  <2>1. /\ codec # <<>> /\ codec' = Tail(codec)
        /\ \/ DecodedFrameRing' = DecodedFrameRing
           \/ DecodedFrameRing' = Append(DecodedFrameRing, Head(codec))
        /\ UNCHANGED <<ParsedFrameRing, PtoDBuffer, dtom, manifestor, ManifestedBufferRing>>
    BY <1>5 DEF CodecOutput
  <2>2. Head(codec) \in InK /\ InK' \subseteq InK  BY <2>1, TailIs DEF InK, Typed
  <2>3. Head(codec) \in DecodedItems
    BY <2>1, <2>2, HeadsAre, CodedIs, ItemSets
  <2>4. InD' \subseteq InD \cup InK
    <3>1. CASE DecodedFrameRing' = DecodedFrameRing  BY <3>1 DEF InD, ToSet
    <3>2. CASE DecodedFrameRing' = Append(DecodedFrameRing, Head(codec))
      <4>1. InD' = InD \cup {Head(codec)}  BY <3>2, <2>3, AppendIs DEF InD, Typed
      <4> QED BY <4>1, <2>2
    <3> QED BY <3>1, <3>2, <2>1
  <2> QED BY <2>1, <2>2, <2>4 DEF InP, InH, InF, ToSet, dtom
<1>6. CASE DtoMSelect /\ ParseRanges
  <2>1. /\ Selectable /\ DtoMBuffer' = Lowest
        /\ AccumulatedBufferTable' = AccumulatedBufferTable \ {Lowest}
        /\ UNCHANGED <<ParsedFrameRing, PtoDBuffer, codec, DecodedFrameRing,
                       MarkerFrameBuffer, manifestor, ManifestedBufferRing>>
    BY <1>6 DEF DtoMSelect, TakeFrame, rings
  <2>2. Lowest \in AccumulatedBufferTable  BY <2>1, <1>6, SelectedIs DEF Typed
  <2> QED BY <2>1, <2>2 DEF InP, InH, InK, InD, InF, ToSet
<1>7. CASE DtoMExtract
  <2> DEFINE m == Head(DecodedFrameRing)
  <2>1. /\ DecodedFrameRing # <<>> /\ DecodedFrameRing' = Tail(DecodedFrameRing)
        /\ IsControl(m) \/ IsMarker(m) \/
             /\ UNCHANGED MarkerFrameBuffer
             /\ \/ DtoMBuffer' = m /\ UNCHANGED AccumulatedBufferTable
                \/ AccumulatedBufferTable' = AccumulatedBufferTable \cup {m} /\ UNCHANGED DtoMBuffer
        /\ UNCHANGED <<ParsedFrameRing, PtoDBuffer, codec, manifestor, ManifestedBufferRing>>
    BY <1>7 DEF DtoMExtract, TakeFrame
  <2>2. m \in InD /\ InD' \subseteq InD  BY <2>1, TailIs DEF InD, Typed
  <2>3. m \in FrameItems /\ ~IsControl(m) /\ ~IsMarker(m)
    BY <2>1, <2>2, HeadsAre, DecodedIs, FrameIs
  <2> HIDE DEF m
  <2> QED BY <2>1, <2>2, <2>3 DEF InP, InH, InK, InF, ToSet
<1>8. CASE DtoMTimeout
  <2>1. UNCHANGED <<ParsedFrameRing, PtoDBuffer, codec, DecodedFrameRing, AccumulatedBufferTable,
                    MarkerFrameBuffer, DtoMBuffer, manifestor, ManifestedBufferRing>>
    BY <1>8 DEF DtoMTimeout, rings
  <2> QED BY <2>1 DEF InP, InH, InK, InD, InF, ToSet
<1>9. CASE DtoMManifest \/ DtoMDiscard
  <2>1. /\ DtoMBuffer # Nothing /\ DtoMBuffer' = Nothing
        /\ manifestor' = manifestor \/ manifestor' = Append(manifestor, DtoMBuffer)
        /\ UNCHANGED <<ParsedFrameRing, PtoDBuffer, codec, DecodedFrameRing,
                       AccumulatedBufferTable, MarkerFrameBuffer, ManifestedBufferRing>>
    BY <1>9 DEF DtoMManifest, DtoMDiscard, rings
  <2>2. DtoMBuffer \in FrameItems  BY <2>1 DEF Typed
  <2>3. ToSet(manifestor') \subseteq ToSet(manifestor) \cup {DtoMBuffer}
    <3>1. CASE manifestor' = manifestor  BY <3>1 DEF ToSet
    <3>2. CASE manifestor' = Append(manifestor, DtoMBuffer)
      BY <3>2, <2>2, AppendIs DEF Typed
    <3> QED BY <3>1, <3>2, <2>1
  <2> QED BY <2>1, <2>3 DEF InP, InH, InK, InD, InF, ToSet
<1>10. CASE Manifest
  <2>1. /\ manifestor # <<>> /\ manifestor' = Tail(manifestor)
        /\ ManifestedBufferRing' = Append(ManifestedBufferRing, Head(manifestor))
        /\ UNCHANGED <<ParsedFrameRing, PtoDBuffer, codec, DecodedFrameRing, dtom>>
    BY <1>10 DEF Manifest
  <2>2. /\ Head(manifestor) \in ToSet(manifestor) /\ Head(manifestor) \in ManifestedItems
        /\ ToSet(manifestor') \subseteq ToSet(manifestor)
    BY <2>1, TailIs, ItemSets DEF Typed
  <2>3. ToSet(ManifestedBufferRing') = ToSet(ManifestedBufferRing) \cup {Head(manifestor)}
    BY <2>1, <2>2, AppendIs DEF Typed
  <2> QED BY <2>1, <2>2, <2>3 DEF InP, InH, InK, InD, InF, ToSet, dtom
<1>11. CASE PostMExtract
  <2>1. /\ ManifestedBufferRing # <<>> /\ ManifestedBufferRing' = Tail(ManifestedBufferRing)
        /\ UNCHANGED <<ParsedFrameRing, PtoDBuffer, codec, DecodedFrameRing, dtom, manifestor>>
    BY <1>11 DEF PostMExtract
  <2>2. ToSet(ManifestedBufferRing') \subseteq ToSet(ManifestedBufferRing)
    BY <2>1, TailIs DEF Typed
  <2> QED BY <2>1, <2>2 DEF InP, InH, InK, InD, InF, ToSet, dtom
<1> QED BY <1>1, <1>2, <1>3, <1>4, <1>5, <1>6, <1>7, <1>8, <1>9, <1>10, <1>11

\* What can happen before any drain.
LEMMA QuietNext ==
  ASSUME TypeInv, Quiet, Next, drain.n = 0, drain'.n = 0
  PROVE  \/ \E isReference \in BOOLEAN : Collate(isReference)
         \/ CtoPFrame \/ PtoDExtract \/ PtoDPass \/ PtoDDiscard \/ PtoDSwitch \/ CodecOutput
         \/ DtoMSelect \/ DtoMExtract \/ DtoMTimeout \/ DtoMManifest \/ DtoMDiscard
         \/ Manifest \/ PostMExtract
<1>1. Typed /\ DrainRanges  BY DEF TypeInv, Ranges
<1>2. ~CtoPMarker /\ ~CtoPControl
  <2>1. ASSUME CollatedFrameRing # <<>>
        PROVE  ~IsMarker(Head(CollatedFrameRing)) /\ ~IsControl(Head(CollatedFrameRing))
    <3>1. Head(CollatedFrameRing) \in ToSet(CollatedFrameRing)  BY <1>1, <2>1, TailIs DEF Typed
    <3>2. IsFrame(Head(CollatedFrameRing)) /\ Head(CollatedFrameRing) \in CollatedItems
      BY <3>1, <1>1, <2>1, HeadsAre DEF Quiet
    <3> QED BY <3>2, CollatedIs, FrameIs
  <2> QED BY <2>1 DEF CtoPMarker, CtoPControl
<1>3. ~CtoPSwitch  BY DEF CtoPSwitch, Quiet
<1>4. ~PtoDControl
  <2>1. ASSUME ParsedFrameRing # <<>> PROVE ~IsControl(Head(ParsedFrameRing))
    <3>1. Head(ParsedFrameRing) \in InP  BY <1>1, <2>1, TailIs DEF Typed, InP
    <3>2. IsFrame(Head(ParsedFrameRing)) /\ Head(ParsedFrameRing) \in ParsedItems
      BY <3>1, <1>1, <2>1, HeadsAre DEF Quiet, Everywhere
    <3> QED BY <3>2, ParsedIs, FrameIs
  <2> QED BY <2>1 DEF PtoDControl
<1>5. ~DtoMMarker  BY NothingIs DEF DtoMMarker, Quiet
<1>6. ~Drain /\ ~DrainGiveUp
  BY DEF Quiet, Drain, At, DrainJump, DrainCodec, DrainRelease, DrainCheck, DrainNumber, DrainInsert,
     DrainCallBefore, DrainCallAfter, SwitchCollator, SwitchCalls, DrainReturn, DrainGiveUp
<1>7. ASSUME NEW policy \in Policies, DrainBegin(policy) PROVE FALSE
  <2>1. drain'.n = drain.n + 1  BY <1>7 DEF DrainBegin
  <2> QED BY <2>1
<1> QED BY <1>2, <1>3, <1>4, <1>5, <1>6, <1>7 DEF Next, CtoP, PtoD, DtoMLoop, DtoMInHand

\* The first frame in the ring of collation is the next to be numbered.
LEMMA FirstCollated ==
  ASSUME Typed, Quiet, MessageRanges, CollatedFrameRing # <<>>
  PROVE  LET m == Head(CollatedFrameRing) IN
         /\ m \in FrameItems /\ m.id = NextBufferSequenceNumber + 1
         /\ [m EXCEPT !.Value = NextBufferSequenceNumber] \in FrameItems
         /\ [m EXCEPT !.Value = NextBufferSequenceNumber].id = NextBufferSequenceNumber + 1
         /\ [m EXCEPT !.Value = NextBufferSequenceNumber].Value = NextBufferSequenceNumber
<1> DEFINE m == Head(CollatedFrameRing)
<1>1. /\ m \in CollatedItems /\ m \in ToSet(CollatedFrameRing) /\ m = CollatedFrameRing[1]
      /\ 1 \in DOMAIN CollatedFrameRing
  BY TailIs, MembersOf DEF Typed
<1>2. IsFrame(m) /\ m.id = NextBufferSequenceNumber + 1  BY <1>1 DEF Quiet
<1>3. m \in FrameItems  BY <1>1, <1>2, CollatedIs
<1> HIDE DEF m
<1>4. NextBufferSequenceNumber \in Nat  BY DEF MessageRanges
<1>5. /\ [m EXCEPT !.Value = NextBufferSequenceNumber] \in FrameItems
      /\ [m EXCEPT !.Value = NextBufferSequenceNumber].id = m.id
      /\ [m EXCEPT !.Value = NextBufferSequenceNumber].Value = NextBufferSequenceNumber
  BY <1>3, <1>4, FrameIs
<1> QED BY <1>2, <1>3, <1>5 DEF m

\* It stays so.
LEMMA QuietStep ==
  ASSUME TypeInv, Quiet, Next, drain.n = 0, drain'.n = 0
  PROVE  Quiet'
<1>0. /\ Typed /\ MessageRanges /\ InputRanges /\ ParseRanges /\ SwitchRanges
      /\ NextBufferSequenceNumber \in Nat /\ collated \in Nat
      /\ DiscardingUntilMarkerFrame \in [{"CtoP", "PtoD", "DtoM"} -> BOOLEAN]
      /\ CollatedFrameRing \in Seq(CollatedItems) /\ Len(CollatedFrameRing) \in Nat
  BY DEF TypeInv, Ranges, MessageRanges, InputRanges, Typed
<1> DEFINE Down == \/ PtoDExtract \/ PtoDPass \/ PtoDDiscard \/ PtoDSwitch \/ CodecOutput
                   \/ DtoMSelect \/ DtoMExtract \/ DtoMTimeout \/ DtoMManifest \/ DtoMDiscard
                   \/ Manifest \/ PostMExtract
<1>1. CASE Down
  <2>1. UNCHANGED <<CollatedFrameRing, collated, NextBufferSequenceNumber, drain>>
    BY <1>1 DEF PtoDExtract, PtoDPass, PtoDDiscard, PtoDSwitch, CodecOutput, DtoMSelect,
       DtoMExtract, DtoMTimeout, DtoMManifest, DtoMDiscard, Manifest, PostMExtract, rings, input, drn
  <2>2. Everywhere' \subseteq Everywhere
    BY <1>0, <1>1, NothingAdded DEF Quiet
  <2>3. "CtoP" \notin switch'.halted
    <3>1. CASE PtoDPass \/ PtoDDiscard
      BY <3>1, <1>0 DEF PtoDPass, PtoDDiscard, PtoDCallsAfter, SwitchRanges, Quiet
    <3>2. CASE PtoDSwitch  BY <3>2, <1>0 DEF PtoDSwitch, SwitchRanges, Quiet
    <3>3. CASE DtoMExtract \/ DtoMManifest \/ DtoMDiscard
      BY <3>3, <1>0 DEF DtoMExtract, DtoMManifest, DtoMDiscard, DtoMCallsAfter, LastOneOut,
         SwitchRanges, Quiet
    <3>4. CASE PostMExtract
      BY <3>4, <1>0 DEF PostMExtract, PostMCall, SwitchRanges, Quiet
    <3>5. CASE PtoDExtract \/ CodecOutput \/ DtoMSelect \/ DtoMTimeout \/ Manifest
      BY <3>5 DEF PtoDExtract, CodecOutput, DtoMSelect, DtoMTimeout, Manifest, Quiet
    <3> QED BY <1>1, <3>1, <3>2, <3>3, <3>4, <3>5
  <2>4. MarkerFrameBuffer' = Nothing
    <3>1. CASE DtoMExtract
      <4>1. DecodedFrameRing # <<>>  BY <3>1 DEF DtoMExtract
      <4>2. Head(DecodedFrameRing) \in InD  BY <4>1, <1>0, TailIs DEF Typed, InD
      <4>3. ~IsMarker(Head(DecodedFrameRing))
        BY <4>1, <4>2, <1>0, HeadsAre, DecodedIs, FrameIs DEF Quiet, Everywhere
      <4> QED BY <4>3, <3>1 DEF DtoMExtract, msgs, Quiet
    <3>2. CASE ~DtoMExtract
      BY <3>2, <1>1 DEF PtoDExtract, PtoDPass, PtoDDiscard, PtoDSwitch, CodecOutput, DtoMSelect,
         DtoMTimeout, DtoMManifest, DtoMDiscard, Manifest, PostMExtract, dtom, Quiet
    <3> QED BY <3>1, <3>2
  <2>5. \A p \in {"CtoP", "PtoD", "DtoM"} : ~DiscardingUntilMarkerFrame'[p]
    <3>1. \/ UNCHANGED DiscardingUntilMarkerFrame
          \/ DiscardingUntilMarkerFrame' = [DiscardingUntilMarkerFrame EXCEPT !["PtoD"] = FALSE]
      BY <1>1 DEF PtoDExtract, PtoDPass, PtoDDiscard, PtoDSwitch, CodecOutput, DtoMSelect,
         DtoMExtract, DtoMTimeout, DtoMManifest, DtoMDiscard, Manifest, PostMExtract, StopDiscarding
    <3> QED BY <3>1, <1>0 DEF Quiet
  <2>6. ToSet(CollatedFrameRing') = ToSet(CollatedFrameRing)  BY <2>1
  <2> HIDE DEF Down
  <2> QED BY <2>1, <2>2, <2>3, <2>4, <2>5, <2>6 DEF Quiet
<1>2. ASSUME NEW isReference \in BOOLEAN, Collate(isReference) PROVE Quiet'
  <2> DEFINE m == Item("frame", collated + 1, 0)
  <2>1. /\ collated < MaxFrames /\ collated' = collated + 1
        /\ CollatedFrameRing' = Append(CollatedFrameRing, m)
        /\ UNCHANGED <<ParsedFrameRing, PtoDBuffer, codec, DecodedFrameRing, dtom, manifestor,
                       ManifestedBufferRing, NextBufferSequenceNumber, drain, switch,
                       DiscardingUntilMarkerFrame>>
    BY <1>2 DEF Collate, drn
  <2>2. m \in FrameItems /\ m.id = collated + 1
    BY <2>1, <1>0, Bounds DEF Item, FrameItems
  <2>3. m \in CollatedItems /\ IsFrame(m)  BY <2>2, ItemSets, FrameIs
  <2> HIDE DEF m
  <2>4. /\ CollatedFrameRing' \in Seq(CollatedItems)
        /\ Len(CollatedFrameRing') = Len(CollatedFrameRing) + 1
        /\ \A i \in 1 .. Len(CollatedFrameRing) : CollatedFrameRing'[i] = CollatedFrameRing[i]
        /\ CollatedFrameRing'[Len(CollatedFrameRing) + 1] = m
        /\ ToSet(CollatedFrameRing') = ToSet(CollatedFrameRing) \cup {m}
    BY <1>0, <2>1, <2>3, AppendIs
  <2>5. Everywhere' = Everywhere
    BY <2>1 DEF Everywhere, InX, InP, InH, InK, InD, InF, InHand, ToSet, dtom
  <2>6. collated' = NextBufferSequenceNumber' + Len(CollatedFrameRing')
    BY <2>1, <2>4, <1>0 DEF Quiet
  <2>7. ASSUME NEW i \in DOMAIN CollatedFrameRing'
        PROVE  CollatedFrameRing'[i].id = NextBufferSequenceNumber' + i
    <3>1. i \in 1 .. Len(CollatedFrameRing) + 1  BY <2>4, MembersOf
    <3>2. CASE i = Len(CollatedFrameRing) + 1
      BY <3>2, <2>4, <2>2, <2>1, <1>0 DEF Quiet
    <3>3. CASE i # Len(CollatedFrameRing) + 1
      <4>1. i \in 1 .. Len(CollatedFrameRing) /\ i \in DOMAIN CollatedFrameRing
        BY <3>1, <3>3, <1>0, MembersOf
      <4> QED BY <4>1, <2>4, <2>1 DEF Quiet
    <3> QED BY <3>2, <3>3
  <2> QED BY <2>1, <2>3, <2>4, <2>5, <2>6, <2>7 DEF Quiet, dtom
<1>3. CASE CtoPFrame
  <2> DEFINE h == Head(CollatedFrameRing)
             m == [h EXCEPT !.Value = NextBufferSequenceNumber]
  <2>1. /\ CollatedFrameRing # <<>> /\ CollatedFrameRing' = Tail(CollatedFrameRing)
        /\ NextBufferSequenceNumber' = NextBufferSequenceNumber + 1
        /\ \/ UNCHANGED ParsedFrameRing
           \/ ParsedFrameRing' = Append(ParsedFrameRing, m)
        /\ UNCHANGED <<PtoDBuffer, codec, DecodedFrameRing, dtom, manifestor,
                       ManifestedBufferRing, collated, drain, switch, DiscardingUntilMarkerFrame>>
    BY <1>3 DEF CtoPFrame, input, drn
  <2>2. /\ m \in FrameItems /\ m.id = NextBufferSequenceNumber + 1
        /\ m.Value = NextBufferSequenceNumber
    BY <2>1, <1>0, FirstCollated
  <2>3. m \in ParsedItems /\ IsFrame(m)  BY <2>2, ItemSets, FrameIs
  <2> HIDE DEF m
  <2>4. InP' \subseteq InP \cup {m}
    <3>1. CASE UNCHANGED ParsedFrameRing  BY <3>1 DEF InP, ToSet
    <3>2. CASE ParsedFrameRing' = Append(ParsedFrameRing, m)
      BY <3>2, <2>3, <1>0, AppendIs DEF InP, Typed
    <3> QED BY <2>1, <3>1, <3>2
  <2>5. Everywhere' \subseteq Everywhere \cup {m}
    BY <2>1, <2>4 DEF Everywhere, InX, InH, InK, InD, InF, InHand, ToSet, dtom
  <2>6. /\ CollatedFrameRing' \in Seq(CollatedItems)
        /\ Len(CollatedFrameRing') = Len(CollatedFrameRing) - 1
        /\ \A i \in 1 .. Len(CollatedFrameRing) - 1 : CollatedFrameRing'[i] = CollatedFrameRing[i + 1]
        /\ ToSet(CollatedFrameRing') \subseteq ToSet(CollatedFrameRing)
    BY <2>1, <1>0, TailIs
  <2>7. collated' = NextBufferSequenceNumber' + Len(CollatedFrameRing')
    BY <2>1, <2>6, <1>0 DEF Quiet
  <2>8. ASSUME NEW i \in DOMAIN CollatedFrameRing'
        PROVE  CollatedFrameRing'[i].id = NextBufferSequenceNumber' + i
    <3>1. i \in 1 .. Len(CollatedFrameRing) - 1  BY <2>6, MembersOf
    <3>2. i + 1 \in DOMAIN CollatedFrameRing  BY <3>1, <1>0, MembersOf
    <3>3. CollatedFrameRing[i + 1].id = NextBufferSequenceNumber + (i + 1)  BY <3>2 DEF Quiet
    <3> QED BY <3>1, <3>3, <2>6, <2>1, <1>0
  <2>9. \A x \in Everywhere' : IsFrame(x) /\ x.id = x.Value + 1
    BY <2>2, <2>3, <2>5 DEF Quiet
  <2> QED BY <2>1, <2>6, <2>7, <2>8, <2>9 DEF Quiet, dtom
<1> HIDE DEF Down
<1> QED BY <1>1, <1>2, <1>3, QuietNext DEF Down

-----------------------------------------------------------------------------
\* A frame that has an index keeps it; one that is given an index is given the
\* next.
NextGiven ==
  \A f \in Frames :
    /\ HasIndex(f) => DisplayFrameIndex'[f] = DisplayFrameIndex[f]
    /\ ~HasIndex(f) /\ DisplayFrameIndex'[f] # INVALID_INDEX
         => DisplayFrameIndex'[f] = parser.NextDisplayFrameIndex

\* The parser numbers in the order of display.
LEMMA ParsedInOrder ==
  ASSUME TypeInv, TypeInv', Quiet, Numbered, Reordered, NoLeap, CtoPFrame
  PROVE  /\ Numbered' /\ Reordered' /\ NextGiven
         /\ parser'.collapse => parser'.NextDisplayFrameIndex = 0
         /\ \A f \in Frames : CollapseHolesInDisplayIndices'[f] => DisplayFrameIndex'[f] = 0
         /\ parser.NextDisplayFrameIndex <= parser'.NextDisplayFrameIndex
<1> DEFINE P == NextBufferSequenceNumber
           D == parser.deferred
           N == parser.NextDisplayFrameIndex
           f == P + 1
<1>0. /\ Typed /\ ParseRanges /\ ParseRanges' /\ MessageRanges /\ P \in Nat
      /\ D \in Frames \cup {None} /\ D \in Nat /\ N \in 0 .. MaxFrames /\ parser.collapse \in BOOLEAN
      /\ DisplayFrameIndex \in [Frames -> Nat] /\ Frames \subseteq Nat
      /\ CollapseHolesInDisplayIndices \in [Frames -> BOOLEAN]
      /\ reference \in [Frames -> BOOLEAN]
  <2>1. Typed /\ ParseRanges /\ ParseRanges' /\ MessageRanges /\ InputRanges  BY DEF TypeInv, Ranges
  <2>2. Frames \subseteq Nat /\ None \in Nat  BY Bounds DEF None
  <2>3. 0 .. MaxFrames - 1 \cup {INVALID_INDEX} \subseteq Nat  BY Bounds
  <2>4. DisplayFrameIndex \in [Frames -> Nat]  BY <2>1, <2>3 DEF ParseRanges
  <2>5. /\ D \in Frames \cup {None} /\ N \in 0 .. MaxFrames /\ parser.collapse \in BOOLEAN
        /\ CollapseHolesInDisplayIndices \in [Frames -> BOOLEAN]
    BY <2>1 DEF ParseRanges
  <2> QED BY <2>1, <2>2, <2>4, <2>5 DEF MessageRanges, InputRanges
<1>1. /\ f \in Frames /\ ParseFrame(f) /\ UNCHANGED reference
      /\ NextBufferSequenceNumber' = P + 1
  <2>1. CollatedFrameRing # <<>>  BY DEF CtoPFrame
  <2>2. /\ Head(CollatedFrameRing) \in FrameItems /\ Head(CollatedFrameRing).id = f
        /\ [Head(CollatedFrameRing) EXCEPT !.Value = P] \in FrameItems
        /\ [Head(CollatedFrameRing) EXCEPT !.Value = P].id = f
    BY <2>1, <1>0, FirstCollated
  <2>3. f \in Frames  BY <2>2, FrameIs
  <2>4. ~DiscardingUntilMarkerFrame["CtoP"]  BY DEF Quiet
  <2>5. [Head(CollatedFrameRing) EXCEPT !.Value = P].kind # "jump"  BY <2>2, FrameIs
  <2> QED BY <2>2, <2>3, <2>4, <2>5 DEF CtoPFrame, input
<1>2. N # INVALID_INDEX /\ N \in Nat /\ f \in Nat /\ f # None /\ None = 0
  BY <1>0, Bounds DEF None
<1>3. D <= P /\ \A h \in Frames : HasIndex(h) <=> h <= P /\ h # D
  BY DEF Numbered
<1>4. \A h \in Frames : HasIndex(h) => DisplayFrameIndex[h] < N  BY DEF Numbered
<1>5. ASSUME NEW g \in Frames, ~HasIndex(g), parser'.NextDisplayFrameIndex = N + 1,
             parser'.collapse = FALSE,
             DisplayFrameIndex' = [DisplayFrameIndex EXCEPT ![g] = N],
             CollapseHolesInDisplayIndices' =
               [CollapseHolesInDisplayIndices EXCEPT ![g] = parser.collapse],
             \/ g = f /\ ~reference[f] /\ parser'.deferred = D
             \/ g = D /\ D # None /\ reference[f] /\ parser'.deferred = f
      PROVE  /\ Numbered' /\ Reordered' /\ NextGiven
             /\ \A h \in Frames : CollapseHolesInDisplayIndices'[h] => DisplayFrameIndex'[h] = 0
  <2>1. /\ DisplayFrameIndex'[g] = N
        /\ \A h \in Frames \ {g} : DisplayFrameIndex'[h] = DisplayFrameIndex[h]
        /\ CollapseHolesInDisplayIndices'[g] = parser.collapse
        /\ \A h \in Frames \ {g} :
             CollapseHolesInDisplayIndices'[h] = CollapseHolesInDisplayIndices[h]
    BY <1>0, <1>5
  <2>2. \A h \in Frames : HasIndex(h)' <=> HasIndex(h) \/ h = g
    BY <2>1, <1>2 DEF HasIndex
  <2>3. NextGiven  BY <2>1, <1>5 DEF NextGiven, HasIndex
  <2>4. ASSUME NEW h \in Frames, CollapseHolesInDisplayIndices'[h] PROVE DisplayFrameIndex'[h] = 0
    BY <2>1, <2>4 DEF NoLeap
  <2>5. g \in Nat /\ g <= f
    BY <1>5, <1>0, <1>3, <1>2
  <2>6. parser'.deferred \in Nat /\ parser'.deferred <= f
    BY <1>5, <1>0, <1>2, <1>3
  <2>7. \A h \in Frames : HasIndex(h)' <=> h <= f /\ h # parser'.deferred
    <3>1. ASSUME NEW h \in Frames PROVE HasIndex(h)' <=> h <= f /\ h # parser'.deferred
      <4>1. HasIndex(h)' <=> (h <= P /\ h # D) \/ h = g  BY <2>2, <1>3
      <4>2. h \in Nat  BY <1>0
      <4>3. CASE g = f /\ parser'.deferred = D
        BY <4>1, <4>2, <4>3, <1>0, <1>2, <1>3
      <4>4. CASE g = D /\ parser'.deferred = f
        BY <4>1, <4>2, <4>4, <1>0, <1>2, <1>3
      <4> QED BY <4>3, <4>4, <1>5
    <3> QED BY <3>1
  <2>8. \A h \in Frames : HasIndex(h)' => DisplayFrameIndex'[h] < N + 1
    <3>1. ASSUME NEW h \in Frames, HasIndex(h)' PROVE DisplayFrameIndex'[h] < N + 1
      <4>1. CASE h = g  BY <4>1, <2>1, <1>2
      <4>2. CASE h # g
        <5>1. DisplayFrameIndex'[h] = DisplayFrameIndex[h] /\ DisplayFrameIndex[h] < N
          BY <4>2, <3>1, <2>1, <2>2, <1>4
        <5> QED BY <5>1, <1>0, <1>2
      <4> QED BY <4>1, <4>2
    <3> QED BY <3>1
  <2>9. \A h, k \in Frames : HasIndex(h)' /\ HasIndex(k)' /\ DisplayFrameIndex'[h] = DisplayFrameIndex'[k]
          => h = k
    <3>1. \A h \in Frames \ {g} : HasIndex(h)' => DisplayFrameIndex'[h] < N
      BY <2>1, <2>2, <1>4
    <3>2. \A h, k \in Frames \ {g} : HasIndex(h)' /\ HasIndex(k)'
            /\ DisplayFrameIndex'[h] = DisplayFrameIndex'[k] => h = k
      BY <2>1, <2>2 DEF Numbered
    <3>3. \A h \in Frames \ {g} : HasIndex(h)' => DisplayFrameIndex'[h] # N
      BY <3>1, <2>1, <1>0, <1>2
    <3> QED BY <3>2, <3>3, <2>1
  <2>10. Numbered'
    BY <2>6, <2>7, <2>8, <2>9, <1>1, <1>5 DEF Numbered
  <2>11. parser'.deferred # None => Leads(parser'.deferred, f)
    <3>1. CASE parser'.deferred = D /\ ~reference[f]
      <4>1. ASSUME D # None, NEW h \in D + 1 .. f PROVE ~reference[h]
        <5>1. h = f \/ h \in D + 1 .. P  BY <4>1, <1>0, <1>2
        <5> QED BY <5>1, <4>1, <3>1 DEF Reordered, Leads
      <4> QED BY <4>1, <3>1 DEF Reordered, Leads
    <3>2. CASE parser'.deferred = f /\ reference[f]
      <4>1. f + 1 .. f = {}  BY <1>2
      <4> QED BY <3>2, <4>1 DEF Leads
    <3> QED BY <3>1, <3>2, <1>5
  <2>12. ASSUME NEW h \in Frames, NEW k \in Frames, h < k, HasIndex(h)', HasIndex(k)',
                DisplayFrameIndex'[k] < DisplayFrameIndex'[h]
         PROVE  Leads(h, k)
    <3>1. h \in Nat /\ k \in Nat /\ k <= f /\ k # parser'.deferred  BY <1>0, <2>7, <2>12
    <3>2. CASE h # g /\ k # g
      <4>1. HasIndex(h) /\ HasIndex(k) /\ DisplayFrameIndex[k] < DisplayFrameIndex[h]
        BY <3>2, <2>1, <2>2, <2>12
      <4> QED BY <4>1, <2>12 DEF Reordered
    <3>3. CASE k = g
      <4>1. h # g /\ DisplayFrameIndex'[h] < N  BY <3>1, <3>3, <2>1, <2>2, <2>12, <1>4
      <4>2. DisplayFrameIndex'[h] \in Nat  BY <4>1, <2>1, <1>0
      <4> QED BY <4>1, <4>2, <3>3, <2>1, <2>12, <1>2
    <3>4. CASE h = g
      <4>1. g # f  BY <3>1, <3>4, <2>12, <1>2
      <4>2. g = D /\ D # None /\ parser'.deferred = f  BY <4>1, <1>5
      <4>3. k <= P  BY <4>2, <3>1, <1>0
      <4>4. Leads(D, P)  BY <4>2 DEF Reordered
      <4>5. D + 1 .. k \subseteq D + 1 .. P  BY <4>3, <3>1, <1>0
      <4> QED BY <3>4, <4>2, <4>4, <4>5 DEF Leads
    <3> QED BY <3>2, <3>3, <3>4
  <2>13. Reordered'
    <3>1. \A h, k : Leads(h, k)' <=> Leads(h, k)  BY <1>1 DEF Leads
    <3> QED BY <3>1, <2>11, <2>12, <1>1 DEF Reordered
  <2> QED BY <2>3, <2>4, <2>10, <2>13
<1>6. CASE ~reference[f]
  <2>1. /\ DisplayFrameIndex' = [DisplayFrameIndex EXCEPT ![f] = N]
        /\ CollapseHolesInDisplayIndices' =
             [CollapseHolesInDisplayIndices EXCEPT ![f] = parser.collapse]
        /\ parser'.NextDisplayFrameIndex = N + 1 /\ parser'.collapse = FALSE
        /\ parser'.deferred = D
    BY <1>1, <1>6 DEF ParseFrame, CalculateFrameIndex, NextIndex
  <2>2. ~HasIndex(f)  BY <1>0, <1>1, <1>3
  <2>3. N <= N + 1  BY <1>2
  <2> HIDE DEF P, D, N, f
  <2>4. parser.NextDisplayFrameIndex = N  BY DEF N
  <2> QED BY <2>1, <2>2, <2>3, <2>4, <1>1, <1>5, <1>6
<1>7. CASE reference[f] /\ D # None
  <2>1. /\ DisplayFrameIndex' = [DisplayFrameIndex EXCEPT ![D] = N]
        /\ CollapseHolesInDisplayIndices' =
             [CollapseHolesInDisplayIndices EXCEPT ![D] = parser.collapse]
        /\ parser'.NextDisplayFrameIndex = N + 1 /\ parser'.collapse = FALSE
        /\ parser'.deferred = f
    BY <1>1, <1>7 DEF ParseFrame, CalculateFrameIndex, NextIndex
  <2>2. D \in Frames /\ ~HasIndex(D)  BY <1>0, <1>7, <1>3
  <2>3. N <= N + 1  BY <1>2
  <2> HIDE DEF P, D, N, f
  <2>4. parser.NextDisplayFrameIndex = N  BY DEF N
  <2> QED BY <2>1, <2>2, <2>3, <2>4, <1>1, <1>5, <1>7
<1>8. CASE reference[f] /\ D = None
  <2>1. /\ UNCHANGED <<DisplayFrameIndex, CollapseHolesInDisplayIndices>>
        /\ parser' = [parser EXCEPT !.deferred = f]
    BY <1>1, <1>8 DEF ParseFrame
  <2>2. /\ parser'.deferred = f /\ parser'.NextDisplayFrameIndex = N
        /\ parser'.collapse = parser.collapse
    BY <2>1, <1>0 DEF ParseRanges
  <2>3. \A h \in Frames : HasIndex(h)' <=> HasIndex(h)  BY <2>1 DEF HasIndex
  <2>4. \A h \in Frames : HasIndex(h)' <=> h <= f /\ h # parser'.deferred
    <3>1. ASSUME NEW h \in Frames PROVE (h <= P /\ h # D) <=> (h <= f /\ h # f)
      <4>1. h \in Nat /\ h # 0  BY Bounds
      <4> QED BY <4>1, <1>8, <1>0, <1>2
    <3> QED BY <3>1, <2>2, <2>3, <1>3
  <2>5. Numbered'
    <3>1. parser'.deferred <= f  BY <2>2, <1>2
    <3> QED BY <3>1, <2>1, <2>2, <2>3, <2>4, <1>1 DEF Numbered
  <2>6. Leads(f, f)
    <3>1. f + 1 .. f = {}  BY <1>2
    <3> QED BY <1>8, <3>1 DEF Leads
  <2>7. \A h, k : Leads(h, k)' <=> Leads(h, k)  BY <1>1 DEF Leads
  <2>8. Reordered'
    BY <2>1, <2>2, <2>3, <2>6, <2>7, <1>1 DEF Reordered
  <2>9. NextGiven  BY <2>1 DEF NextGiven, HasIndex
  <2>10. N <= parser'.NextDisplayFrameIndex  BY <2>2, <1>2
  <2> QED BY <2>1, <2>2, <2>5, <2>8, <2>9, <2>10 DEF NoLeap
<1> QED BY <1>6, <1>7, <1>8

-----------------------------------------------------------------------------
\* Two frames on the way have two numbers.
LEMMA FramesOnTheWay ==
  ASSUME Typed, Quiet, Chain, MessageRanges
  PROVE  /\ Waiting \subseteq Everywhere
         /\ \A m \in Everywhere : /\ m \in FrameItems /\ ~IsControl(m) /\ m.id \in Frames
                                  /\ m.Value \in Nat /\ m.id <= NextBufferSequenceNumber
         /\ \A m, o \in Everywhere : m.id = o.id => m = o
<1>1. Waiting \subseteq Everywhere  BY DEF Waiting, Everywhere, InX
<1>2. ASSUME NEW m \in Everywhere PROVE m \in FrameItems
  <2>1. IsFrame(m)  BY DEF Quiet
  <2>2. CASE m \in InP  BY <2>1, <2>2, ParsedIs, MembersOf DEF InP, Typed
  <2>3. CASE m \in InH \/ m \in InF
    <3>1. m \in FrameItems \cup MarkerItems \cup {Nothing}  BY <2>3 DEF InH, InF, InHand, Typed
    <3> QED BY <3>1, <2>1, MarkerIs, NothingIs
  <2>4. CASE m \in InK  BY <2>1, <2>4, CodedIs, MembersOf DEF InK, Typed
  <2>5. CASE m \in InD  BY <2>1, <2>5, DecodedIs, MembersOf DEF InD, Typed
  <2>6. CASE m \in AccumulatedBufferTable  BY <2>6 DEF Typed
  <2>7. CASE m \in InHand(DtoMBuffer)  BY <2>1, <2>7, NothingIs DEF InHand, Typed
  <2>8. CASE m \in ToSet(manifestor)  BY <2>8, MembersOf DEF Typed
  <2>9. CASE m \in ToSet(ManifestedBufferRing)  BY <2>1, <2>9, ManifestedIs, MembersOf DEF Typed
  <2> QED BY <2>2, <2>3, <2>4, <2>5, <2>6, <2>7, <2>8, <2>9 DEF Everywhere, InX
<1>3. ASSUME NEW m \in Everywhere
      PROVE  /\ ~IsControl(m) /\ m.id \in Frames /\ m.Value \in Nat
             /\ m.id <= NextBufferSequenceNumber
  <2>1. ~IsControl(m) /\ m.id \in Frames /\ m.Value \in Nat  BY <1>2, FrameIs
  <2>2. m.Value < NextBufferSequenceNumber  BY <2>1 DEF Chain, ChainBelow
  <2>3. m.id = m.Value + 1  BY DEF Quiet
  <2> QED BY <2>1, <2>2, <2>3 DEF MessageRanges
<1>4. ASSUME NEW m \in Everywhere, NEW o \in Everywhere, m.id = o.id PROVE m = o
  <2>1. m.id = m.Value + 1 /\ o.id = o.Value + 1  BY DEF Quiet
  <2>2. m.Value = o.Value  BY <2>1, <1>3, <1>4
  <2>3. m \in FrameItems /\ o \in FrameItems  BY <1>2
  <2> QED BY <2>2, <2>3, <1>4 DEF FrameItems
<1> QED BY <1>1, <1>2, <1>3, <1>4

\* Stepping over what is not decoded never passes a frame that waits.
LEMMA SkipInOrder ==
  ASSUME TypeInv, Quiet, Chain, Numbered, NoLeap, TurnToCome
  PROVE  /\ SkipNonDecoded.desired \in DesiredFrameIndex .. MaxFrames
         /\ SkipNonDecoded.desired <= parser.NextDisplayFrameIndex
         /\ \A m \in Waiting :
              HasIndex(m.id) => SkipNonDecoded.desired <= DisplayFrameIndex[m.id]
         /\ SkipNonDecoded.table.DisplayIndicesCollapse = 0
         /\ SkipNonDecoded.table.released \cup SkipNonDecoded.table.held
              \subseteq NonDecoded.released \cup NonDecoded.held
<1> DEFINE d == SkipNonDecoded.desired
           N == parser.NextDisplayFrameIndex
<1>1. /\ Typed /\ ParseRanges /\ ReorderRanges /\ MessageRanges
      /\ \A f \in NonDecoded.released : DisplayFrameIndex[f] # INVALID_INDEX
      /\ N \in Nat /\ N # INVALID_INDEX /\ DesiredFrameIndex \in Nat /\ MaxFrames \in Nat
      /\ NonDecoded.released \subseteq Frames /\ NonDecoded.held \subseteq Frames
  <2>1. /\ Typed /\ ParseRanges /\ ReorderRanges /\ MessageRanges
        /\ \A f \in NonDecoded.released : DisplayFrameIndex[f] # INVALID_INDEX
    BY DEF TypeInv, Ranges, IndexedInHand
  <2>2. N \in 0 .. MaxFrames  BY <2>1 DEF ParseRanges
  <2> QED BY <2>1, <2>2, Bounds DEF ReorderRanges
<1>2. \A f \in Frames : DisplayFrameIndex[f] \in Nat
  <2>1. 0 .. MaxFrames - 1 \cup {INVALID_INDEX} \subseteq Nat  BY Bounds
  <2> QED BY <2>1, <1>1 DEF ParseRanges
<1>3. /\ d \in DesiredFrameIndex .. MaxFrames
      /\ \/ Collapse = NonDecoded.DisplayIndicesCollapse
         \/ \E g \in Indexed : /\ Collapse = DisplayFrameIndex[g]
                               /\ \/ DiscardingUntilMarkerFrame["DtoM"]
                                  \/ CollapseHolesInDisplayIndices[g]
      /\ \A e \in DesiredFrameIndex .. d - 1 :
           e < Collapse \/ \E f \in Noted : e = DisplayFrameIndex[f]
      /\ SkipNonDecoded.table =
           [released |-> {f \in Noted : DisplayFrameIndex[f] > d},
            held |-> NonDecoded.held \ Indexed, DisplayIndicesCollapse |-> Collapse]
  BY <1>1, SkipIs
<1>4. /\ Noted \subseteq NonDecoded.released \cup NonDecoded.held /\ Noted \subseteq Frames
      /\ \A f \in Noted : HasIndex(f)
      /\ Indexed \subseteq Frames
  BY <1>1 DEF Noted, Indexed, HasIndex
<1>5. Collapse = 0
  <2>1. ~DiscardingUntilMarkerFrame["DtoM"]  BY DEF Quiet
  <2>2. \A g \in Indexed : CollapseHolesInDisplayIndices[g] => DisplayFrameIndex[g] = 0
    BY <1>4 DEF NoLeap
  <2> QED BY <1>3, <2>1, <2>2 DEF NoLeap
<1> HIDE DEF d
<1>6. \A e \in DesiredFrameIndex .. d - 1 : \E f \in Noted : e = DisplayFrameIndex[f]
  BY <1>1, <1>3, <1>5
<1>7. d \in Nat  BY <1>1, <1>3
<1>8. d <= N
  <2>1. SUFFICES ASSUME N < d PROVE FALSE  BY <1>1, <1>7
  <2>2. N \in DesiredFrameIndex .. d - 1
    <3>1. DesiredFrameIndex <= N  BY DEF TurnToCome
    <3> QED BY <2>1, <3>1, <1>1, <1>7
  <2>3. PICK f \in Noted : N = DisplayFrameIndex[f]  BY <1>6, <2>2
  <2>4. DisplayFrameIndex[f] < N  BY <1>4 DEF Numbered
  <2> QED BY <2>3, <2>4, <1>1
<1>9. ASSUME NEW m \in Waiting, HasIndex(m.id) PROVE d <= DisplayFrameIndex[m.id]
  <2>1. m.id \in Frames  BY <1>1, FramesOnTheWay
  <2>2. /\ DesiredFrameIndex <= DisplayFrameIndex[m.id] /\ DisplayFrameIndex[m.id] \in Nat
    BY <2>1, <1>2, <1>9 DEF TurnToCome
  <2>3. SUFFICES ASSUME DisplayFrameIndex[m.id] < d PROVE FALSE  BY <2>2, <1>7
  <2>4. DisplayFrameIndex[m.id] \in DesiredFrameIndex .. d - 1  BY <2>2, <2>3, <1>1, <1>7
  <2>5. PICK f \in Noted : DisplayFrameIndex[m.id] = DisplayFrameIndex[f]  BY <1>6, <2>4
  <2>6. f = m.id  BY <2>1, <2>5, <1>4, <1>9 DEF Numbered
  <2> QED BY <2>6, <1>4 DEF TurnToCome
<1>10. /\ SkipNonDecoded.table.DisplayIndicesCollapse = 0
       /\ SkipNonDecoded.table.released \cup SkipNonDecoded.table.held
            \subseteq NonDecoded.released \cup NonDecoded.held
  BY <1>3, <1>4, <1>5
<1> QED BY <1>3, <1>8, <1>9, <1>10 DEF d

\* The frame the loop takes out of the table is displayed before whatever else
\* waits: a frame that is to come and is displayed before it would follow it
\* with no reference frame in between, but there is a second frame in the table.
LEMMA LowestIsNext ==
  ASSUME MaxDecodesOutOfOrder >= 2, TypeInv, Quiet, Chain, Numbered, Reordered, NoLeap, TurnToCome,
         Selectable
  PROVE  /\ Lowest \in AccumulatedBufferTable /\ HasIndex(Lowest.id)
         /\ \A m \in Waiting \ {Lowest} :
              HasIndex(m.id) => DisplayFrameIndex[Lowest.id] < DisplayFrameIndex[m.id]
<1>1. /\ Typed /\ ParseRanges /\ MessageRanges /\ NextBufferSequenceNumber \in Nat
      /\ AccumulatedBufferTable \subseteq FrameItems
      /\ parser.deferred \in Frames \cup {None}
      /\ reference \in [Frames -> BOOLEAN]
      /\ DesiredFrameIndex \in Nat
  <2>1. Typed /\ ParseRanges /\ MessageRanges /\ InputRanges /\ ReorderRanges  BY DEF TypeInv, Ranges
  <2>2. DesiredFrameIndex \in Nat  BY <2>1, Bounds DEF ReorderRanges
  <2> QED BY <2>1, <2>2 DEF MessageRanges, Typed, ParseRanges, InputRanges
<1>2. \A f \in Frames : DisplayFrameIndex[f] \in Nat /\ f \in Nat
  <2>1. 0 .. MaxFrames - 1 \cup {INVALID_INDEX} \subseteq Nat  BY Bounds
  <2> QED BY <2>1, <1>1, Bounds DEF ParseRanges
<1> DEFINE L == Lowest
<1>3. /\ L \in AccumulatedBufferTable /\ HasIndex(L.id)
      /\ \A o \in Known : DisplayFrameIndex[L.id] <= DisplayFrameIndex[o.id]
  BY <1>1, SelectedIs DEF HasIndex
<1>4. /\ L \in Waiting /\ L \in Everywhere /\ AccumulatedBufferTable \subseteq Everywhere
      /\ AccumulatedBufferTable \subseteq InX
  BY <1>3 DEF Waiting, Everywhere, InX
<1> HIDE DEF L
<1>5. ASSUME NEW m \in Waiting, m # L, HasIndex(m.id)
      PROVE  DisplayFrameIndex[L.id] < DisplayFrameIndex[m.id]
  <2>1. /\ m \in Everywhere /\ m.id \in Frames /\ L.id \in Frames /\ m.id # L.id
        /\ ~IsControl(m) /\ ~IsControl(L)
    BY <1>1, <1>4, <1>5, FramesOnTheWay
  <2>2. DisplayFrameIndex[m.id] # DisplayFrameIndex[L.id]  BY <2>1, <1>3, <1>5 DEF Numbered
  <2>3. /\ DisplayFrameIndex[m.id] \in Nat /\ DisplayFrameIndex[L.id] \in Nat
        /\ m.id \in Nat /\ L.id \in Nat
    BY <2>1, <1>2
  <2>4. CASE DisplayFrameIndex[L.id] = DesiredFrameIndex
    <3>1. DesiredFrameIndex <= DisplayFrameIndex[m.id]  BY <1>5 DEF TurnToCome
    <3> QED BY <3>1, <2>2, <2>3, <2>4
  <2>5. CASE CollapseHolesInDisplayIndices[L.id]
    <3>1. DisplayFrameIndex[L.id] = 0  BY <2>1, <2>5 DEF NoLeap
    <3> QED BY <3>1, <2>2, <2>3
  <2>6. CASE m \in AccumulatedBufferTable
    <3>1. m \in Known  BY <2>6, <1>5 DEF Known, HasIndex
    <3> QED BY <3>1, <1>3, <2>2, <2>3
  <2>7. CASE m \notin AccumulatedBufferTable /\ Cardinality(AccumulatedBufferTable) >= MaxDecodesOutOfOrder
    <3>1. PICK o \in AccumulatedBufferTable : o # L
      <4>1. SUFFICES ASSUME \A o \in AccumulatedBufferTable : o = L PROVE FALSE  OBVIOUS
      <4>2. AccumulatedBufferTable = {L}  BY <4>1, <1>3
      <4>3. Cardinality(AccumulatedBufferTable) = 1  BY <4>2, FS_Singleton
      <4> QED BY <4>3, <2>7, Bounds
    <3>2. /\ o \in Everywhere /\ o.id \in Frames /\ o.id \in Nat /\ o.id # L.id /\ ~IsControl(o)
          /\ o.id <= NextBufferSequenceNumber
      BY <3>1, <1>1, <1>2, <1>4, FramesOnTheWay
    <3>3. o.id < m.id /\ L.id < m.id
      <4>1. m \in InP \cup InH \cup InK \cup InD  BY <2>7 DEF Waiting
      <4>2. o \in InX /\ L \in InX  BY <3>1, <1>3, <1>4
      <4>3. o.Value < m.Value /\ L.Value < m.Value
        BY <4>1, <4>2, <2>1, <3>2 DEF Chain, ChainLess, Less
      <4>4. /\ o.id = o.Value + 1 /\ m.id = m.Value + 1 /\ L.id = L.Value + 1
            /\ o.Value \in Nat /\ m.Value \in Nat /\ L.Value \in Nat
        BY <2>1, <3>2, <1>1, <1>4, FramesOnTheWay DEF Quiet
      <4> QED BY <4>3, <4>4
    <3>4. SUFFICES ASSUME DisplayFrameIndex[m.id] < DisplayFrameIndex[L.id] PROVE FALSE
      BY <2>2, <2>3
    <3>5. Leads(L.id, m.id)  BY <3>3, <3>4, <2>1, <1>3, <1>5 DEF Reordered
    <3>6. ~(L.id < o.id /\ reference[o.id])
      BY <3>2, <3>3, <3>5, <2>3 DEF Leads
    <3>7. CASE HasIndex(o.id)
      <4>1. o \in Known  BY <3>7, <3>1 DEF Known, HasIndex
      <4>2. DisplayFrameIndex[m.id] < DisplayFrameIndex[o.id]
        BY <4>1, <1>3, <3>4, <2>3, <1>2, <3>2
      <4>3. Leads(o.id, m.id)  BY <4>2, <3>3, <3>7, <1>5, <2>1, <3>2 DEF Reordered
      <4>4. ~(o.id < L.id /\ reference[L.id])
        BY <4>3, <3>2, <3>3, <2>3 DEF Leads
      <4> QED BY <4>3, <4>4, <3>5, <3>6, <3>2, <2>3 DEF Leads
    <3>8. CASE ~HasIndex(o.id)
      <4>1. o.id = parser.deferred  BY <3>2, <3>8 DEF Numbered
      <4>2. o.id # None  BY <3>2, Bounds DEF None
      <4>3. Leads(o.id, NextBufferSequenceNumber)  BY <4>1, <4>2 DEF Reordered
      <4>4. L.id <= NextBufferSequenceNumber  BY <1>1, <1>4, FramesOnTheWay
      <4>5. ~(o.id < L.id /\ reference[L.id])
        BY <4>3, <4>4, <3>2, <2>3, <1>1 DEF Leads
      <4> QED BY <4>3, <4>5, <3>5, <3>6, <3>2, <2>3 DEF Leads
    <3> QED BY <3>7, <3>8
  <2>8. CASE IsMarker(MarkerFrameBuffer)  BY <2>8, NothingIs DEF Quiet
  <2> QED BY <2>4, <2>5, <2>6, <2>7, <2>8 DEF Selectable, L
<1> QED BY <1>3, <1>5 DEF L

-----------------------------------------------------------------------------
\* The frame in ParseToDecode's hand, once dropped, waits nowhere.
LEMMA DroppedGone ==
  ASSUME Typed, Quiet, Chain, MessageRanges, PtoDDiscard
  PROVE  /\ PtoDBuffer \in FrameItems /\ PtoDBuffer \in Waiting
         /\ Waiting' \subseteq Waiting \ {PtoDBuffer}
<1>1. /\ PtoDBuffer # Nothing /\ PtoDBuffer' = Nothing
      /\ UNCHANGED <<ParsedFrameRing, codec, DecodedFrameRing, AccumulatedBufferTable>>
  BY DEF PtoDDiscard, rings, dtom
<1>2. InH = {PtoDBuffer} /\ InH' = {}  BY <1>1 DEF InH, InHand
<1>3. InP' = InP /\ InK' = InK /\ InD' = InD  BY <1>1 DEF InP, InK, InD, ToSet
<1>4. PtoDBuffer \in Everywhere /\ PtoDBuffer \in Waiting  BY <1>2 DEF Everywhere, Waiting
<1>5. PtoDBuffer \in FrameItems /\ ~IsControl(PtoDBuffer) /\ PtoDBuffer.Value \in Nat
  BY <1>4, FramesOnTheWay
<1>6. PtoDBuffer \notin InP \cup InK \cup InD \cup AccumulatedBufferTable
  <2>1. ~(PtoDBuffer.Value < PtoDBuffer.Value)  BY <1>5
  <2> QED BY <2>1, <1>2, <1>5 DEF Chain, ChainLess, Less, InX
<1> QED BY <1>1, <1>2, <1>3, <1>4, <1>5, <1>6 DEF Waiting

\* A frame taken out of the table or the ring into DecodeToManifest's hand.
LEMMA SelectedGone ==
  ASSUME Typed, Quiet, Chain, MessageRanges, ParseRanges, DtoMSelect
  PROVE  Waiting' \subseteq Waiting \ {Lowest}
<1>1. /\ Selectable
      /\ AccumulatedBufferTable' = AccumulatedBufferTable \ {Lowest}
      /\ UNCHANGED <<ParsedFrameRing, PtoDBuffer, codec, DecodedFrameRing>>
  BY DEF DtoMSelect, rings
<1>2. Lowest \in AccumulatedBufferTable  BY <1>1, SelectedIs DEF Typed
<1>3. Lowest \in Everywhere /\ Lowest \in InX  BY <1>2 DEF Everywhere, InX
<1>4. ~IsControl(Lowest) /\ Lowest.Value \in Nat  BY <1>3, FramesOnTheWay
<1>5. InP' = InP /\ InH' = InH /\ InK' = InK /\ InD' = InD
  BY <1>1 DEF InP, InH, InHand, InK, InD, ToSet
<1>6. Lowest \notin InP \cup InH \cup InK \cup InD
  <2>1. ~(Lowest.Value < Lowest.Value)  BY <1>4
  <2> QED BY <2>1, <1>3, <1>4 DEF Chain, ChainLess, Less
<1> QED BY <1>1, <1>5, <1>6 DEF Waiting

\* A frame taken out of the table is no longer in it, and nothing else leaves.
LEMMA ExtractedGone ==
  ASSUME Typed, Quiet, Chain, MessageRanges, DtoMExtract, UNCHANGED AccumulatedBufferTable
  PROVE  Waiting' \subseteq Waiting \ {Head(DecodedFrameRing)}
<1> DEFINE m == Head(DecodedFrameRing)
<1>1. /\ DecodedFrameRing # <<>> /\ DecodedFrameRing' = Tail(DecodedFrameRing)
      /\ UNCHANGED <<ParsedFrameRing, PtoDBuffer, codec, AccumulatedBufferTable>>
  BY DEF DtoMExtract
<1>2. m \in InD /\ InD' \subseteq InD  BY <1>1, TailIs DEF InD, Typed
<1>3. m \in Everywhere  BY <1>2 DEF Everywhere
<1>4. ~IsControl(m) /\ m.Value \in Nat  BY <1>3, FramesOnTheWay
<1>5. Less({m}, InD')
  <2>1. \A o \in DecodedItems : o.Value \in Nat  BY DecodedIs
  <2> QED BY <1>1, <2>1, RisingTail DEF Typed, Chain, ChainRising, InD
<1>6. InP' = InP /\ InH' = InH /\ InK' = InK
  BY <1>1 DEF InP, InH, InHand, InK, ToSet
<1> HIDE DEF m
<1>7. m \notin InP \cup InH \cup InK \cup InD' \cup AccumulatedBufferTable
  <2>1. ~(m.Value < m.Value)  BY <1>4
  <2> QED BY <2>1, <1>2, <1>4, <1>5 DEF Chain, ChainLess, Less, InX
<1> QED BY <1>1, <1>2, <1>6, <1>7 DEF Waiting, m

\* The turn of what waits is still to come when frames only move on.
LEMMA TurnKept ==
  ASSUME TurnToCome, NextInHand, NoLeap, Waiting' \subseteq Waiting,
         UNCHANGED <<DisplayFrameIndex, CollapseHolesInDisplayIndices, parser,
                     NextBufferSequenceNumber, DesiredFrameIndex, NonDecoded, DtoMBuffer>>
  PROVE  TurnToCome' /\ NextInHand' /\ NoLeap'
<1>1. \A m : HasIndex(m.id)' <=> HasIndex(m.id)  BY DEF HasIndex
<1> QED BY <1>1 DEF TurnToCome, NextInHand, NoLeap

\* The frame the parser sees is displayed after whatever is in hand or let go.
LEMMA TurnParsed ==
  ASSUME TypeInv, TypeInv', Order, NextGiven, CtoPFrame,
         parser.NextDisplayFrameIndex <= parser'.NextDisplayFrameIndex
  PROVE  TurnToCome' /\ NextInHand' /\ UNCHANGED NonDecoded
<1> DEFINE h == Head(CollatedFrameRing)
           m == [h EXCEPT !.Value = NextBufferSequenceNumber]
           N == parser.NextDisplayFrameIndex
<1>0. /\ Typed /\ ParseRanges /\ MessageRanges /\ ReorderRanges /\ IndexedInHand
      /\ Quiet /\ Chain /\ Numbered /\ TurnToCome /\ NextInHand
      /\ N \in Nat /\ parser'.NextDisplayFrameIndex \in Nat
      /\ NextBufferSequenceNumber \in Nat /\ DesiredFrameIndex \in Nat
  <2>1. Typed /\ ParseRanges /\ MessageRanges /\ ReorderRanges /\ IndexedInHand /\ ParseRanges'
    BY DEF TypeInv, Ranges
  <2>2. N \in Nat /\ parser'.NextDisplayFrameIndex \in Nat  BY <2>1, Bounds DEF ParseRanges
  <2> QED BY <2>1, <2>2, Bounds DEF MessageRanges, ReorderRanges, Order
<1>1. \A f \in Frames : DisplayFrameIndex[f] \in Nat /\ f \in Nat
  <2>1. 0 .. MaxFrames - 1 \cup {INVALID_INDEX} \subseteq Nat  BY Bounds
  <2> QED BY <2>1, <1>0, Bounds DEF ParseRanges
<1>2. /\ CollatedFrameRing # <<>>
      /\ NextBufferSequenceNumber' = NextBufferSequenceNumber + 1
      /\ ParsedFrameRing' = ParsedFrameRing \/ ParsedFrameRing' = Append(ParsedFrameRing, m)
      /\ UNCHANGED <<PtoDBuffer, codec, DecodedFrameRing, dtom, NonDecoded>>
  BY DEF CtoPFrame
<1>3. m \in FrameItems /\ m.id = NextBufferSequenceNumber + 1
  BY <1>0, <1>2, FirstCollated
<1>4. m \in ParsedItems  BY <1>3, ItemSets
<1> HIDE DEF m
<1>5. Waiting' \subseteq Waiting \cup {m}
  <2>1. InP' \subseteq InP \cup {m}
    <3>1. CASE ParsedFrameRing' = ParsedFrameRing  BY <3>1 DEF InP, ToSet
    <3>2. CASE ParsedFrameRing' = Append(ParsedFrameRing, m)
      BY <3>2, <1>0, <1>4, AppendIs DEF InP, Typed
    <3> QED BY <3>1, <3>2, <1>2
  <2> QED BY <2>1, <1>2 DEF Waiting, InH, InHand, InK, InD, ToSet, dtom
<1>6. \A x \in Waiting : x.id \in Frames /\ x.id <= NextBufferSequenceNumber
  BY <1>0, FramesOnTheWay
<1>7. m.id \in Frames  BY <1>3, FrameIs
<1>8. UNCHANGED <<DesiredFrameIndex, DtoMBuffer, NonDecoded>>  BY <1>2 DEF dtom
<1>9. ASSUME NEW x \in Waiting'
      PROVE  /\ x.id \in Frames
             /\ x.id \notin NonDecoded.released \cup NonDecoded.held
             /\ DisplayFrameIndex'[x.id] # INVALID_INDEX =>
                  \/ x \in Waiting /\ HasIndex(x.id) /\ DisplayFrameIndex'[x.id] = DisplayFrameIndex[x.id]
                  \/ DisplayFrameIndex'[x.id] = N
  <2>1. CASE x \in Waiting
    <3>1. x.id \in Frames /\ x.id \notin NonDecoded.released \cup NonDecoded.held
      BY <2>1, <1>0, <1>6 DEF TurnToCome
    <3> QED BY <2>1, <3>1 DEF NextGiven
  <2>2. CASE x = m
    <3>1. m.id \notin NonDecoded.released \cup NonDecoded.held
      <4>1. ~(NextBufferSequenceNumber + 1 <= NextBufferSequenceNumber)  BY <1>0
      <4> QED BY <4>1, <1>0, <1>3 DEF TurnToCome
    <3>2. ~HasIndex(m.id)
      <4>1. ~(NextBufferSequenceNumber + 1 <= NextBufferSequenceNumber)  BY <1>0
      <4> QED BY <4>1, <1>0, <1>3, <1>7 DEF Numbered
    <3> QED BY <2>2, <3>1, <3>2, <1>7 DEF NextGiven
  <2> QED BY <2>1, <2>2, <1>5
<1>10. TurnToCome'
  <2>1. DesiredFrameIndex <= N  BY <1>0 DEF TurnToCome
  <2>2. DesiredFrameIndex' <= parser'.NextDisplayFrameIndex  BY <2>1, <1>0, <1>8
  <2>3. ASSUME NEW f \in NonDecoded.released \cup NonDecoded.held PROVE f <= NextBufferSequenceNumber'
    <3>1. f \in Nat /\ f <= NextBufferSequenceNumber
      BY <1>0, <1>1 DEF TurnToCome, ReorderRanges
    <3> QED BY <3>1, <1>0, <1>2
  <2>4. ASSUME NEW x \in Waiting', HasIndex(x.id)' PROVE DesiredFrameIndex <= DisplayFrameIndex'[x.id]
    BY <2>1, <2>4, <1>0, <1>9 DEF HasIndex, TurnToCome
  <2> QED BY <2>2, <2>3, <2>4, <1>8, <1>9 DEF TurnToCome
<1>11. NextInHand'
  <2>1. SUFFICES ASSUME DtoMBuffer # Nothing PROVE NextInHand'  BY <1>8 DEF NextInHand
  <2>2. DtoMBuffer \in FrameItems /\ DtoMBuffer.id \in Frames /\ HasIndex(DtoMBuffer.id)
    BY <2>1, <1>0, HeadsAre, FrameIs DEF IndexedInHand, HasIndex
  <2>3. DisplayFrameIndex'[DtoMBuffer.id] = DisplayFrameIndex[DtoMBuffer.id]  BY <2>2 DEF NextGiven
  <2>4. DisplayFrameIndex[DtoMBuffer.id] < N  BY <2>2, <1>0 DEF Numbered
  <2>5. ASSUME NEW x \in Waiting', HasIndex(x.id)'
        PROVE  DisplayFrameIndex'[DtoMBuffer.id] < DisplayFrameIndex'[x.id]
    BY <2>1, <2>3, <2>4, <2>5, <1>0, <1>9 DEF HasIndex, NextInHand
  <2> QED BY <2>1, <2>3, <2>5, <1>0, <1>8 DEF NextInHand
<1> QED BY <1>8, <1>10, <1>11

\* A frame that is dropped on its way to the codec is noted, and waits no longer.
LEMMA TurnDropped ==
  ASSUME TypeInv, Order, PtoDDiscard
  PROVE  TurnToCome' /\ NextInHand' /\ NoLeap'
<1> DEFINE f == PtoDBuffer.id
<1>0. /\ Typed /\ ParseRanges /\ MessageRanges /\ ReorderRanges
      /\ Quiet /\ Chain /\ TurnToCome /\ NextInHand /\ NoLeap
  BY DEF TypeInv, Ranges, Order
<1>1. /\ PtoDBuffer \in FrameItems /\ PtoDBuffer \in Waiting
      /\ Waiting' \subseteq Waiting \ {PtoDBuffer}
  BY <1>0, DroppedGone
<1>2. UNCHANGED <<DisplayFrameIndex, CollapseHolesInDisplayIndices, parser,
                  NextBufferSequenceNumber, DesiredFrameIndex, DtoMBuffer>>
  BY DEF PtoDDiscard, parse, dtom
<1>3. f \in Frames /\ RecordNonDecodedFrame(f)  BY <1>1, FrameIs DEF PtoDDiscard
<1>4. /\ Waiting \subseteq Everywhere /\ f <= NextBufferSequenceNumber
      /\ \A x \in Waiting : x.id = f => x = PtoDBuffer
  BY <1>0, <1>1, FramesOnTheWay
<1> HIDE DEF f
<1>5. /\ NonDecoded'.released \cup NonDecoded'.held
           \subseteq NonDecoded.released \cup NonDecoded.held \cup {f}
      /\ NonDecoded'.DisplayIndicesCollapse = 0
  <2>1. ~DiscardingUntilMarkerFrame["PtoD"] /\ NonDecoded.DisplayIndicesCollapse = 0
    BY <1>0 DEF Quiet, NoLeap
  <2>2. CollapseHolesInDisplayIndices[f] => DisplayFrameIndex[f] = 0  BY <1>0, <1>3 DEF NoLeap
  <2>3. \/ NonDecoded' = NonDecoded
        \/ NonDecoded' = [NonDecoded EXCEPT !.held = @ \cup {f}]
        \/ /\ NonDecoded'.released = NonDecoded.released \cup {f}
           /\ NonDecoded'.held = NonDecoded.held
           /\ \/ NonDecoded'.DisplayIndicesCollapse = NonDecoded.DisplayIndicesCollapse
              \/ /\ DiscardingUntilMarkerFrame["PtoD"] \/ CollapseHolesInDisplayIndices[f]
                 /\ NonDecoded'.DisplayIndicesCollapse =
                      IF NonDecoded.DisplayIndicesCollapse >= DisplayFrameIndex[f]
                      THEN NonDecoded.DisplayIndicesCollapse ELSE DisplayFrameIndex[f]
    BY <1>0, <1>3, RecordIs
  <2>4. CASE NonDecoded' = NonDecoded  BY <2>1, <2>4
  <2>5. CASE NonDecoded' = [NonDecoded EXCEPT !.held = @ \cup {f}]
    BY <2>1, <2>5, <1>0 DEF ReorderRanges
  <2>6. CASE NonDecoded'.released = NonDecoded.released \cup {f} /\ NonDecoded'.held = NonDecoded.held
    <3>1. \/ NonDecoded'.DisplayIndicesCollapse = 0
          \/ DisplayFrameIndex[f] = 0 /\ NonDecoded'.DisplayIndicesCollapse = IF 0 >= DisplayFrameIndex[f] THEN 0 ELSE DisplayFrameIndex[f]
      <4>1. CASE NonDecoded' = NonDecoded  BY <4>1, <2>1
      <4>2. CASE NonDecoded' = [NonDecoded EXCEPT !.held = @ \cup {f}]
        BY <4>2, <2>1, <1>0 DEF ReorderRanges
      <4>3. CASE NonDecoded'.DisplayIndicesCollapse = NonDecoded.DisplayIndicesCollapse
        BY <4>3, <2>1
      <4>4. CASE /\ CollapseHolesInDisplayIndices[f]
                 /\ NonDecoded'.DisplayIndicesCollapse =
                      IF NonDecoded.DisplayIndicesCollapse >= DisplayFrameIndex[f]
                      THEN NonDecoded.DisplayIndicesCollapse ELSE DisplayFrameIndex[f]
        BY <4>4, <2>1, <2>2
      <4> QED BY <4>1, <4>2, <4>3, <4>4, <2>1, <2>3
    <3>2. NonDecoded'.DisplayIndicesCollapse = 0  BY <3>1
    <3> QED BY <3>2, <2>6
  <2> QED BY <2>3, <2>4, <2>5, <2>6
<1>6. \A m : HasIndex(m.id)' <=> HasIndex(m.id)  BY <1>2 DEF HasIndex
<1>7. TurnToCome'
  <2>1. \A x \in Waiting' : x \in Waiting /\ x.id # f  BY <1>1, <1>4
  <2> QED BY <2>1, <1>0, <1>2, <1>4, <1>5, <1>6 DEF TurnToCome
<1>8. NextInHand'  BY <1>0, <1>1, <1>2, <1>6 DEF NextInHand
<1>9. NoLeap'  BY <1>0, <1>2, <1>5 DEF NoLeap
<1> QED BY <1>7, <1>8, <1>9

\* DecodeToManifest takes the frames in the order of display.
LEMMA TurnTaken ==
  ASSUME MaxDecodesOutOfOrder >= 2, TypeInv, Order,
         DtoMSelect \/ DtoMExtract \/ DtoMTimeout \/ DtoMManifest \/ DtoMDiscard
  PROVE  TurnToCome' /\ NextInHand' /\ NoLeap'
<1> DEFINE N == parser.NextDisplayFrameIndex
           d == SkipNonDecoded.desired
<1>0. /\ Typed /\ ParseRanges /\ MessageRanges /\ ReorderRanges /\ IndexedInHand
      /\ Quiet /\ Chain /\ Numbered /\ Reordered /\ TurnToCome /\ NextInHand /\ NoLeap
      /\ N \in Nat /\ DesiredFrameIndex \in Nat /\ DesiredFrameIndex \in 0 .. MaxFrames
  <2>1. Typed /\ ParseRanges /\ MessageRanges /\ ReorderRanges /\ IndexedInHand
    BY DEF TypeInv, Ranges
  <2>2. N \in Nat  BY <2>1, Bounds DEF ParseRanges
  <2> QED BY <2>1, <2>2, Bounds DEF ReorderRanges, Order
<1>1. \A f \in Frames : DisplayFrameIndex[f] \in Nat
  <2>1. 0 .. MaxFrames - 1 \cup {INVALID_INDEX} \subseteq Nat  BY Bounds
  <2> QED BY <2>1, <1>0 DEF ParseRanges
<1>2. UNCHANGED <<DisplayFrameIndex, CollapseHolesInDisplayIndices, parser, NextBufferSequenceNumber>>
  BY DEF DtoMSelect, DtoMExtract, DtoMTimeout, DtoMManifest, DtoMDiscard, parse
<1>3. \A m : HasIndex(m.id)' <=> HasIndex(m.id)  BY <1>2 DEF HasIndex
<1>4. \A m \in Waiting : m.id \in Frames /\ DisplayFrameIndex[m.id] \in Nat
  BY <1>0, <1>1, FramesOnTheWay
<1>5. /\ d \in DesiredFrameIndex .. MaxFrames /\ d <= N
      /\ \A m \in Waiting : HasIndex(m.id) => d <= DisplayFrameIndex[m.id]
      /\ SkipNonDecoded.table.DisplayIndicesCollapse = 0
      /\ SkipNonDecoded.table.released \cup SkipNonDecoded.table.held
           \subseteq NonDecoded.released \cup NonDecoded.held
  BY <1>0, SkipInOrder
<1> HIDE DEF d
<1>6. d \in Nat /\ d \in 0 .. MaxFrames  BY <1>0, <1>5, Bounds
\* The desired index and what waits once the frame m is in hand.
<1>7. ASSUME NEW m \in Waiting, HasIndex(m.id), DtoMBuffer' = m,
             Waiting' \subseteq Waiting \ {m},
             DesiredFrameIndex' <= DisplayFrameIndex[m.id], DesiredFrameIndex' \in Nat,
             \A x \in Waiting \ {m} :
               HasIndex(x.id) => DisplayFrameIndex[m.id] < DisplayFrameIndex[x.id],
             NonDecoded' = NonDecoded \/ NonDecoded' = SkipNonDecoded.table
      PROVE  TurnToCome' /\ NextInHand' /\ NoLeap'
  <2>1. /\ NonDecoded'.released \cup NonDecoded'.held \subseteq NonDecoded.released \cup NonDecoded.held
        /\ NonDecoded'.DisplayIndicesCollapse = 0
    BY <1>0, <1>5, <1>7 DEF NoLeap
  <2>2. DisplayFrameIndex[m.id] < N /\ DisplayFrameIndex[m.id] \in Nat  BY <1>0, <1>4, <1>7 DEF Numbered
  <2>3. TurnToCome'
    <3>1. DesiredFrameIndex' <= N  BY <2>2, <1>0, <1>7
    <3>2. ASSUME NEW x \in Waiting', HasIndex(x.id) PROVE DesiredFrameIndex' <= DisplayFrameIndex[x.id]
      <4>1. DisplayFrameIndex[m.id] < DisplayFrameIndex[x.id] /\ DisplayFrameIndex[x.id] \in Nat
        BY <3>2, <1>4, <1>7
      <4> QED BY <4>1, <2>2, <1>7
    <3> QED BY <3>1, <3>2, <2>1, <1>0, <1>2, <1>3, <1>7 DEF TurnToCome
  <2>4. NextInHand'  BY <1>2, <1>3, <1>7 DEF NextInHand
  <2>5. NoLeap'  BY <2>1, <1>0, <1>2 DEF NoLeap
  <2> QED BY <2>3, <2>4, <2>5
\* Nothing is taken in hand.
<1>8. ASSUME DtoMBuffer' = Nothing, Waiting' \subseteq Waiting, DesiredFrameIndex' <= N,
             \A x \in Waiting : HasIndex(x.id) => DesiredFrameIndex' <= DisplayFrameIndex[x.id],
             NonDecoded' = NonDecoded \/ NonDecoded' = SkipNonDecoded.table
      PROVE  TurnToCome' /\ NextInHand' /\ NoLeap'
  <2>1. /\ NonDecoded'.released \cup NonDecoded'.held \subseteq NonDecoded.released \cup NonDecoded.held
        /\ NonDecoded'.DisplayIndicesCollapse = 0
    BY <1>0, <1>5, <1>8 DEF NoLeap
  <2>2. TurnToCome'  BY <2>1, <1>0, <1>2, <1>3, <1>8 DEF TurnToCome
  <2>3. NextInHand'  BY <1>8 DEF NextInHand
  <2>4. NoLeap'  BY <2>1, <1>0, <1>2 DEF NoLeap
  <2> QED BY <2>2, <2>3, <2>4
<1>9. Waiting' \subseteq Waiting  BY <1>0, NothingAdded DEF Quiet
<1>10. CASE DtoMSelect
  <2>1. Selectable /\ TakeFrame(Lowest, DesiredFrameIndex) /\ NonDecoded' = NonDecoded
    BY <1>10 DEF DtoMSelect
  <2>2. /\ Lowest \in AccumulatedBufferTable /\ HasIndex(Lowest.id)
        /\ \A m \in Waiting \ {Lowest} :
             HasIndex(m.id) => DisplayFrameIndex[Lowest.id] < DisplayFrameIndex[m.id]
    BY <1>0, <2>1, LowestIsNext
  <2>3. Lowest \in Waiting /\ Lowest \in FrameItems  BY <2>2, <1>0 DEF Waiting, Typed
  <2>4. Waiting' \subseteq Waiting \ {Lowest}  BY <1>0, <1>10, SelectedGone
  <2>5. /\ DtoMBuffer' = Lowest /\ DesiredFrameIndex' \in DesiredFrameIndex .. MaxFrames
        /\ DesiredFrameIndex' = DesiredFrameIndex \/ DesiredFrameIndex' = DisplayFrameIndex[Lowest.id]
    BY <2>1, <2>2, <2>3, <1>0, TakeIs DEF HasIndex
  <2>6. DesiredFrameIndex <= DisplayFrameIndex[Lowest.id]  BY <2>2, <2>3, <1>0 DEF TurnToCome
  <2>7. DesiredFrameIndex' <= DisplayFrameIndex[Lowest.id] /\ DesiredFrameIndex' \in Nat
    BY <2>3, <2>5, <2>6, <1>0, <1>4
  <2> QED BY <2>1, <2>2, <2>3, <2>4, <2>5, <2>7, <1>7
<1>11. CASE DtoMExtract
  <2> DEFINE m == Head(DecodedFrameRing)
  <2>1. /\ DecodedFrameRing # <<>> /\ DtoMBuffer = Nothing /\ NonDecoded' = SkipNonDecoded.table
        /\ \/ IsControl(m) \/ IsMarker(m)
           \/ /\ DisplayFrameIndex[m.id] <= d /\ TakeFrame(m, d) /\ UNCHANGED AccumulatedBufferTable
           \/ /\ DesiredFrameIndex' = d /\ UNCHANGED DtoMBuffer
    BY <1>11 DEF DtoMExtract, d
  <2>2. m \in InD  BY <2>1, <1>0, TailIs DEF InD, Typed
  <2>3. m \in Waiting /\ m \in Everywhere  BY <2>2 DEF Waiting, Everywhere
  <2>4. m \in FrameItems /\ ~IsControl(m) /\ ~IsMarker(m)
    BY <2>3, <1>0, FramesOnTheWay, FrameIs
  <2>5. CASE DisplayFrameIndex[m.id] <= d /\ TakeFrame(m, d) /\ UNCHANGED AccumulatedBufferTable
    <3>1. Waiting' \subseteq Waiting \ {m}  BY <2>5, <1>0, <1>11, ExtractedGone
    <3> HIDE DEF m
    <3>2. HasIndex(m.id)
      BY <2>3, <2>5, <1>4, <1>6, Bounds DEF HasIndex
    <3>3. DisplayFrameIndex[m.id] = d  BY <2>3, <2>5, <3>2, <1>4, <1>5, <1>6
    <3>4. DtoMBuffer' = m /\ (DesiredFrameIndex' = d \/ DesiredFrameIndex' = DisplayFrameIndex[m.id])
      BY <2>4, <2>5, <3>2, <1>0, <1>6, TakeIs DEF HasIndex
    <3>5. DesiredFrameIndex' <= DisplayFrameIndex[m.id] /\ DesiredFrameIndex' \in Nat
      BY <3>3, <3>4, <1>6
    <3>6. ASSUME NEW x \in Waiting \ {m}, HasIndex(x.id)
          PROVE  DisplayFrameIndex[m.id] < DisplayFrameIndex[x.id]
      <4>1. x.id # m.id  BY <2>3, <1>0, FramesOnTheWay
      <4>2. DisplayFrameIndex[x.id] # DisplayFrameIndex[m.id]
        BY <4>1, <3>2, <3>6, <2>3, <1>0, <1>4 DEF Numbered
      <4>3. d <= DisplayFrameIndex[x.id]  BY <3>6, <1>5
      <4> QED BY <4>2, <4>3, <3>3, <1>4, <1>6
    <3> QED BY <2>1, <2>3, <3>1, <3>2, <3>4, <3>5, <3>6, <1>7
  <2>6. CASE DesiredFrameIndex' = d /\ UNCHANGED DtoMBuffer
    BY <2>1, <2>6, <1>5, <1>8, <1>9
  <2> QED BY <2>1, <2>4, <2>5, <2>6
<1>12. CASE DtoMTimeout
  <2>1. DtoMBuffer' = Nothing /\ DesiredFrameIndex' = d /\ NonDecoded' = SkipNonDecoded.table
    BY <1>12 DEF DtoMTimeout, d
  <2> QED BY <2>1, <1>5, <1>8, <1>9
<1>13. CASE DtoMManifest \/ DtoMDiscard
  <2>1. /\ DtoMBuffer # Nothing /\ DtoMBuffer' = Nothing /\ NonDecoded' = NonDecoded
        /\ DesiredFrameIndex' = DisplayFrameIndex[DtoMBuffer.id] + 1
    BY <1>13 DEF DtoMManifest, DtoMDiscard, NextDesired
  <2>2. DtoMBuffer.id \in Frames /\ HasIndex(DtoMBuffer.id)
    BY <2>1, <1>0, HeadsAre, FrameIs DEF IndexedInHand, HasIndex
  <2>3. DisplayFrameIndex[DtoMBuffer.id] < N /\ DisplayFrameIndex[DtoMBuffer.id] \in Nat
    BY <2>2, <1>0, <1>1 DEF Numbered
  <2>4. DesiredFrameIndex' <= N  BY <2>1, <2>3, <1>0
  <2>5. ASSUME NEW x \in Waiting, HasIndex(x.id) PROVE DesiredFrameIndex' <= DisplayFrameIndex[x.id]
    <3>1. DisplayFrameIndex[DtoMBuffer.id] < DisplayFrameIndex[x.id]
      BY <2>1, <2>5, <1>0 DEF NextInHand
    <3> QED BY <3>1, <2>1, <2>3, <2>5, <1>4
  <2> QED BY <2>1, <2>4, <2>5, <1>8, <1>9
<1> QED BY <1>10, <1>11, <1>12, <1>13

-----------------------------------------------------------------------------
\* The numbering is untouched by a frame that is only collated, and by whoever
\* is not the parser.
LEMMA NumberingKept ==
  ASSUME TypeInv, Quiet, Numbered, Reordered,
         UNCHANGED <<DisplayFrameIndex, parser, NextBufferSequenceNumber>>,
         \/ UNCHANGED reference
         \/ \E isReference \in BOOLEAN : Collate(isReference)
  PROVE  Numbered' /\ Reordered'
<1> DEFINE P == NextBufferSequenceNumber
<1>1. /\ P \in Nat /\ collated \in Nat /\ Frames = 1 .. MaxFrames /\ MaxFrames \in Nat
      /\ collated <= MaxFrames /\ P <= collated /\ parser.deferred \in Frames \cup {None}
      /\ reference \in [Frames -> BOOLEAN]
  <2>1. Typed /\ InputRanges /\ MessageRanges /\ ParseRanges  BY DEF TypeInv, Ranges
  <2>2. Len(CollatedFrameRing) \in Nat  BY <2>1, MembersOf DEF Typed
  <2>3. P \in Nat /\ collated \in 0 .. MaxFrames /\ collated = P + Len(CollatedFrameRing)
    BY <2>1 DEF InputRanges, MessageRanges, Quiet
  <2>4. P <= collated  BY <2>2, <2>3
  <2> QED BY <2>1, <2>3, <2>4, Bounds DEF InputRanges, ParseRanges
<1>2. \A f \in Frames : HasIndex(f)' <=> HasIndex(f)  BY DEF HasIndex
<1>3. Numbered'  BY <1>2 DEF Numbered
<1>4. \A f \in Frames : f <= P => reference'[f] = reference[f]
  <2>1. ASSUME NEW isReference \in BOOLEAN, Collate(isReference), NEW f \in Frames, f <= P
        PROVE  reference'[f] = reference[f]
    <3>1. reference' = [reference EXCEPT ![collated + 1] = isReference]  BY <2>1 DEF Collate
    <3>2. f # collated + 1  BY <2>1, <1>1
    <3> QED BY <3>1, <3>2, <1>1
  <2> QED BY <2>1
<1>5. ASSUME NEW f \in Frames, NEW g \in Nat, f <= g, g <= P, Leads(f, g)
      PROVE  Leads(f, g)'
  <2>1. f <= P /\ \A h \in f + 1 .. g : h \in Frames /\ h <= P  BY <1>1, <1>5
  <2>2. reference'[f]  BY <2>1, <1>4, <1>5 DEF Leads
  <2>3. \A h \in f + 1 .. g : ~reference'[h]  BY <2>1, <1>4, <1>5 DEF Leads
  <2> QED BY <2>2, <2>3 DEF Leads
<1>6. ASSUME parser.deferred # None PROVE Leads(parser.deferred, P)'
  <2>1. Leads(parser.deferred, P) /\ parser.deferred \in Frames /\ parser.deferred <= P
    BY <1>1, <1>6 DEF Reordered, Numbered
  <2> QED BY <2>1, <1>1, <1>5
<1>7. ASSUME NEW f \in Frames, NEW g \in Frames, f < g, HasIndex(f), HasIndex(g),
             DisplayFrameIndex[g] < DisplayFrameIndex[f]
      PROVE  Leads(f, g)'
  <2>1. Leads(f, g) /\ g <= P  BY <1>7 DEF Reordered, Numbered
  <2>2. f <= g /\ g \in Nat  BY <1>1, <1>7
  <2> QED BY <2>1, <2>2, <1>5
<1>8. \A f, g : Leads(f, g)' <=> reference'[f] /\ \A h \in f + 1 .. g : ~reference'[h]  BY DEF Leads
<1>9. Reordered'  BY <1>2, <1>6, <1>7, <1>8 DEF Reordered, Leads
<1> QED BY <1>3, <1>9

\* The order of the display holds of the initial states.
LEMMA OrderInit == Init => OrderInv
<1> SUFFICES ASSUME Init PROVE Order  BY DEF OrderInv
<1>1. Chain /\ Coming  BY ChainInit
<1>2. Everywhere = {} /\ ToSet(CollatedFrameRing) = {} /\ Waiting = {}
  BY DEF Init, Everywhere, Waiting, InX, InP, InH, InK, InD, InF, InHand, ToSet
<1>3. Quiet
  <2>1. DOMAIN CollatedFrameRing = {} /\ Len(CollatedFrameRing) = 0  BY DEF Init
  <2> QED BY <1>2, <2>1 DEF Quiet, Init
<1>4. \A f \in Frames : ~HasIndex(f) /\ ~(f <= 0)  BY Bounds DEF Init, HasIndex
<1>5. Numbered  BY <1>4 DEF Numbered, Init, ParserReset, None
<1>6. Reordered  BY <1>4 DEF Reordered, Init, ParserReset
<1>7. NoLeap /\ TurnToCome /\ NextInHand
  BY <1>2 DEF NoLeap, TurnToCome, NextInHand, Init, ParserReset
<1> QED BY <1>1, <1>3, <1>5, <1>6, <1>7 DEF Order

\* Every step keeps the order of the display.
LEMMA OrderStep ==
  ASSUME MaxDecodesOutOfOrder >= 2
  PROVE  TypeInv /\ TypeInv' /\ OrderInv /\ [Next]_vars => OrderInv'
<1> SUFFICES ASSUME TypeInv, TypeInv', OrderInv, [Next]_vars, drain'.n = 0 PROVE Order'
  BY DEF OrderInv
<1>1. drain.n = 0 /\ Order
  <2>1. drain'.n = drain.n \/ drain'.n = drain.n + 1
    <3>1. DrainRanges  BY DEF TypeInv, Ranges
    <3>2. \/ UNCHANGED drain \/ \E pc : Go(pc) \/ DrainGiveUp \/ \E policy \in Policies : DrainBegin(policy)
      BY DEF Next, vars, CtoP, PtoD, DtoMLoop, DtoMInHand, Drain, Collate, CtoPMarker, CtoPFrame,
         CtoPControl, CtoPSwitch, PtoDExtract, PtoDPass, PtoDDiscard, PtoDControl, PtoDSwitch,
         CodecOutput, DtoMSelect, DtoMMarker, DtoMExtract, DtoMTimeout, DtoMManifest, DtoMDiscard,
         Manifest, PostMExtract, DrainJump, DrainCodec, DrainRelease, DrainCheck, DrainNumber,
         DrainInsert, DrainCallBefore, DrainCallAfter, SwitchCollator, SwitchCalls, DrainReturn, drn
    <3>3. ASSUME NEW pc, Go(pc) PROVE drain'.n = drain.n  BY <3>1, <3>3 DEF Go, DrainRanges
    <3>4. ASSUME DrainGiveUp PROVE drain'.n = drain.n  BY <3>1, <3>4 DEF DrainGiveUp, DrainRanges
    <3>5. ASSUME NEW policy \in Policies, DrainBegin(policy) PROVE drain'.n = drain.n + 1
      <4>1. drain' = [pc |-> IF Plays(policy) THEN "check" ELSE "jump", n |-> drain.n + 1,
                      discard |-> ~Plays(policy), switch |-> IsSwitch(policy),
                      failed |-> drain.failed, alone |-> drain.n = 0 \/ (drain.alone /\ Drained)]
        BY <3>5 DEF DrainBegin
      <4> QED BY <4>1
    <3> QED BY <3>2, <3>3, <3>4, <3>5
  <2>2. drain.n \in Nat
    <3>1. DrainRanges  BY DEF TypeInv, Ranges
    <3>2. drain.n \in 0 .. MaxDrains  BY <3>1 DEF DrainRanges
    <3> QED BY <3>2
  <2> QED BY <2>1, <2>2 DEF OrderInv
<1>2. /\ Quiet /\ Chain /\ Coming /\ Numbered /\ Reordered /\ NoLeap /\ TurnToCome /\ NextInHand
  BY <1>1 DEF Order
<1>3. MarkerInTime  BY <1>2 DEF MarkerInTime, Quiet
<1>4. Chain' /\ Coming'  BY <1>2, <1>3, ChainStep, ComingStep
<1>5. CASE UNCHANGED vars
  <2>1. Quiet' /\ Numbered' /\ Reordered' /\ NoLeap' /\ TurnToCome' /\ NextInHand'
    BY <1>2, <1>5 DEF vars, rings, input, parse, dtom, msgs, drn, Quiet, Numbered, Reordered, NoLeap,
       TurnToCome, NextInHand, HasIndex, Leads, Waiting, Everywhere, InX, InP, InH, InK, InD, InF,
       InHand, ToSet
  <2> QED BY <1>4, <2>1 DEF Order
<1>6. CASE Next
  <2>1. Quiet'  BY <1>1, <1>2, <1>6, QuietStep
  <2>2. CASE CtoPFrame
    <3>1. /\ Numbered' /\ Reordered' /\ NextGiven
          /\ parser'.collapse => parser'.NextDisplayFrameIndex = 0
          /\ \A f \in Frames : CollapseHolesInDisplayIndices'[f] => DisplayFrameIndex'[f] = 0
          /\ parser.NextDisplayFrameIndex <= parser'.NextDisplayFrameIndex
      BY <1>2, <2>2, ParsedInOrder
    <3>2. TurnToCome' /\ NextInHand' /\ UNCHANGED NonDecoded
      BY <1>1, <2>2, <3>1, TurnParsed
    <3>3. NoLeap'  BY <1>2, <3>1, <3>2 DEF NoLeap
    <3> QED BY <1>4, <2>1, <3>1, <3>2, <3>3 DEF Order
  <2>3. CASE PtoDDiscard \/ DtoMSelect \/ DtoMExtract \/ DtoMTimeout \/ DtoMManifest \/ DtoMDiscard
    <3>1. UNCHANGED <<DisplayFrameIndex, parser, NextBufferSequenceNumber, reference>>
      BY <2>3 DEF PtoDDiscard, DtoMSelect, DtoMExtract, DtoMTimeout, DtoMManifest, DtoMDiscard,
         parse, input
    <3>2. Numbered' /\ Reordered'  BY <1>2, <3>1, NumberingKept
    <3>3. TurnToCome' /\ NextInHand' /\ NoLeap'
      BY <1>1, <2>3, TurnDropped, TurnTaken
    <3> QED BY <1>4, <2>1, <3>2, <3>3 DEF Order
  <2>4. CASE \/ \E isReference \in BOOLEAN : Collate(isReference)
             \/ PtoDExtract \/ PtoDPass \/ PtoDSwitch \/ CodecOutput \/ Manifest \/ PostMExtract
    <3>1. UNCHANGED <<DisplayFrameIndex, CollapseHolesInDisplayIndices, parser,
                      NextBufferSequenceNumber, DesiredFrameIndex, NonDecoded, DtoMBuffer>>
      BY <2>4 DEF Collate, PtoDExtract, PtoDPass, PtoDSwitch, CodecOutput, Manifest, PostMExtract,
         parse, dtom
    <3>2. \/ UNCHANGED reference
          \/ \E isReference \in BOOLEAN : Collate(isReference)
      BY <2>4 DEF PtoDExtract, PtoDPass, PtoDSwitch, CodecOutput, Manifest, PostMExtract, input
    <3>3. Waiting' \subseteq Waiting
      <4>1. ASSUME NEW isReference \in BOOLEAN, Collate(isReference) PROVE Waiting' = Waiting
        BY <4>1 DEF Collate, Waiting, InP, InH, InHand, InK, InD, ToSet, dtom
      <4>2. CASE PtoDExtract \/ PtoDPass \/ PtoDSwitch \/ CodecOutput \/ Manifest \/ PostMExtract
        <5>1. Typed  BY DEF TypeInv
        <5>2. \A m \in Everywhere : IsFrame(m)  BY <1>2 DEF Quiet
        <5> QED BY <4>2, <5>1, <5>2, NothingAdded
      <4> QED BY <4>1, <4>2, <2>4
    <3>4. Numbered' /\ Reordered'  BY <1>2, <3>1, <3>2, NumberingKept
    <3>5. TurnToCome' /\ NextInHand' /\ NoLeap'  BY <1>2, <3>1, <3>3, TurnKept
    <3> QED BY <1>4, <2>1, <3>4, <3>5 DEF Order
  <2> QED BY <1>1, <1>2, <1>6, <2>2, <2>3, <2>4, QuietNext
<1> QED BY <1>5, <1>6

\* Before any drain, frames are played in the order of display, whichever are
\* dropped on the way: for every number of frames, every choice of reference
\* frames and every size of the table of frames that are not decoded, as long as
\* at least two frames are held back for one that is not there.
THEOREM PlayedInDisplayOrder == MaxDecodesOutOfOrder >= 2 => (Spec => []InDisplayOrder)
<1> SUFFICES ASSUME MaxDecodesOutOfOrder >= 2 PROVE Spec => []InDisplayOrder  OBVIOUS
<1>1. Init => OrderInv  BY OrderInit
<1>2. TypeInv /\ TypeInv' /\ OrderInv /\ [Next]_vars => OrderInv'  BY OrderStep
<1>3. OrderInv => InDisplayOrder
  BY DEF OrderInv, Order, NextInHand, InDisplayOrder, NoReorderFailure
<1>4. Spec => []TypeInv  BY TypeInvariance
<1> QED BY <1>1, <1>2, <1>3, <1>4, PTL DEF Spec
=============================================================================
