----------------------------- MODULE CodecProofs -----------------------------
(***************************************************************************)
(* The inductive invariant of CodecMme, for drains between two pictures:   *)
(* its definition, the outcomes of the steps in a state of it, the parts   *)
(* that hold by where the threads are, which are the types, what drains    *)
(* and switches keep apart, the counts of commands and the marker; then    *)
(* the decodes and references of the buffers, the current buffer and the   *)
(* picture that is decoded into it, the reference counts; and the theorems *)
(* about what the run checks.                                              *)
(***************************************************************************)
EXTENDS CodecMme, TLAPS, FiniteSetTheorems, SequenceTheorems

\* The threads that fill out or release decode contexts.
Workers == {ParseToDecode, MME}

\* That DecodesInProgress is not negative takes the whole invariant.
BufferStates ==
  [mapped : BOOLEAN, OutputOnDecodesComplete : BOOLEAN, DecodesInProgress : Int,
   ReferenceFrameCount : Nat, PictureStructure : SUBSET Frame]

\* Where a thread may be, where it may go when a drop or a partial buffer is done with,
\* and the steps of OutputPartialDecodeBuffers.
Places == {"idle", "get", "map", "bind", "launch", "send", "sent", "release", "drop",
           "discarded", "unreference", "partial", "seal", "sealed", "marker", "hold", "test",
           "take", "insert", "all", "completed"}
Returns == {"idle", "get", "all", "discarded", "unreference"}
Partial == {"partial", "seal", "sealed"}

\* A context with a list of references that a picture may have.
Short == {c \in DecodeContext : Len(c.References) <= MaxReferences}

BufferTypes ==
  /\ BufferState \in [Buffers -> BufferStates]
  /\ OwnerCount \in [Buffers -> Int] /\ MarkerFrames \subseteq Buffers
  /\ CurrentDecodeBufferIndex \in Buffers \cup {NULL}
  /\ OutputRing \in Seq(Buffers)
CommandTypes ==
  /\ commands \in Seq(Short)
  /\ context \in [Workers -> Short \cup {NULL}]
NumberTypes ==
  /\ MMECommandPreparedCount \in Nat /\ MMECommandCompletedCount \in Nat
  /\ DiscardDecodesUntil \in Nat /\ PassOnMarkerBufferAt \in Nat /\ sentBefore \in Nat
ThreadTypes ==
  /\ MarkerBuffer \in Buffers \cup {NULL}
  /\ frame \in [first : BOOLEAN, structure : SUBSET Frame]
  /\ pc \in [Threads -> Places] /\ ret \in [Threads -> Returns]
  /\ arg \in [Threads -> Buffers \cup {NULL}] /\ found \in [Threads -> BOOLEAN]
  /\ drain \in {"none", "asked", "given"} /\ switching \in BOOLEAN

TypeInv == BufferTypes /\ CommandTypes /\ NumberTypes /\ ThreadTypes

(***************************************************************************)
(* Where the threads are.                                                  *)
(***************************************************************************)
\* A worker fills out or releases a context at these places.
HasContext(t) ==
  \/ pc[t] \in {"get", "map", "bind", "launch", "send", "release", "discarded", "unreference"}
  \/ pc[t] = "drop" /\ ret[t] \in {"discarded", "unreference"}
  \/ pc[t] \in Partial /\ ret[t] = "get"

PlacesInv ==
  /\ pc[ParseToDecode] \in {"idle", "get", "map", "bind", "launch", "send", "sent", "release",
        "drop", "unreference", "partial", "seal", "sealed", "marker", "hold", "test", "take",
        "insert", "all"}
  /\ pc[MME] \in {"idle", "release", "drop", "discarded", "unreference", "completed", "test",
                  "take", "insert"}
  /\ pc[PostManifest] \in {"idle", "drop"}
  /\ pc[Drain] \in {"idle", "partial", "seal", "sealed"}

ReturnsInv ==
  /\ pc[ParseToDecode] = "drop" => ret[ParseToDecode] \in {"idle", "all", "unreference"}
  /\ pc[ParseToDecode] \in Partial => ret[ParseToDecode] \in {"idle", "all", "get"}
  /\ pc[ParseToDecode] \notin Partial \cup {"drop"} => ret[ParseToDecode] = "idle"
  /\ pc[MME] = "drop" => ret[MME] \in {"discarded", "unreference"}
  /\ pc[MME] # "drop" => ret[MME] = "idle"
  /\ ret[PostManifest] = "idle" /\ ret[Drain] = "idle"

LocalsInv == PlacesInv /\ ReturnsInv /\ \A t \in Workers : HasContext(t) <=> context[t] # NULL

(***************************************************************************)
(* What a drain and a switch keep apart.                                   *)
(***************************************************************************)
\* The stream's process is with a picture, or drops the reference of one.
WithPicture ==
  \/ pc[ParseToDecode] \in {"get", "map", "bind", "launch", "send", "sent", "release",
                            "unreference"}
  \/ pc[ParseToDecode] \in {"partial", "seal", "sealed", "drop"} /\ ret[ParseToDecode] # "all"

\* The stream's process is in SwitchCodec.
InSwitch ==
  \/ pc[ParseToDecode] = "all"
  \/ pc[ParseToDecode] \in {"partial", "seal", "sealed", "drop"} /\ ret[ParseToDecode] = "all"

\* The callback has a command that it has not counted as completed.
CallbackBusy == pc[MME] \in {"release", "drop", "discarded", "unreference", "completed"}
Busy == IF CallbackBusy THEN 1 ELSE 0
Settled == commands = <<>> /\ ~CallbackBusy
Discarding == pc[MME] = "discarded" \/ (pc[MME] = "drop" /\ ret[MME] = "discarded")

ModesInv ==
  /\ WithPicture => drain = "none" /\ ~switching
  /\ ~WithPicture \/ (pc[ParseToDecode] = "drop" /\ ret[ParseToDecode] = "idle") =>
       frame = NoPicture
  /\ pc[ParseToDecode] \in {"marker", "hold"} => drain = "given"
  /\ InSwitch => switching /\ drain # "asked" /\ Settled
  /\ switching /\ drain = "none" => Settled
  /\ drain = "asked" => pc[ParseToDecode] = "idle" /\ pc[MME] # "take"
  /\ pc[ParseToDecode] \in {"marker", "hold"} => pc[MME] # "take"
  /\ pc[Drain] # "idle" => drain = "asked"
  /\ Discarding => drain # "none"

(***************************************************************************)
(* The commands and the numbers they were prepared with.                   *)
(***************************************************************************)
CountsInv ==
  /\ drain = "none" => DiscardDecodesUntil <= MMECommandCompletedCount
  /\ DiscardDecodesUntil <= MMECommandPreparedCount
  /\ PassOnMarkerBufferAt <= MMECommandPreparedCount
  /\ sentBefore <= MMECommandPreparedCount
  /\ MMECommandCompletedCount + Len(commands) + Busy <= MMECommandPreparedCount

(***************************************************************************)
(* The marker of the drain under way.                                      *)
(***************************************************************************)
MarkerInRing == \E k \in DOMAIN OutputRing : OutputRing[k] \in MarkerFrames
OneMarkerInRing ==
  \A k, l \in DOMAIN OutputRing :
    OutputRing[k] \in MarkerFrames /\ OutputRing[l] \in MarkerFrames => k = l
AllCompleted == MMECommandCompletedCount >= MMECommandPreparedCount

\* A marker is nothing but a marker.
MarkersAlone ==
  \A b \in MarkerFrames :
    /\ OwnerCount[b] = 1 /\ ~BufferState[b].mapped /\ CurrentDecodeBufferIndex # b
    /\ \A t \in Threads : pc[t] = "drop" => arg[t] # b

\* There is one at most, while a drain is under way, and it is in one place.
MarkersInv ==
  /\ \A a, b \in MarkerFrames : a = b
  /\ MarkerFrames # {} => drain = "given"
  /\ pc[ParseToDecode] = "marker" => MarkerFrames = {} /\ sentBefore = MMECommandPreparedCount
  /\ pc[ParseToDecode] = "hold" =>
       /\ arg[ParseToDecode] \in MarkerFrames /\ ~MarkerInRing
       /\ sentBefore = MMECommandPreparedCount /\ PassOnMarkerBufferAt = MMECommandPreparedCount
  /\ pc[ParseToDecode] \in {"marker", "hold"} => MarkerBuffer = NULL /\ pc[MME] # "insert"
  /\ MarkerBuffer # NULL =>
       /\ MarkerBuffer \in MarkerFrames /\ ~MarkerInRing
       /\ sentBefore = MMECommandPreparedCount /\ PassOnMarkerBufferAt = MMECommandPreparedCount
       /\ pc[ParseToDecode] # "insert" /\ pc[MME] # "insert"
       /\ \/ MMECommandCompletedCount < PassOnMarkerBufferAt
          \/ pc[ParseToDecode] \in {"test", "take"} \/ pc[MME] \in {"test", "take"}
  /\ \A t \in Workers :
       /\ pc[t] = "take" /\ MarkerBuffer # NULL => AllCompleted
       /\ pc[t] = "insert" => arg[t] \in MarkerFrames /\ ~MarkerInRing /\ AllCompleted
  /\ ~(pc[ParseToDecode] = "insert" /\ pc[MME] = "insert")
  /\ MarkerInRing => AllCompleted
  /\ OneMarkerInRing

(***************************************************************************)
(* The decodes under way into a buffer.                                    *)
(***************************************************************************)
Decoding(t) == context[t] # NULL /\ context[t].DecodeInProgress
DecodesOf(t, b) == IF Decoding(t) /\ context[t].BufferIndex = b THEN 1 ELSE 0
CommandsFor(b) == {k \in DOMAIN commands : commands[k].BufferIndex = b}

DecodesInv ==
  /\ \A b \in Buffers : BufferState[b].DecodesInProgress =
       Cardinality(CommandsFor(b)) + DecodesOf(ParseToDecode, b) + DecodesOf(MME, b)
  /\ \A k \in DOMAIN commands :
       commands[k].BufferIndex # NULL => commands[k].DecodeInProgress
  /\ \A t \in Workers : Decoding(t) =>
       context[t].BufferIndex # NULL /\ pc[t] \in {"send", "release"}
  /\ pc[MME] = "release" => context[MME].DecodeInProgress

(***************************************************************************)
(* What is referred to is mapped.                                          *)
(***************************************************************************)
BuffersInv ==
  /\ \A b \in Buffers : ~BufferState[b].mapped => BufferState[b] = Unused
  /\ \A b \in Buffers : BufferState[b].mapped => OwnerCount[b] > 0
  /\ \A t \in Workers : context[t] # NULL =>
       \A k \in DOMAIN context[t].References : BufferState[context[t].References[k]].mapped
  /\ \A c \in DOMAIN commands : \A k \in DOMAIN commands[c].References :
       BufferState[commands[c].References[k]].mapped
  /\ \A t \in Threads : pc[t] = "drop" =>
       /\ arg[t] \in Buffers
       /\ found[t] \/ (t = PostManifest /\ ~BufferState[arg[t]].mapped)
  /\ \A k \in DOMAIN OutputRing :
       BufferState[OutputRing[k]].mapped =>
         /\ BufferState[OutputRing[k]].OutputOnDecodesComplete
         /\ BufferState[OutputRing[k]].DecodesInProgress = 0

(***************************************************************************)
(* The buffer that pictures are decoded into.                              *)
(***************************************************************************)
Current == CurrentDecodeBufferIndex
Open(b) == BufferState[b].mapped /\ ~BufferState[b].OutputOnDecodesComplete

\* Only the current buffer is open, and it is, but for the moments at which it is not
\* mapped yet, is complete or is sealed.
OpenInv ==
  /\ \A b \in Buffers : Open(b) => Current = b
  /\ Current # NULL =>
       \/ Open(Current)
       \/ pc[ParseToDecode] \in {"map", "send", "sent", "sealed"}
       \/ pc[ParseToDecode] = "release" /\ Decoding(ParseToDecode)
       \/ pc[Drain] = "sealed"
  /\ \A t \in {ParseToDecode, Drain} :
       pc[t] = "sealed" /\ Current # NULL => ~Open(Current)
  /\ pc[ParseToDecode] = "map" =>
       Current # NULL /\ ~BufferState[Current].mapped /\ OwnerCount[Current] = 1
  /\ (pc[ParseToDecode] = "sent" \/ Decoding(ParseToDecode)) /\ Current # NULL =>
       /\ InCodec(Current)
       /\ BufferState[Current].OutputOnDecodesComplete <=> frame.structure = Frame

\* What each place at which a thread is with the buffer knows of it.
CurrentInv ==
  /\ pc[ParseToDecode] \in {"bind", "launch"} => Current # NULL
  /\ pc[ParseToDecode] = "get" => Current = NULL
  /\ InSwitch /\ pc[ParseToDecode] \in {"all", "drop"} => Current = NULL
  /\ Decoding(ParseToDecode) => Current \in {NULL, context[ParseToDecode].BufferIndex}
  /\ pc[ParseToDecode] = "launch" => context[ParseToDecode].BufferIndex = Current
  /\ \A t \in {ParseToDecode, Drain} : pc[t] = "seal" => Current # NULL /\ arg[t] = Current
  /\ Discarding => Current # context[MME].BufferIndex \/ Current = NULL \/ pc[Drain] = "sealed"

\* The context of a picture is new until the picture is bound, and says whether its
\* decode is under way.
PictureInv ==
  /\ pc[ParseToDecode] \in {"get", "map", "bind", "partial", "seal", "sealed"}
       /\ context[ParseToDecode] # NULL => context[ParseToDecode] = NewContext
  /\ pc[ParseToDecode] = "launch" => ~context[ParseToDecode].DecodeInProgress
  /\ pc[ParseToDecode] = "send" => context[ParseToDecode].DecodeInProgress

\* The command that sets the parameters of the stream refers to nothing.
ParametersInv ==
  \A k \in DOMAIN commands : commands[k].BufferIndex = NULL => commands[k].References = <<>>

\* The inductive invariant.  No part is inductive by itself: that a marker is not decoded
\* into needs the counts of references, these need what is mapped, and that the decodes.
IInv == /\ TypeInv /\ LocalsInv /\ ModesInv /\ CountsInv /\ MarkersAlone /\ MarkersInv
        /\ DecodesInv /\ BuffersInv /\ OpenInv /\ CurrentInv /\ PictureInv /\ ParametersInv
        /\ ReferencesCounted

(***************************************************************************)
(* What the steps with several outcomes do, when the invariant holds.      *)
(***************************************************************************)
\* A reference to a buffer is dropped, and the last one unmaps it.
Drops(t, b) ==
  /\ pc[t] = "drop" /\ b = arg[t] /\ b \in Buffers \ MarkerFrames
  /\ BufferState' = [BufferState EXCEPT ![b] = IF OwnerCount[b] = 1 THEN Unused ELSE @]
  /\ OwnerCount' = [OwnerCount EXCEPT ![b] = @ - 1]
  /\ Goto(t, ret[t])
  /\ arg' = [arg EXCEPT ![t] = NULL] /\ ret' = [ret EXCEPT ![t] = "idle"]
  /\ found' = [found EXCEPT ![t] = FALSE]
  /\ UNCHANGED <<MarkerFrames, CurrentDecodeBufferIndex, OutputRing, commands, counts,
                 DiscardDecodesUntil, marker, frame, context, bounds, user>>

\* The buffer that is decoded into is to be put out; it is, when nothing is under way.
Seals(t, b) ==
  /\ pc[t] = "seal" /\ t \in {ParseToDecode, Drain}
  /\ b = arg[t] /\ b = Current /\ b \in Buffers /\ Open(b)
  /\ BufferState' = [BufferState EXCEPT ![b].OutputOnDecodesComplete = TRUE]
  /\ OutputRing' = IF BufferState[b].DecodesInProgress = 0
                   THEN Append(OutputRing, b) ELSE OutputRing
  /\ Goto(t, "sealed") /\ arg' = [arg EXCEPT ![t] = NULL]
  /\ UNCHANGED <<OwnerCount, MarkerFrames, CurrentDecodeBufferIndex, commands, counts,
                 DiscardDecodesUntil, marker, frame, context, found, ret, bounds, user>>

Mapped ==
  /\ pc[ParseToDecode] = "map" /\ Current \in Buffers
  /\ BufferState' = [BufferState EXCEPT ![Current] = [Unused EXCEPT !.mapped = TRUE]]
  /\ Goto(ParseToDecode, "bind")
  /\ UNCHANGED <<OwnerCount, MarkerFrames, CurrentDecodeBufferIndex, OutputRing, commands,
                 counts, DiscardDecodesUntil, marker, frame, context, user, arg, found, ret>>

Bound(b, isReference, list) ==
  /\ pc[ParseToDecode] = "bind" /\ b = Current /\ b \in Buffers /\ isReference \in {0, 1}
  /\ list \in Seq(Buffers) /\ Len(list) <= MaxReferences
  /\ \A k \in DOMAIN list : list[k] = b \/ BufferState[list[k]].ReferenceFrameCount > 0
  /\ BufferState' = [BufferState EXCEPT ![b].ReferenceFrameCount = @ + isReference]
  /\ OwnerCount' = [c \in Buffers |->
       OwnerCount[c] + Occurrences(c, list) + (IF c = b THEN isReference ELSE 0)]
  /\ context' = [context EXCEPT ![ParseToDecode].BufferIndex = b,
                                ![ParseToDecode].References = list]
  /\ Goto(ParseToDecode, "launch") \/ Goto(ParseToDecode, "release")
  /\ UNCHANGED <<MarkerFrames, CurrentDecodeBufferIndex, OutputRing, commands, counts,
                 DiscardDecodesUntil, marker, frame, user, arg, found, ret>>

Launched(b, seen) ==
  /\ pc[ParseToDecode] = "launch" /\ b = Current /\ b \in Buffers
  /\ seen = BufferState[b].PictureStructure \cup frame.structure
  /\ BufferState' = [BufferState EXCEPT
       ![b].PictureStructure = seen, ![b].DecodesInProgress = @ + 1,
       ![b].OutputOnDecodesComplete = seen = Frame]
  /\ context' = [context EXCEPT ![ParseToDecode].DecodeInProgress = TRUE]
  /\ frame' = [frame EXCEPT !.structure = seen]
  /\ Goto(ParseToDecode, "send")
  /\ UNCHANGED <<OwnerCount, MarkerFrames, CurrentDecodeBufferIndex, OutputRing, commands,
                 counts, DiscardDecodesUntil, marker, user, arg, found, ret>>

\* ReleaseDecodeContext finds no decode; one that completes the buffer, which is to be
\* discarded, or is put out; or one that does not complete it.
ReleasesNothing(t) ==
  /\ pc[t] = "release" /\ context[t] # NULL /\ ~context[t].DecodeInProgress
  /\ Goto(t, "unreference")
  /\ UNCHANGED <<BufferState, context, CurrentDecodeBufferIndex, OutputRing, arg, found, ret,
                 OwnerCount, MarkerFrames, commands, counts, DiscardDecodesUntil, marker,
                 frame, bounds, user>>

ReleasesDecode(t, b) ==
  /\ pc[t] = "release" /\ context[t] # NULL /\ context[t].DecodeInProgress
  /\ b = context[t].BufferIndex /\ b \in Buffers
  /\ BufferState[b].mapped /\ BufferState[b].DecodesInProgress > 0
  /\ context' = [context EXCEPT ![t].DecodeInProgress = FALSE]
  /\ BufferState' = [BufferState EXCEPT ![b].DecodesInProgress =
                       BufferState[b].DecodesInProgress - 1]
  /\ UNCHANGED <<OwnerCount, MarkerFrames, commands, counts, DiscardDecodesUntil, marker,
                 frame, bounds, user>>

Completes(b) ==
  BufferState[b].OutputOnDecodesComplete /\ BufferState[b].DecodesInProgress = 1

ReleasesToDiscard(t, b) ==
  /\ ReleasesDecode(t, b) /\ Completes(b)
  /\ MMECommandCompletedCount < DiscardDecodesUntil
  /\ DropThen(t, b, "discarded") /\ UNCHANGED <<CurrentDecodeBufferIndex, OutputRing>>

ReleasesToOutput(t, b) ==
  /\ ReleasesDecode(t, b) /\ Completes(b)
  /\ OutputRing' = Append(OutputRing, b) /\ Invalidate(b)
  /\ Goto(t, "unreference") /\ UNCHANGED <<arg, found, ret>>

ReleasesOne(t, b) ==
  /\ ReleasesDecode(t, b) /\ ~Completes(b)
  /\ IF BufferState[b].OutputOnDecodesComplete
     THEN Invalidate(b) ELSE UNCHANGED CurrentDecodeBufferIndex
  /\ Goto(t, "unreference") /\ UNCHANGED <<arg, found, ret, OutputRing>>

\* The process behind the manifestor takes a marker, or a buffer.
ShowsMarker(b) ==
  /\ pc[PostManifest] = "idle" /\ OutputRing # <<>> /\ b = Head(OutputRing)
  /\ b \in MarkerFrames /\ OutputRing' = Tail(OutputRing)
  /\ OwnerCount' = [OwnerCount EXCEPT ![b] = @ - 1]
  /\ MarkerFrames' = MarkerFrames \ {b}
  /\ drain' = "none" /\ UNCHANGED <<thread, switching>>
  /\ UNCHANGED <<BufferState, CurrentDecodeBufferIndex, commands, counts,
                 DiscardDecodesUntil, marker, frame, context, bounds>>

ShowsBuffer(b) ==
  /\ pc[PostManifest] = "idle" /\ OutputRing # <<>> /\ b = Head(OutputRing)
  /\ b \in Buffers \ MarkerFrames /\ OutputRing' = Tail(OutputRing)
  /\ DropThen(PostManifest, b, "idle")
  /\ UNCHANGED <<OwnerCount, MarkerFrames, user>>
  /\ UNCHANGED <<BufferState, CurrentDecodeBufferIndex, commands, counts,
                 DiscardDecodesUntil, marker, frame, context, bounds>>

\* A worker passes the marker on.
Passes(t, b) ==
  /\ pc[t] = "insert" /\ b = arg[t] /\ b \in MarkerFrames
  /\ OutputRing' = Append(OutputRing, b) /\ arg' = [arg EXCEPT ![t] = NULL]
  /\ Goto(t, "idle")
  /\ UNCHANGED <<buffer, CurrentDecodeBufferIndex, commands, counts, DiscardDecodesUntil,
                 marker, frame, context, found, ret, bounds, user>>

\* The number of decodes into a buffer is positive when a worker is at one.
LEMMA DecodesPositive ==
  ASSUME IInv, NEW t \in Workers, Decoding(t)
  PROVE  /\ context[t].BufferIndex \in Buffers
         /\ BufferState[context[t].BufferIndex].DecodesInProgress > 0
         /\ BufferState[context[t].BufferIndex].mapped
<1> DEFINE b == context[t].BufferIndex
<1>1. b \in Buffers
  BY DEF IInv, DecodesInv, TypeInv, CommandTypes, Short, DecodeContext, Decoding
<1>2. Cardinality(CommandsFor(b)) \in Nat
  <2>1. CommandsFor(b) \in SUBSET (1 .. Len(commands)) /\ Len(commands) \in Nat
    BY DEF CommandsFor, IInv, TypeInv, CommandTypes
  <2>2. IsFiniteSet(1 .. Len(commands))  BY <2>1, FS_Interval
  <2>3. IsFiniteSet(CommandsFor(b))  BY <2>1, <2>2, FS_Subset
  <2> QED BY <2>3, FS_CardinalityType
<1>3. BufferState[b].DecodesInProgress > 0
  <2>1. DecodesOf(ParseToDecode, b) = 1 \/ DecodesOf(MME, b) = 1
    BY DEF DecodesOf, Workers
  <2>2. DecodesOf(ParseToDecode, b) \in {0, 1} /\ DecodesOf(MME, b) \in {0, 1}
    BY DEF DecodesOf
  <2>3. BufferState[b].DecodesInProgress =
          Cardinality(CommandsFor(b)) + DecodesOf(ParseToDecode, b) + DecodesOf(MME, b)
    BY <1>1 DEF IInv, DecodesInv
  <2> HIDE DEF b
  <2> QED BY <1>2, <2>1, <2>2, <2>3
<1>4. BufferState[b].mapped
  BY <1>1, <1>3 DEF IInv, BuffersInv, Unused
<1> QED BY <1>1, <1>3, <1>4

\* DecrementReferenceCount of a reference that counts: what the thread is at was mapped

\* when it looked, or the thread releases unmapped buffers too, so the count always goes
\* down by one.
LEMMA DropOutcome ==
  ASSUME IInv, NEW t \in Threads, DropReference(t)
  PROVE  \E b \in Buffers : Drops(t, b)
<1> DEFINE b == arg[t]
<1>1. b \in Buffers \ MarkerFrames
  BY DEF DropReference, IInv, BuffersInv, MarkersAlone
<1>2. found[t] \/ (t = PostManifest /\ BufferState[b] = Unused)
  BY <1>1 DEF DropReference, IInv, BuffersInv
<1>3. found[t] \/ InReleaseDecodeBuffer(t)  BY <1>2 DEF InReleaseDecodeBuffer
<1>4. BufferState \in [Buffers -> BufferStates]  BY DEF IInv, TypeInv, BufferTypes
<1>5. BufferState' = [BufferState EXCEPT ![b] = IF OwnerCount[b] = 1 THEN Unused ELSE @]
  BY <1>1, <1>2, <1>4 DEF DropReference
<1>6. OwnerCount' = [OwnerCount EXCEPT ![b] = @ - 1]  BY <1>3 DEF DropReference
<1>7. Drops(t, b)  BY <1>1, <1>5, <1>6 DEF DropReference, Drops
<1> QED BY <1>1, <1>7

\* Only the process and the drain seal, and what they seal is the current buffer, still

\* open.
LEMMA SealOutcome ==
  ASSUME IInv, NEW t \in Threads, SetOutputOnDecodesComplete(t)
  PROVE  \E b \in Buffers : Seals(t, b)
<1>1. t \in {ParseToDecode, Drain}
  BY DEF SetOutputOnDecodesComplete, IInv, LocalsInv, PlacesInv, Threads
<1>2. arg[t] = Current /\ Current \in Buffers
  BY <1>1 DEF SetOutputOnDecodesComplete, IInv, CurrentInv, TypeInv, BufferTypes, Current
<1>3. Open(Current)
  BY <1>1, <1>2 DEF SetOutputOnDecodesComplete, IInv, OpenInv, CurrentInv, ModesInv, Decoding,
                    DecodesInv,
     ParseToDecode, Drain
<1> QED BY <1>1, <1>2, <1>3 DEF SetOutputOnDecodesComplete, Seals

\* What a worker inserts for a marker is a marker.
LEMMA PassOutcome ==
  ASSUME IInv, NEW t \in Workers, PassOnMarker(t)
  PROVE  \E b \in Buffers : Passes(t, b)
<1>1. arg[t] \in MarkerFrames /\ arg[t] \in Buffers
  BY DEF PassOnMarker, IInv, MarkersInv, TypeInv, BufferTypes
<1> QED BY <1>1 DEF PassOnMarker, Passes

\* The index that GetDecodeBuffer has stored is still valid where the buffer is mapped.
LEMMA MapOutcome == ASSUME IInv, MapDecodeBuffer PROVE Mapped
BY DEF IInv, OpenInv, TypeInv, BufferTypes, MapDecodeBuffer, Mapped, Current, bounds

\* Nor is it invalidated before the reference lists are translated; what the lists name is

\* a reference frame or the picture itself.
LEMMA BindOutcome ==
  ASSUME IInv, TranslateReferenceFrameLists
  PROVE  \E b \in Buffers, isReference \in {0, 1}, list \in Seq(Buffers) :
           Bound(b, isReference, list)
<1> DEFINE b == CurrentDecodeBufferIndex
<1>1. b \in Buffers /\ b # NULL
  BY DEF IInv, CurrentInv, TypeInv, BufferTypes, TranslateReferenceFrameLists, Current
<1>2. PICK isReference \in {0, 1}, list \in ReferenceLists :
       /\ BufferState' = [BufferState EXCEPT ![b].ReferenceFrameCount = @ + isReference]
       /\ OwnerCount' = [c \in Buffers |->
            OwnerCount[c] + Occurrences(c, list) + (IF c = b THEN isReference ELSE 0)]
       /\ context' = [context EXCEPT ![ParseToDecode].BufferIndex = b,
                                     ![ParseToDecode].References = list]
       /\ \/ Goto(ParseToDecode, "launch") /\ UNCHANGED <<arg, found, ret>>
          \/ Goto(ParseToDecode, "release") /\ UNCHANGED <<arg, found, ret>>
  BY <1>1 DEF TranslateReferenceFrameLists, Fails
<1>3. /\ list \in Seq(Buffers) /\ Len(list) <= MaxReferences
      /\ \A k \in DOMAIN list : list[k] = b \/ BufferState[list[k]].ReferenceFrameCount > 0
  <2> DEFINE known == {c \in Buffers : BufferState[c].ReferenceFrameCount > 0}
  <2>1. list \in UNION {[1 .. m -> known \cup {b}] : m \in 0 .. MaxReferences}
    BY <1>2 DEF ReferenceLists, BoundedSeq, SeqOf
  <2>2. PICK m \in 0 .. MaxReferences : list \in [1 .. m -> known \cup {b}]  BY <2>1
  <2>3. m \in Nat /\ m <= MaxReferences  BY <2>2, CodecAssumption
  <2>4. list \in Seq(Buffers) /\ Len(list) = m  BY <1>1, <2>2, <2>3
  <2>5. \A k \in DOMAIN list : list[k] \in known \cup {b}  BY <2>2
  <2> QED BY <2>3, <2>4, <2>5
<1>4. Bound(b, isReference, list)
  BY <1>1, <1>2, <1>3 DEF Bound, TranslateReferenceFrameLists, Current
<1> QED BY <1>1, <1>3, <1>4

\* Nor before the decode is launched.
LEMMA LaunchOutcome ==
  ASSUME IInv, Launch
  PROVE  \E b \in Buffers, seen \in SUBSET Frame : Launched(b, seen)
<1> DEFINE b == CurrentDecodeBufferIndex
           seen == BufferState[b].PictureStructure \cup frame.structure
<1>1. b \in Buffers /\ b # NULL
  BY DEF IInv, CurrentInv, TypeInv, BufferTypes, Launch, Current
<1>2. seen \in SUBSET Frame
  BY <1>1 DEF IInv, TypeInv, BufferTypes, ThreadTypes, BufferStates
<1>3. Launched(b, seen)
  BY <1>1 DEF Launch, Launched, Current, bounds
<1> QED BY <1>1, <1>2, <1>3

\* ReleaseDecodeContext has three outcomes when it finds a decode: the buffer is complete

\* and discarded, or complete and put out, or not complete yet.
LEMMA ReleaseOutcome ==
  ASSUME IInv, NEW t \in Workers, ReleaseDecodeContext(t)
  PROVE  \/ ReleasesNothing(t)
         \/ \E b \in Buffers :
              ReleasesToDiscard(t, b) \/ ReleasesToOutput(t, b) \/ ReleasesOne(t, b)
<1>1. pc[t] = "release" /\ context[t] # NULL
  BY DEF ReleaseDecodeContext, IInv, LocalsInv, HasContext
<1>2. CASE ~context[t].DecodeInProgress
  BY <1>1, <1>2 DEF ReleaseDecodeContext, ReleasesNothing
<1>3. CASE context[t].DecodeInProgress
  <2> DEFINE b == context[t].BufferIndex
  <2>1. b \in Buffers /\ BufferState[b].mapped /\ BufferState[b].DecodesInProgress > 0
    BY <1>1, <1>3, DecodesPositive DEF Decoding
  <2>2. BufferState[b].DecodesInProgress \in Int
    BY <2>1 DEF IInv, TypeInv, BufferTypes, BufferStates
  <2>3. BufferState[b].DecodesInProgress - 1 = 0 <=> BufferState[b].DecodesInProgress = 1
    BY <2>2
  <2>4. ReleasesDecode(t, b)
    BY <1>1, <1>3, <2>1 DEF ReleaseDecodeContext, ReleasesDecode
  <2> QED
    BY <1>1, <1>3, <2>1, <2>3, <2>4
       DEF ReleaseDecodeContext, Completes, ReleasesToDiscard, ReleasesToOutput, ReleasesOne
<1> QED BY <1>2, <1>3

\* The process behind the manifestor takes a marker, or a buffer to give back.
LEMMA ShowOutcome ==
  ASSUME IInv, Show
  PROVE  \E b \in Buffers : ShowsMarker(b) \/ ShowsBuffer(b)
<1>1. OutputRing # <<>> /\ Head(OutputRing) \in Buffers
  BY DEF Show, IInv, TypeInv, BufferTypes
<1> QED BY <1>1 DEF Show, ShowsMarker, ShowsBuffer

\* Every step of the specification, with the outcomes in the place of those actions.
Steps ==
  \/ \E t \in Threads : PartialTest(t) \/ PartialEnd(t)
  \/ \E t \in Threads, b \in Buffers : Drops(t, b) \/ Seals(t, b)
  \/ \E t \in Workers : ReleasesNothing(t)
  \/ \E t \in Workers, b \in Buffers :
       ReleasesToDiscard(t, b) \/ ReleasesToOutput(t, b) \/ ReleasesOne(t, b)
  \/ \E t \in Workers :
       \/ ReleaseRelock(t) \/ ReleaseReference(t) \/ ReleaseEnd(t)
       \/ TestMarkerFramePassOn(t) \/ TakeMarkerBuffer(t) \/ \E b \in Buffers : Passes(t, b)
  \/ SendMMEStreamParameters \/ DropPicture \/ \E picture \in Pictures : Input(picture)
  \/ \E b \in Buffers : GetDecodeBuffer(b) \/ InputMarkerGet(b) \/ ReleaseReferenceFrame(b)
                         \/ ReleaseAll(b) \/ ShowsMarker(b) \/ ShowsBuffer(b)
  \/ GetDecodeBufferFails \/ Mapped
  \/ \E b \in Buffers, isReference \in {0, 1}, list \in Seq(Buffers) :
       Bound(b, isReference, list)
  \/ \E b \in Buffers, seen \in SUBSET Frame : Launched(b, seen)
  \/ SendMMEDecodeCommand \/ InputEnd
  \/ InputMarkerTake \/ InputMarkerHold
  \/ CallbackFromMME \/ Completed
  \/ \E discard, switch \in BOOLEAN : DrainStream(discard, switch)
  \/ SwitchCodec \/ HaltAndReset
  \/ UNCHANGED vars

\* From a state of the invariant, each action of Next does what its outcome says.
LEMMA StepsCover == ASSUME IInv, [Next]_vars PROVE Steps
<1>1. CASE UNCHANGED vars  BY <1>1 DEF Steps
<1>2. CASE Next
  <2>1. ASSUME NEW t \in Workers, ReleaseDecodeContext(t) PROVE Steps
    BY <2>1, ReleaseOutcome DEF Steps
  <2>6. ASSUME NEW t \in Workers, PassOnMarker(t) PROVE Steps
    BY <2>6, PassOutcome DEF Steps
  <2>7. ASSUME NEW t \in Threads, DropReference(t) PROVE Steps
    BY <2>7, DropOutcome DEF Steps
  <2>8. ASSUME NEW t \in Threads, SetOutputOnDecodesComplete(t) PROVE Steps
    BY <2>8, SealOutcome DEF Steps
  <2>2. ASSUME MapDecodeBuffer PROVE Steps  BY <2>2, MapOutcome DEF Steps
  <2>3. ASSUME TranslateReferenceFrameLists PROVE Steps  BY <2>3, BindOutcome DEF Steps
  <2>4. ASSUME Launch PROVE Steps  BY <2>4, LaunchOutcome DEF Steps
  <2>5. ASSUME Show PROVE Steps  BY <2>5, ShowOutcome DEF Steps
  <2> QED BY <1>2, <2>1, <2>2, <2>3, <2>4, <2>5, <2>6, <2>7, <2>8 DEF Next, Steps, Workers
<1> QED BY <1>1, <1>2

(***************************************************************************)
(* Which steps change the states of the buffers, their counts, the ring,   *)
(* the commands and the contexts.                                          *)
(***************************************************************************)
\* A release that finds a decode, with its outcome.
Releases(t, b) ==
  ReleasesDecode(t, b)
  /\ (ReleasesToDiscard(t, b) \/ ReleasesToOutput(t, b) \/ ReleasesOne(t, b))

ChangesStates ==
  \/ \E t \in Threads, b \in Buffers : Drops(t, b) \/ Seals(t, b)
  \/ \E t \in Workers, b \in Buffers : Releases(t, b)
  \/ Mapped
  \/ \E b \in Buffers, isReference \in {0, 1}, list \in Seq(Buffers) :
       Bound(b, isReference, list)
  \/ \E b \in Buffers, seen \in SUBSET Frame : Launched(b, seen)
  \/ \E b \in Buffers : ReleaseReferenceFrame(b) \/ ReleaseAll(b)
  \/ HaltAndReset

ChangesOwners ==
  \/ \E t \in Threads, b \in Buffers : Drops(t, b)
  \/ \E b \in Buffers : GetDecodeBuffer(b) \/ InputMarkerGet(b) \/ ShowsMarker(b)
  \/ InputMarkerTake
  \/ \E b \in Buffers, isReference \in {0, 1}, list \in Seq(Buffers) :
       Bound(b, isReference, list)

ChangesRing ==
  \/ \E t \in Threads, b \in Buffers : Seals(t, b)
  \/ \E t \in Workers, b \in Buffers : Passes(t, b) \/ ReleasesToOutput(t, b)
  \/ \E b \in Buffers : ShowsMarker(b) \/ ShowsBuffer(b)

ChangesCommands == SendMMEStreamParameters \/ SendMMEDecodeCommand \/ CallbackFromMME

ChangesContexts ==
  \/ \E t \in Workers : ReleaseReference(t) \/ ReleaseEnd(t)
  \/ \E t \in Workers, b \in Buffers : Releases(t, b)
  \/ \E picture \in Pictures : Input(picture)
  \/ \E b \in Buffers, isReference \in {0, 1}, list \in Seq(Buffers) :
       Bound(b, isReference, list)
  \/ \E b \in Buffers, seen \in SUBSET Frame : Launched(b, seen)
  \/ SendMMEDecodeCommand \/ CallbackFromMME

\* The steps that change no buffer, ring, command or context.
Moves ==
  \/ \E t \in Threads : PartialTest(t) \/ PartialEnd(t)
  \/ \E t \in Workers : ReleasesNothing(t) \/ ReleaseRelock(t) \/ TestMarkerFramePassOn(t)
                         \/ TakeMarkerBuffer(t)
  \/ DropPicture \/ GetDecodeBufferFails \/ InputEnd \/ InputMarkerHold \/ Completed
  \/ \E discard, switch \in BOOLEAN : DrainStream(discard, switch)
  \/ SwitchCodec \/ UNCHANGED vars

\* A move leaves buffers, ring, commands and contexts alone.
LEMMA MovesChangeNothing ==
  ASSUME Moves
  PROVE  UNCHANGED <<buffer, OutputRing, commands, context>>
<1> USE DEF Moves, vars, buffer
<1>1. UNCHANGED buffer
  BY DEF PartialTest, PartialEnd, ReleasesNothing, ReleaseRelock, TestMarkerFramePassOn,
         TakeMarkerBuffer, DropPicture, GetDecodeBufferFails, InputEnd, InputMarkerHold,
         Completed, DrainStream, SwitchCodec
<1>2. UNCHANGED <<OutputRing, commands>>
  BY DEF PartialTest, PartialEnd, ReleasesNothing, ReleaseRelock, TestMarkerFramePassOn,
         TakeMarkerBuffer, DropPicture, GetDecodeBufferFails, InputEnd, InputMarkerHold,
         Completed, DrainStream, SwitchCodec
<1>3. UNCHANGED context
  BY DEF PartialTest, PartialEnd, ReleasesNothing, ReleaseRelock, TestMarkerFramePassOn,
         TakeMarkerBuffer, DropPicture, GetDecodeBufferFails, InputEnd, InputMarkerHold,
         Completed, DrainStream, SwitchCodec
<1> QED BY <1>1, <1>2, <1>3

\* Which of the other steps change them.
LEMMA Changes ==
  ASSUME Steps
  PROVE  /\ ChangesStates \/ UNCHANGED BufferState
         /\ ChangesOwners \/ UNCHANGED <<OwnerCount, MarkerFrames>>
         /\ ChangesRing \/ UNCHANGED OutputRing
         /\ ChangesCommands \/ UNCHANGED commands
         /\ ChangesContexts \/ UNCHANGED context
<1>1. ASSUME ~Moves
      PROVE  /\ ChangesStates \/ UNCHANGED BufferState
             /\ ChangesOwners \/ UNCHANGED <<OwnerCount, MarkerFrames>>
             /\ ChangesRing \/ UNCHANGED OutputRing
             /\ ChangesCommands \/ UNCHANGED commands
             /\ ChangesContexts \/ UNCHANGED context
  <2> DEFINE Goal ==
        /\ ChangesStates \/ UNCHANGED BufferState
        /\ ChangesOwners \/ UNCHANGED <<OwnerCount, MarkerFrames>>
        /\ ChangesRing \/ UNCHANGED OutputRing
        /\ ChangesCommands \/ UNCHANGED commands
        /\ ChangesContexts \/ UNCHANGED context
  <2> USE DEF ChangesStates, ChangesOwners, ChangesRing, ChangesCommands, ChangesContexts, buffer
  <2>1. ASSUME NEW t \in Threads, NEW b \in Buffers, Drops(t, b) \/ Seals(t, b) PROVE Goal
    BY <2>1 DEF Drops, Seals
  <2>2. ASSUME NEW t \in Workers, NEW b \in Buffers,
               ReleasesToDiscard(t, b) \/ ReleasesToOutput(t, b) \/ ReleasesOne(t, b)
        PROVE  Goal
    BY <2>2 DEF ReleasesToDiscard, ReleasesToOutput, ReleasesOne, ReleasesDecode, Releases
  <2>3. ASSUME NEW t \in Workers, ReleaseReference(t) \/ ReleaseEnd(t) PROVE Goal
    BY <2>3 DEF ReleaseReference, ReleaseEnd
  <2>4. ASSUME NEW t \in Workers, NEW b \in Buffers, Passes(t, b) PROVE Goal
    BY <2>4 DEF Passes
  <2>5. ASSUME NEW picture \in Pictures, Input(picture) PROVE Goal  BY <2>5 DEF Input
  <2>6. ASSUME NEW b \in Buffers,
               GetDecodeBuffer(b) \/ InputMarkerGet(b) \/ ReleaseReferenceFrame(b)
               \/ ReleaseAll(b) \/ ShowsMarker(b) \/ ShowsBuffer(b)
        PROVE  Goal
    BY <2>6 DEF GetDecodeBuffer, InputMarkerGet, ReleaseReferenceFrame, ReleaseAll,
                ShowsMarker, ShowsBuffer
  <2>7. ASSUME NEW b \in Buffers, NEW isReference \in {0, 1}, NEW list \in Seq(Buffers),
               Bound(b, isReference, list)
        PROVE  Goal
    BY <2>7 DEF Bound
  <2>8. ASSUME NEW b \in Buffers, NEW seen \in SUBSET Frame, Launched(b, seen) PROVE Goal
    BY <2>8 DEF Launched
  <2>9. ASSUME SendMMEStreamParameters \/ SendMMEDecodeCommand \/ CallbackFromMME PROVE Goal
    BY <2>9 DEF SendMMEStreamParameters, SendMMEDecodeCommand, CallbackFromMME
  <2>10. ASSUME Mapped \/ InputMarkerTake \/ HaltAndReset PROVE Goal
    BY <2>10 DEF Mapped, InputMarkerTake, HaltAndReset
  <2> HIDE DEF Goal
  <2>11. Goal
    BY <1>1, <2>1, <2>2, <2>3, <2>4, <2>5, <2>6, <2>7, <2>8, <2>9, <2>10 DEF Steps, Moves
  <2> QED BY <2>11 DEF Goal
<1>2. CASE Moves  BY <1>2, MovesChangeNothing DEF buffer
<1> QED BY <1>1, <1>2

(***************************************************************************)
(* Types.                                                                  *)
(***************************************************************************)

\* A buffer that is not mapped, or has just been mapped, is of the type of a buffer.
LEMMA UnusedType ==
  Unused \in BufferStates /\ [Unused EXCEPT !.mapped = TRUE] \in BufferStates
<1>1. {} \in SUBSET Frame  OBVIOUS
<1>2. Unused \in BufferStates  BY <1>1 DEF Unused, BufferStates
<1> QED BY <1>2 DEF BufferStates

\* The states of the buffers keep their type.
LEMMA StatesType == ASSUME IInv, Steps PROVE BufferState' \in [Buffers -> BufferStates]
<1>0. BufferState \in [Buffers -> BufferStates]  BY DEF IInv, TypeInv, BufferTypes
<1>1. ASSUME NEW t \in Threads, NEW b \in Buffers, Drops(t, b)
      PROVE  BufferState' \in [Buffers -> BufferStates]
  BY <1>0, <1>1, UnusedType DEF Drops
<1>2. ASSUME NEW t \in Threads, NEW b \in Buffers, Seals(t, b)
      PROVE  BufferState' \in [Buffers -> BufferStates]
  BY <1>0, <1>2 DEF Seals, BufferStates
<1>3. ASSUME NEW t \in Workers, NEW b \in Buffers, ReleasesDecode(t, b)
      PROVE  BufferState' \in [Buffers -> BufferStates]
  BY <1>0, <1>3 DEF ReleasesDecode, BufferStates
<1>4. ASSUME Mapped PROVE BufferState' \in [Buffers -> BufferStates]
  BY <1>0, <1>4, UnusedType DEF Mapped
<1>5. ASSUME NEW b \in Buffers, NEW isReference \in {0, 1}, NEW list \in Seq(Buffers),
             Bound(b, isReference, list)
      PROVE  BufferState' \in [Buffers -> BufferStates]
  <2> DEFINE n == BufferState[b].ReferenceFrameCount + isReference
  <2>1. n \in Nat  BY <1>0 DEF BufferStates
  <2>2. BufferState' = [BufferState EXCEPT ![b] = [@ EXCEPT !.ReferenceFrameCount = n]]
    BY <1>0, <1>5 DEF Bound
  <2>3. [BufferState[b] EXCEPT !.ReferenceFrameCount = n] \in BufferStates
    BY <1>0, <2>1 DEF BufferStates
  <2> QED BY <1>0, <2>2, <2>3
<1>6. ASSUME NEW b \in Buffers, NEW seen \in SUBSET Frame, Launched(b, seen)
      PROVE  BufferState' \in [Buffers -> BufferStates]
  <2> DEFINE state == BufferState[b]
             new == [mapped |-> state.mapped, OutputOnDecodesComplete |-> (seen = Frame),
                     DecodesInProgress |-> state.DecodesInProgress + 1,
                     ReferenceFrameCount |-> state.ReferenceFrameCount,
                     PictureStructure |-> seen]
  <2>1. state \in BufferStates  BY <1>0
  <2>2. new \in BufferStates  BY <2>1 DEF BufferStates
  <2>3. BufferState' = [BufferState EXCEPT ![b] = new]
    BY <1>0, <1>6, <2>1 DEF Launched, BufferStates
  <2> QED BY <1>0, <2>2, <2>3
<1>7. ASSUME NEW b \in Buffers, ReleaseReferenceFrame(b) \/ ReleaseAll(b)
      PROVE  BufferState' \in [Buffers -> BufferStates]
  <2>1. BufferState' = [BufferState EXCEPT ![b].ReferenceFrameCount = @ - 1]
        /\ BufferState[b].ReferenceFrameCount > 0
    BY <1>7 DEF ReleaseReferenceFrame, ReleaseAll
  <2> QED BY <1>0, <2>1 DEF BufferStates
<1>8. ASSUME HaltAndReset PROVE BufferState' \in [Buffers -> BufferStates]
  BY <1>8, UnusedType DEF HaltAndReset
<1> QED BY <1>0, <1>1, <1>2, <1>3, <1>4, <1>5, <1>6, <1>7, <1>8, Changes DEF ChangesStates,
        Releases

\* How often a buffer is in a sequence is a number.
LEMMA OccurrencesType ==
  ASSUME NEW s \in Seq(Buffers), NEW b
  PROVE  IsFiniteSet({k \in DOMAIN s : s[k] = b}) /\ Occurrences(b, s) \in Nat
<1>1. DOMAIN s = 1 .. Len(s) /\ Len(s) \in Nat  OBVIOUS
<1>2. IsFiniteSet(DOMAIN s)  BY <1>1, FS_Interval
<1>3. IsFiniteSet({k \in DOMAIN s : s[k] = b})  BY <1>2, FS_Subset
<1> QED BY <1>3, FS_CardinalityType DEF Occurrences

\* So do the reference counts, of which no more is said than that they are integers.
LEMMA OwnersType ==
  ASSUME IInv, Steps
  PROVE  OwnerCount' \in [Buffers -> Int] /\ MarkerFrames' \subseteq Buffers
<1>0. OwnerCount \in [Buffers -> Int] /\ MarkerFrames \subseteq Buffers
  BY DEF IInv, TypeInv, BufferTypes
<1> DEFINE Typed == OwnerCount' \in [Buffers -> Int] /\ MarkerFrames' \subseteq Buffers
<1>1. ASSUME NEW t \in Threads, NEW b \in Buffers, Drops(t, b) PROVE Typed
  BY <1>0, <1>1 DEF Drops
<1>2. ASSUME NEW b \in Buffers, GetDecodeBuffer(b) \/ InputMarkerGet(b) \/ ShowsMarker(b)
      PROVE  Typed
  BY <1>0, <1>2 DEF GetDecodeBuffer, InputMarkerGet, ShowsMarker
<1>3. ASSUME InputMarkerTake PROVE Typed  BY <1>0, <1>3 DEF InputMarkerTake
<1>4. ASSUME NEW b \in Buffers, NEW isReference \in {0, 1}, NEW list \in Seq(Buffers),
             Bound(b, isReference, list)
      PROVE  Typed
  <2>1. \A c \in Buffers : Occurrences(c, list) \in Nat  BY OccurrencesType
  <2>2. \A c \in Buffers :
          OwnerCount[c] + Occurrences(c, list) + (IF c = b THEN isReference ELSE 0) \in Int
    BY <1>0, <2>1
  <2> QED BY <1>0, <1>4, <2>2 DEF Bound
<1> QED BY <1>0, <1>1, <1>2, <1>3, <1>4, Changes DEF ChangesOwners

\* What a step does to the ring: it appends a buffer, or takes the first.
LEMMA RingStep ==
  ASSUME IInv, Steps
  PROVE  \/ UNCHANGED OutputRing
         \/ \E b \in Buffers : OutputRing' = Append(OutputRing, b)
         \/ OutputRing # <<>> /\ OutputRing' = Tail(OutputRing)
BY Changes
   DEF ChangesRing, Seals, Passes, ReleasesToOutput, ShowsMarker, ShowsBuffer

\* Types of the buffers, the ring and the current index.
LEMMA BufferTypesStep == ASSUME IInv, Steps PROVE BufferTypes'
<1>1. OutputRing \in Seq(Buffers)  BY DEF IInv, TypeInv, BufferTypes
<1>2. OutputRing' \in Seq(Buffers)  BY <1>1, RingStep
<1>3. CurrentDecodeBufferIndex' \in Buffers \cup {NULL}
  BY DEF Steps, vars, buffer, Drops, PartialTest, Seals, PartialEnd, ReleasesNothing,
         ReleasesToDiscard, ReleasesToOutput, ReleasesOne, ReleaseRelock, Invalidate,
         ReleaseReference, ReleaseEnd, TestMarkerFramePassOn, TakeMarkerBuffer, Passes,
         SendMMEStreamParameters, DropPicture, Input, GetDecodeBuffer, InputMarkerGet,
         ReleaseReferenceFrame, ReleaseAll, ShowsMarker, ShowsBuffer, GetDecodeBufferFails,
         Mapped, Bound, Launched, SendMMEDecodeCommand, InputEnd, InputMarkerTake,
         InputMarkerHold, CallbackFromMME, Completed, DrainStream, SwitchCodec, HaltAndReset,
         IInv, TypeInv, BufferTypes
<1> QED BY <1>2, <1>3, StatesType, OwnersType DEF BufferTypes

\* A context that has been taken from its pool is empty.
LEMMA NewContextType == NewContext \in Short /\ NewContext # NULL
<1>1. <<>> \in Seq(Buffers) /\ Len(<<>>) = 0  OBVIOUS
<1>2. NewContext \in DecodeContext  BY <1>1 DEF NewContext, DecodeContext
<1>3. NewContext.References = <<>> /\ 0 <= MaxReferences  BY CodecAssumption DEF NewContext
<1> QED BY <1>1, <1>2, <1>3, CodecAssumption DEF Short

\* The number under which a command is sent leaves it a context.
LEMMA Numbered ==
  ASSUME NEW c \in Short, NEW n \in Nat
  PROVE  [c EXCEPT !.number = n] \in Short
<1> DEFINE d == [c EXCEPT !.number = n]
<1>1. c \in DecodeContext /\ c.References \in Seq(Buffers)  BY DEF Short, DecodeContext
<1>2. d \in DecodeContext  BY <1>1 DEF DecodeContext
<1>3. d.References = c.References  BY <1>1 DEF DecodeContext
<1> QED BY <1>2, <1>3 DEF Short

\* The commands of the transformer keep their type, and their lists their length.
LEMMA CommandsType == ASSUME IInv, Steps PROVE commands' \in Seq(Short)
<1>0. /\ commands \in Seq(Short) /\ context \in [Workers -> Short \cup {NULL}]
      /\ MMECommandPreparedCount \in Nat
  BY DEF IInv, TypeInv, CommandTypes, NumberTypes
<1>1. ASSUME SendMMEStreamParameters PROVE commands' \in Seq(Short)
  <2> DEFINE n == MMECommandPreparedCount + 1
  <2>1. [NewContext EXCEPT !.number = n] \in Short  BY <1>0, NewContextType, Numbered
  <2>2. commands' = Append(commands, [NewContext EXCEPT !.number = n])
    BY <1>1 DEF SendMMEStreamParameters
  <2> QED BY <1>0, <2>1, <2>2
<1>2. ASSUME SendMMEDecodeCommand PROVE commands' \in Seq(Short)
  <2> DEFINE n == MMECommandPreparedCount + 1
             c == context[ParseToDecode]
  <2>1. c \in Short  BY <1>0, <1>2 DEF SendMMEDecodeCommand, IInv, LocalsInv, HasContext, Workers
  <2>2. n \in Nat  BY <1>0
  <2> HIDE DEF c, n
  <2>4. [c EXCEPT !.number = n] \in Short  BY <2>1, <2>2, Numbered
  <2>3. commands' = Append(commands, [c EXCEPT !.number = n]) \/ UNCHANGED commands
    BY <1>2 DEF SendMMEDecodeCommand, c, n
  <2> QED BY <1>0, <2>3, <2>4
<1>3. ASSUME CallbackFromMME PROVE commands' \in Seq(Short)
  BY <1>0, <1>3 DEF CallbackFromMME
<1> QED BY <1>0, <1>1, <1>2, <1>3, Changes DEF ChangesCommands

(***************************************************************************)
(* What the steps that change a context make of it.                        *)
(***************************************************************************)
ContextBecomes(t, number, index, decoding, references) ==
  /\ context' \in [Workers -> Short \cup {NULL}]
  /\ \A u \in Workers : u # t => context'[u] = context[u]
  /\ context'[t] \in Short /\ context'[t] # NULL
  /\ context'[t].number = number /\ context'[t].BufferIndex = index
  /\ context'[t].DecodeInProgress = decoding /\ context'[t].References = references

\* The fields of a context, one of them or two of them changed.
LEMMA ContextSet ==
  ASSUME TypeInv, NEW t \in Workers, NEW d \in Short, context' = [context EXCEPT ![t] = d]
  PROVE  ContextBecomes(t, d.number, d.BufferIndex, d.DecodeInProgress, d.References)
BY CodecAssumption DEF ContextBecomes, TypeInv, CommandTypes, Short

\* ReleaseReference takes the first reference off the list of the context.
LEMMA ReferenceEffect ==
  ASSUME IInv, NEW t \in Workers, ReleaseReference(t)
  PROVE  /\ context[t] \in Short /\ context[t].References # <<>>
         /\ ContextBecomes(t, context[t].number, context[t].BufferIndex,
                           context[t].DecodeInProgress, Tail(context[t].References))
<1> DEFINE c == context[t]
           s == Tail(c.References)
           d == [c EXCEPT !.References = s]
<1>1. c \in Short /\ c.References # <<>>
  BY DEF ReleaseReference, IInv, LocalsInv, HasContext, TypeInv, CommandTypes
<1>2. c \in DecodeContext /\ c.References \in Seq(Buffers) /\ Len(c.References) <= MaxReferences
  BY <1>1 DEF Short, DecodeContext
<1>3. s \in Seq(Buffers) /\ Len(s) <= MaxReferences
  BY <1>1, <1>2, HeadTailProperties, CodecAssumption
<1> HIDE DEF s
<1>4. /\ d \in Short /\ d.number = c.number /\ d.BufferIndex = c.BufferIndex
      /\ d.DecodeInProgress = c.DecodeInProgress /\ d.References = s
  BY <1>2, <1>3 DEF Short, DecodeContext
<1>5. context' = [context EXCEPT ![t] = d]
  BY DEF IInv, TypeInv, CommandTypes, ReleaseReference, s
<1> HIDE DEF d, c
<1>6. ContextBecomes(t, d.number, d.BufferIndex, d.DecodeInProgress, d.References)
  BY <1>4, <1>5, ContextSet DEF IInv
<1> QED BY <1>1, <1>4, <1>6 DEF c, s

\* The release of a decode leaves the references of the context.
LEMMA DecodeEffect ==
  ASSUME IInv, NEW t \in Workers, NEW b \in Buffers, ReleasesDecode(t, b)
  PROVE  /\ context[t] \in Short
         /\ ContextBecomes(t, context[t].number, b, FALSE, context[t].References)
<1> DEFINE c == context[t]
           d == [c EXCEPT !.DecodeInProgress = FALSE]
<1>1. c \in Short /\ c.BufferIndex = b
  BY DEF ReleasesDecode, IInv, TypeInv, CommandTypes
<1>2. /\ d \in Short /\ d.number = c.number /\ d.BufferIndex = b
      /\ d.DecodeInProgress = FALSE /\ d.References = c.References
  BY <1>1 DEF Short, DecodeContext
<1>3. context' = [context EXCEPT ![t] = d]
  BY DEF IInv, TypeInv, CommandTypes, ReleasesDecode
<1> HIDE DEF d, c
<1>4. ContextBecomes(t, d.number, d.BufferIndex, d.DecodeInProgress, d.References)
  BY <1>2, <1>3, ContextSet DEF IInv
<1> QED BY <1>1, <1>2, <1>4 DEF c

\* The lists of a picture go into a context that was new.
LEMMA BindEffect ==
  ASSUME IInv, NEW b \in Buffers, NEW isReference \in {0, 1}, NEW list \in Seq(Buffers),
         Bound(b, isReference, list)
  PROVE  /\ context[ParseToDecode] = NewContext
         /\ ContextBecomes(ParseToDecode, 0, b, FALSE, list)
<1> DEFINE c == context[ParseToDecode]
           d == [c EXCEPT !.BufferIndex = b, !.References = list]
<1>1. c = NewContext /\ ParseToDecode \in Workers
  BY DEF Bound, IInv, LocalsInv, HasContext, PictureInv, Workers
<1>2. c \in DecodeContext /\ Len(list) <= MaxReferences
  BY <1>1, NewContextType DEF Bound, Short
<1>3. d \in DecodeContext /\ d.References = list  BY <1>2 DEF DecodeContext
<1>4. d \in Short  BY <1>2, <1>3 DEF Short
<1>5. d.number = 0 /\ d.BufferIndex = b /\ d.DecodeInProgress = FALSE
  BY <1>1 DEF NewContext
<1>6. context' = [context EXCEPT ![ParseToDecode] = d]
  BY <1>1 DEF IInv, TypeInv, CommandTypes, Bound
<1> HIDE DEF d, c
<1>7. ContextBecomes(ParseToDecode, d.number, d.BufferIndex, d.DecodeInProgress, d.References)
  BY <1>1, <1>4, <1>6, ContextSet DEF IInv
<1> QED BY <1>1, <1>3, <1>5, <1>7 DEF c

\* The launch sets DecodeInProgress, which was not set.
LEMMA LaunchEffect ==
  ASSUME IInv, NEW b \in Buffers, NEW seen \in SUBSET Frame, Launched(b, seen)
  PROVE  /\ context[ParseToDecode] \in Short /\ context[ParseToDecode].DecodeInProgress = FALSE
         /\ ContextBecomes(ParseToDecode, context[ParseToDecode].number, b, TRUE,
                           context[ParseToDecode].References)
<1> DEFINE c == context[ParseToDecode]
           d == [c EXCEPT !.DecodeInProgress = TRUE]
<1>0. ParseToDecode \in Workers  BY DEF Workers
<1>1. c \in Short
  BY <1>0 DEF Launched, IInv, LocalsInv, HasContext, TypeInv, CommandTypes
<1>2. c.BufferIndex = b /\ c.DecodeInProgress = FALSE
  BY <1>1 DEF Launched, IInv, CurrentInv, PictureInv, Short, DecodeContext
<1>3. /\ d \in Short /\ d.number = c.number /\ d.BufferIndex = b
      /\ d.DecodeInProgress = TRUE /\ d.References = c.References
  BY <1>1, <1>2 DEF Short, DecodeContext
<1>4. context' = [context EXCEPT ![ParseToDecode] = d]
  BY <1>0 DEF IInv, TypeInv, CommandTypes, Launched
<1> HIDE DEF d, c
<1>5. ContextBecomes(ParseToDecode, d.number, d.BufferIndex, d.DecodeInProgress, d.References)
  BY <1>0, <1>3, <1>4, ContextSet DEF IInv
<1> QED BY <1>1, <1>2, <1>3, <1>5 DEF c

\* The callback takes over the context of the first command, if that has a buffer.
LEMMA CallbackEffect ==
  ASSUME IInv, CallbackFromMME
  PROVE  /\ Head(commands) \in Short /\ context[MME] = NULL
         /\ Head(commands).BufferIndex # NULL =>
              ContextBecomes(MME, Head(commands).number, Head(commands).BufferIndex,
                             Head(commands).DecodeInProgress, Head(commands).References)
         /\ Head(commands).BufferIndex = NULL => UNCHANGED context
<1>1. commands \in Seq(Short) /\ commands # <<>> /\ MME \in Workers
  BY DEF IInv, TypeInv, CommandTypes, CallbackFromMME, Workers
<1>2. Head(commands) \in Short  BY <1>1
<1>3. context[MME] = NULL
  BY <1>1 DEF CallbackFromMME, IInv, LocalsInv, HasContext, Partial
<1>4. CASE Head(commands).BufferIndex = NULL
  BY <1>2, <1>3, <1>4 DEF CallbackFromMME
<1>5. CASE Head(commands).BufferIndex # NULL
  <2>1. context' = [context EXCEPT ![MME] = Head(commands)]  BY <1>5 DEF CallbackFromMME
  <2> QED BY <1>1, <1>2, <1>3, <1>5, <2>1, ContextSet DEF IInv
<1> QED BY <1>4, <1>5

\* Input takes a new context; the process had none.
LEMMA InputEffect ==
  ASSUME IInv, NEW picture \in Pictures, Input(picture)
  PROVE  /\ context[ParseToDecode] = NULL /\ context'[ParseToDecode] = NewContext
         /\ context' \in [Workers -> Short \cup {NULL}] /\ context'[MME] = context[MME]
BY NewContextType
   DEF Input, MayInput, IInv, LocalsInv, HasContext, Partial, TypeInv, CommandTypes, Workers,
       ParseToDecode, MME

\* The contexts keep their type.
LEMMA ContextsType == ASSUME IInv, Steps PROVE context' \in [Workers -> Short \cup {NULL}]
<1> DEFINE Typed == context' \in [Workers -> Short \cup {NULL}]
<1>0. context \in [Workers -> Short \cup {NULL}]  BY DEF IInv, TypeInv, CommandTypes
<1>1. ASSUME NEW t \in Workers, ReleaseReference(t) PROVE Typed
  BY <1>1, ReferenceEffect DEF ContextBecomes
<1>2. ASSUME NEW t \in Workers, ReleaseEnd(t) PROVE Typed
  BY <1>0, <1>2 DEF ReleaseEnd
<1>3. ASSUME NEW t \in Workers, NEW b \in Buffers, ReleasesDecode(t, b) PROVE Typed
  BY <1>3, DecodeEffect DEF ContextBecomes
<1>4. ASSUME NEW picture \in Pictures, Input(picture) PROVE Typed
  BY <1>4, InputEffect
<1>5. ASSUME NEW b \in Buffers, NEW isReference \in {0, 1}, NEW list \in Seq(Buffers),
             Bound(b, isReference, list)
      PROVE  Typed
  BY <1>5, BindEffect DEF ContextBecomes
<1>6. ASSUME NEW b \in Buffers, NEW seen \in SUBSET Frame, Launched(b, seen) PROVE Typed
  BY <1>6, LaunchEffect DEF ContextBecomes
<1>7. ASSUME SendMMEDecodeCommand PROVE Typed
  <2>1. context' = [context EXCEPT ![ParseToDecode] = NULL] \/ UNCHANGED context
    BY <1>7 DEF SendMMEDecodeCommand
  <2> QED BY <1>0, <2>1
<1>8. ASSUME CallbackFromMME PROVE Typed
  BY <1>0, <1>8, CallbackEffect DEF ContextBecomes
<1> QED
  BY <1>0, <1>1, <1>2, <1>3, <1>4, <1>5, <1>6, <1>7, <1>8, Changes DEF ChangesContexts, Releases

\* Types of what the threads have: places, locals, the marker held, the picture.
LEMMA ThreadTypesStep == ASSUME IInv, Steps PROVE ThreadTypes'
<1> USE DEF ThreadTypes, Goto, thread, marker, user
<1>0. /\ ThreadTypes /\ MarkerFrames \subseteq Buffers
      /\ CurrentDecodeBufferIndex \in Buffers \cup {NULL}
  BY DEF IInv, TypeInv, BufferTypes
<1>a. /\ {ParseToDecode, Drain} \subseteq Threads /\ PostManifest \in Threads /\ MME \in Threads
      /\ Workers \subseteq Threads /\ Returns \subseteq Places
  BY DEF Threads, Workers, Returns, Places
<1>b. NoPicture \in [first : BOOLEAN, structure : SUBSET Frame]
      /\ Pictures \subseteq [first : BOOLEAN, structure : SUBSET Frame]
  BY DEF NoPicture, Pictures, Frame
<1>c. \A b \in Buffers : BufferState[b].mapped \in BOOLEAN
  BY DEF IInv, TypeInv, BufferTypes, BufferStates
<1>d. {"idle", "get", "map", "bind", "launch", "send", "sent", "release", "drop",
       "discarded", "unreference", "partial", "seal", "sealed", "marker", "hold", "test",
       "take", "insert", "all", "completed"} \subseteq Places
      /\ {"idle", "get", "all", "discarded", "unreference"} \subseteq Returns
  BY DEF Places, Returns
<1> USE <1>0, <1>a, <1>b, <1>c, <1>d
<1>1. ASSUME NEW t \in Threads, NEW b \in Buffers, Drops(t, b) PROVE ThreadTypes'
  BY <1>1 DEF Drops
<1>19. ASSUME NEW t \in Threads, NEW b \in Buffers, Seals(t, b) PROVE ThreadTypes'
  BY <1>19 DEF Seals
<1>2. ASSUME NEW t \in Threads, PartialTest(t) PROVE ThreadTypes'
  BY <1>2 DEF PartialTest, AfterPartial
<1>3. ASSUME NEW t \in Threads, PartialEnd(t) PROVE ThreadTypes'
  BY <1>3 DEF PartialEnd, AfterPartial
<1>4. ASSUME NEW t \in Workers, NEW b \in Buffers, ReleasesToDiscard(t, b)
      PROVE  ThreadTypes'
  BY <1>4 DEF ReleasesToDiscard, ReleasesDecode, DropThen
<1>5. ASSUME NEW t \in Workers, NEW b \in Buffers, ReleasesToOutput(t, b) \/ ReleasesOne(t, b)
      PROVE  ThreadTypes'
  BY <1>5 DEF ReleasesToOutput, ReleasesOne, ReleasesDecode
<1>6. ASSUME NEW t \in Workers, ReleaseReference(t) PROVE ThreadTypes'
  <2>1. Head(context[t].References) \in Buffers
    BY <1>6 DEF ReleaseReference, IInv, LocalsInv, HasContext, TypeInv, CommandTypes, Short,
                DecodeContext
  <2> QED BY <1>6, <2>1 DEF ReleaseReference, DropThen
<1>7. ASSUME NEW t \in Workers,
             \/ ReleasesNothing(t) \/ ReleaseRelock(t) \/ TestMarkerFramePassOn(t)
             \/ TakeMarkerBuffer(t) \/ \E b \in Buffers : Passes(t, b)
      PROVE  ThreadTypes'
  BY <1>7 DEF ReleasesNothing, ReleaseRelock, TestMarkerFramePassOn, TakeMarkerBuffer, Passes
<1>8. ASSUME NEW t \in Workers, ReleaseEnd(t) PROVE ThreadTypes'
  BY <1>8 DEF ReleaseEnd
<1>9. ASSUME NEW picture \in Pictures, Input(picture) PROVE ThreadTypes'
  BY <1>9 DEF Input
<1>10. ASSUME NEW b \in Buffers, GetDecodeBuffer(b) \/ InputMarkerGet(b) \/ ShowsMarker(b)
       PROVE  ThreadTypes'
  BY <1>10 DEF GetDecodeBuffer, InputMarkerGet, ShowsMarker
<1>11. ASSUME NEW b \in Buffers, ReleaseReferenceFrame(b) \/ ReleaseAll(b) \/ ShowsBuffer(b)
       PROVE  ThreadTypes'
  BY <1>11 DEF ReleaseReferenceFrame, ReleaseAll, ShowsBuffer, DropThen
<1>12. ASSUME NEW b \in Buffers, NEW isReference \in {0, 1}, NEW list \in Seq(Buffers),
              Bound(b, isReference, list)
       PROVE  ThreadTypes'
  BY <1>12 DEF Bound
<1>13. ASSUME NEW b \in Buffers, NEW seen \in SUBSET Frame, Launched(b, seen)
       PROVE  ThreadTypes'
  BY <1>13 DEF Launched
<1>14. ASSUME SendMMEDecodeCommand PROVE ThreadTypes'
  BY <1>14 DEF SendMMEDecodeCommand, Fails
<1>15. ASSUME CallbackFromMME PROVE ThreadTypes'
  BY <1>15 DEF CallbackFromMME
<1>16. ASSUME NEW discard \in BOOLEAN, NEW switch \in BOOLEAN, DrainStream(discard, switch)
       PROVE  ThreadTypes'
  BY <1>16 DEF DrainStream
<1>17. ASSUME \/ SendMMEStreamParameters \/ DropPicture \/ GetDecodeBufferFails \/ Mapped
              \/ InputEnd \/ InputMarkerTake \/ InputMarkerHold
       PROVE  ThreadTypes'
  BY <1>17 DEF SendMMEStreamParameters, DropPicture, GetDecodeBufferFails, Fails, Mapped,
               InputEnd, InputMarkerTake, InputMarkerHold
<1>18. CASE Completed \/ SwitchCodec  BY <1>18 DEF Completed, SwitchCodec
<1>21. CASE HaltAndReset  BY <1>21 DEF HaltAndReset
<1>20. CASE UNCHANGED vars  BY <1>20 DEF vars
<1> HIDE DEF ThreadTypes
<1> QED
  BY <1>1, <1>2, <1>3, <1>4, <1>5, <1>6, <1>7, <1>8, <1>9, <1>10, <1>11, <1>12, <1>13, <1>14,
     <1>15, <1>16, <1>17, <1>18, <1>19, <1>20, <1>21
  DEF Steps

(***************************************************************************)
(* How many entries of a sequence are in a set.                            *)
(***************************************************************************)
Positions(s, T) == {k \in DOMAIN s : s[k] \in T}
HowMany(s, T)   == Cardinality(Positions(s, T))

\* How many elements of a sequence are in T is a number, and 0 when none is.
LEMMA PositionsFinite ==
  ASSUME NEW S, NEW s \in Seq(S), NEW T
  PROVE  /\ IsFiniteSet(Positions(s, T)) /\ HowMany(s, T) \in Nat
         /\ HowMany(s, T) = 0 <=> \A k \in DOMAIN s : s[k] \notin T
<1>1. DOMAIN s = 1 .. Len(s) /\ Len(s) \in Nat  OBVIOUS
<1>2. IsFiniteSet(DOMAIN s)  BY <1>1, FS_Interval
<1>3. IsFiniteSet(Positions(s, T))  BY <1>2, FS_Subset DEF Positions
<1>4. HowMany(s, T) \in Nat  BY <1>3, FS_CardinalityType DEF HowMany
<1>5. HowMany(s, T) = 0 <=> Positions(s, T) = {}  BY <1>3, FS_EmptySet DEF HowMany
<1>6. Positions(s, T) = {} <=> \A k \in DOMAIN s : s[k] \notin T  BY DEF Positions
<1> QED BY <1>3, <1>4, <1>5, <1>6

\* The empty sequence has none.
LEMMA PositionsOfNone == ASSUME NEW T PROVE HowMany(<<>>, T) = 0
<1>1. Positions(<<>>, T) = {}  BY DEF Positions
<1> QED BY <1>1, FS_EmptySet DEF HowMany

\* An element that is appended counts if it is in T.
LEMMA PositionsAppend ==
  ASSUME NEW S, NEW s \in Seq(S), NEW x \in S, NEW T
  PROVE  HowMany(Append(s, x), T) = HowMany(s, T) + (IF x \in T THEN 1 ELSE 0)
<1> DEFINE n == Len(s) + 1
           r == Append(s, x)
<1>1. /\ DOMAIN s = 1 .. Len(s) /\ Len(s) \in Nat /\ DOMAIN r = 1 .. n
      /\ \A k \in 1 .. Len(s) : r[k] = s[k]
      /\ r[n] = x
  BY AppendProperties
<1>2. Positions(r, T) = Positions(s, T) \cup (IF x \in T THEN {n} ELSE {})
  <2> HIDE DEF r
  <2>1. ASSUME NEW k PROVE k \in DOMAIN r <=> k \in 1 .. Len(s) \/ k = n
    BY <1>1
  <2> QED BY <1>1, <2>1 DEF Positions
<1>3. n \notin Positions(s, T)  BY <1>1 DEF Positions
<1>4. IsFiniteSet(Positions(s, T)) /\ HowMany(s, T) \in Nat  BY PositionsFinite
<1>5. CASE x \in T
  <2>1. Positions(r, T) = Positions(s, T) \cup {n}  BY <1>2, <1>5
  <2>2. Cardinality(Positions(r, T)) = Cardinality(Positions(s, T)) + 1
    BY <1>3, <1>4, <2>1, FS_AddElement
  <2> QED BY <1>5, <2>2 DEF HowMany
<1>6. CASE x \notin T
  <2>1. Positions(r, T) = Positions(s, T)  BY <1>2, <1>6
  <2> QED BY <1>4, <1>6, <2>1 DEF HowMany
<1> QED BY <1>5, <1>6

\* So does the first one when it is taken off.
LEMMA PositionsTail ==
  ASSUME NEW S, NEW s \in Seq(S), s # <<>>, NEW T
  PROVE  HowMany(Tail(s), T) = HowMany(s, T) - (IF Head(s) \in T THEN 1 ELSE 0)
<1> DEFINE r == Tail(s)
           P == Positions(s, T)
           Q == Positions(r, T)
           f == [k \in Q |-> k + 1]
<1>1. /\ DOMAIN s = 1 .. Len(s) /\ Len(s) \in Nat /\ 1 \in DOMAIN s /\ Head(s) = s[1]
      /\ DOMAIN r = 1 .. Len(s) - 1
      /\ \A k \in 1 .. Len(s) - 1 : r[k] = s[k + 1]
  BY HeadTailProperties
<1>2. IsFiniteSet(P) /\ IsFiniteSet(Q) /\ Cardinality(P) \in Nat /\ Cardinality(Q) \in Nat
  <2>1. r \in Seq(S)  BY HeadTailProperties
  <2>2. IsFiniteSet(P) /\ HowMany(s, T) \in Nat  BY PositionsFinite
  <2>3. IsFiniteSet(Q) /\ HowMany(r, T) \in Nat  BY <2>1, PositionsFinite
  <2> QED BY <2>2, <2>3 DEF HowMany
<1>3. f \in Bijection(Q, P \ {1})
  <2>1. \A k \in Q : k \in 1 .. Len(s) - 1 /\ r[k] \in T  BY <1>1 DEF Positions
  <2>2. \A k \in Q : k + 1 \in P \ {1}  BY <1>1, <2>1 DEF Positions
  <2>3. \A k \in P \ {1} : k - 1 \in Q /\ f[k - 1] = k
    <3> SUFFICES ASSUME NEW k \in P \ {1} PROVE k - 1 \in Q /\ f[k - 1] = k  OBVIOUS
    <3>1. k \in 2 .. Len(s) /\ s[k] \in T  BY <1>1 DEF Positions
    <3>2. k - 1 \in 1 .. Len(s) - 1 /\ (k - 1) + 1 = k  BY <1>1, <3>1
    <3>3. r[k - 1] = s[k]  BY <1>1, <3>2
    <3>4. k - 1 \in Q  BY <1>1, <3>1, <3>2, <3>3 DEF Positions
    <3> QED BY <3>2, <3>4
  <2>4. \A k, l \in Q : f[k] = f[l] => k = l  BY <2>1
  <2> HIDE DEF P, Q
  <2>5. f \in [Q -> P \ {1}]  BY <2>2
  <2> HIDE DEF f
  <2> QED BY <2>3, <2>4, <2>5 DEF Bijection, Injection, IsInjective, Surjection
<1>4. Cardinality(P \ {1}) = Cardinality(Q)
  BY <1>2, <1>3, FS_Bijection DEF ExistsBijection
<1>5. Cardinality(P \ {1}) = IF 1 \in P THEN Cardinality(P) - 1 ELSE Cardinality(P)
  BY <1>2, FS_RemoveElement
<1>6. 1 \in P <=> Head(s) \in T  BY <1>1 DEF Positions
<1> HIDE DEF P, Q
<1>7. Cardinality(Q) = Cardinality(P) - (IF Head(s) \in T THEN 1 ELSE 0)
  BY <1>2, <1>4, <1>5, <1>6
<1> QED BY <1>7 DEF HowMany, P, Q

(***************************************************************************)
(* How often a buffer is in a sequence, or named in the references of the  *)
(* commands of one.                                                        *)
(***************************************************************************)

\* The occurrences of a buffer in a sequence are the elements in {b}.
LEMMA OccurrencesPositions ==
  ASSUME NEW s, NEW b
  PROVE  Occurrences(b, s) = HowMany(s, {b})
BY DEF Occurrences, HowMany, Positions

\* The lemmas on elements of a set, for one buffer: a number, 0 when the buffer is not

\* there;
LEMMA OccurrencesFinite ==
  ASSUME NEW s \in Seq(Buffers), NEW b
  PROVE  Occurrences(b, s) \in Nat /\ (Occurrences(b, s) = 0 <=> \A k \in DOMAIN s : s[k] # b)
BY PositionsFinite, OccurrencesPositions

\* one more when it is appended;
LEMMA OccurrencesAppend ==
  ASSUME NEW s \in Seq(Buffers), NEW x \in Buffers, NEW b
  PROVE  Occurrences(b, Append(s, x)) = Occurrences(b, s) + (IF x = b THEN 1 ELSE 0)
<1>1. HowMany(Append(s, x), {b}) = HowMany(s, {b}) + (IF x \in {b} THEN 1 ELSE 0)
  BY PositionsAppend
<1>2. x \in {b} <=> x = b  OBVIOUS
<1> QED BY <1>1, <1>2, OccurrencesPositions

\* one less when it was the first.
LEMMA OccurrencesTail ==
  ASSUME NEW s \in Seq(Buffers), s # <<>>, NEW b
  PROVE  Occurrences(b, Tail(s)) = Occurrences(b, s) - (IF Head(s) = b THEN 1 ELSE 0)
BY PositionsTail, OccurrencesPositions

Row(n, c, b) == {n} \X Positions(c.References, {b})
Named(q, b) ==
  {p \in (DOMAIN q) \X (1 .. MaxReferences) :
     p[2] \in DOMAIN q[p[1]].References /\ q[p[1]].References[p[2]] = b}

\* The references to a buffer that the commands hold are those of a sequence of contexts.
LEMMA NamedCommands == ASSUME NEW b PROVE NamedInCommands(b) = Named(commands, b)
BY DEF NamedInCommands, Named

\* A command names a buffer as often as it occurs in its references.
LEMMA RowCount ==
  ASSUME NEW n, NEW c \in Short, NEW b
  PROVE  /\ IsFiniteSet(Row(n, c, b))
         /\ Cardinality(Row(n, c, b)) = Occurrences(b, c.References)
<1> DEFINE P == Positions(c.References, {b})
           f == [k \in P |-> <<n, k>>]
<1>1. IsFiniteSet(P) /\ Cardinality(P) = Occurrences(b, c.References)
  <2>1. c.References \in Seq(Buffers)  BY DEF Short, DecodeContext
  <2> QED BY <2>1, PositionsFinite, OccurrencesPositions DEF HowMany
<1>2. f \in Bijection(P, Row(n, c, b))
  <2>1. f \in [P -> Row(n, c, b)]  BY DEF Row
  <2>2. \A p \in Row(n, c, b) : \E k \in P : f[k] = p  BY DEF Row
  <2>3. \A k, l \in P : f[k] = f[l] => k = l  OBVIOUS
  <2> HIDE DEF P, f
  <2> QED BY <2>1, <2>2, <2>3 DEF Bijection, Injection, IsInjective, Surjection
<1> HIDE DEF P, f
<1> QED BY <1>1, <1>2, FS_Bijection DEF ExistsBijection

\* They are finite in number: commands and references are.
LEMMA NamedFinite ==
  ASSUME NEW q \in Seq(Short), NEW b
  PROVE  /\ IsFiniteSet(Named(q, b)) /\ Cardinality(Named(q, b)) \in Nat
         /\ Cardinality(Named(q, b)) = 0 =>
              \A n \in DOMAIN q : \A k \in DOMAIN q[n].References : q[n].References[k] # b
<1>1. DOMAIN q = 1 .. Len(q) /\ Len(q) \in Nat  OBVIOUS
<1>2. IsFiniteSet(DOMAIN q) /\ IsFiniteSet(1 .. MaxReferences)
  BY <1>1, FS_Interval, CodecAssumption
<1>3. IsFiniteSet((DOMAIN q) \X (1 .. MaxReferences))  BY <1>2, FS_Product
<1>4. IsFiniteSet(Named(q, b))  BY <1>3, FS_Subset DEF Named
<1>5. Cardinality(Named(q, b)) \in Nat  BY <1>4, FS_CardinalityType
<1>6. ASSUME Cardinality(Named(q, b)) = 0, NEW n \in DOMAIN q,
             NEW k \in DOMAIN q[n].References, q[n].References[k] = b
      PROVE  FALSE
  <2>1. Named(q, b) = {}  BY <1>4, <1>6, FS_EmptySet
  <2>2. q[n] \in Short  BY <1>6
  <2>3. k \in 1 .. MaxReferences
    BY <1>6, <2>2, CodecAssumption DEF Short, DecodeContext
  <2>4. <<n, k>> \in Named(q, b)  BY <1>6, <2>3 DEF Named
  <2> QED BY <2>1, <2>4
<1> QED BY <1>4, <1>5, <1>6

\* A command that is sent adds the occurrences in its list,
LEMMA NamedAppend ==
  ASSUME NEW q \in Seq(Short), NEW c \in Short, NEW b
  PROVE  Cardinality(Named(Append(q, c), b)) =
           Cardinality(Named(q, b)) + Occurrences(b, c.References)
<1> DEFINE n == Len(q) + 1
           r == Append(q, c)
<1>1. /\ DOMAIN q = 1 .. Len(q) /\ Len(q) \in Nat /\ DOMAIN r = 1 .. n
      /\ \A k \in 1 .. Len(q) : r[k] = q[k]
      /\ r[n] = c
  BY AppendProperties
<1>2. Positions(c.References, {b}) \subseteq 1 .. MaxReferences
  BY CodecAssumption DEF Positions, Short, DecodeContext
<1>3. Named(r, b) = Named(q, b) \cup Row(n, c, b)
  <2> HIDE DEF r
  <2>1. ASSUME NEW p \in Named(r, b) PROVE p \in Named(q, b) \cup Row(n, c, b)
    <3>1. PICK i \in 1 .. n, k \in 1 .. MaxReferences :
            p = <<i, k>> /\ k \in DOMAIN r[i].References /\ r[i].References[k] = b
      BY <1>1, <2>1 DEF Named
    <3>2. CASE i = n
      BY <1>1, <3>1, <3>2 DEF Row, Positions
    <3>3. CASE i \in 1 .. Len(q)
      BY <1>1, <3>1, <3>3 DEF Named
    <3> QED BY <1>1, <3>1, <3>2, <3>3
  <2>2. ASSUME NEW p \in Named(q, b) PROVE p \in Named(r, b)
    <3>1. PICK i \in 1 .. Len(q), k \in 1 .. MaxReferences :
            p = <<i, k>> /\ k \in DOMAIN q[i].References /\ q[i].References[k] = b
      BY <1>1, <2>2 DEF Named
    <3>2. i \in DOMAIN r /\ r[i] = q[i]  BY <1>1, <3>1
    <3> QED BY <3>1, <3>2 DEF Named
  <2>3. ASSUME NEW p \in Row(n, c, b) PROVE p \in Named(r, b)
    <3>1. PICK k \in Positions(c.References, {b}) : p = <<n, k>>  BY <2>3 DEF Row
    <3>2. n \in DOMAIN r /\ r[n] = c  BY <1>1
    <3> QED BY <1>2, <3>1, <3>2 DEF Named, Positions
  <2> QED BY <2>1, <2>2, <2>3
<1>4. Named(q, b) \cap Row(n, c, b) = {}  BY <1>1 DEF Named, Row
<1>5. IsFiniteSet(Named(q, b)) /\ Cardinality(Named(q, b)) \in Nat  BY NamedFinite
<1>6. IsFiniteSet(Row(n, c, b)) /\ Cardinality(Row(n, c, b)) = Occurrences(b, c.References)
  BY RowCount
<1>7. Cardinality(Row(n, c, b)) \in Nat  BY <1>6, FS_CardinalityType
<1>8. Cardinality(Named(q, b) \cup Row(n, c, b)) =
        Cardinality(Named(q, b)) + Cardinality(Row(n, c, b))
  <2>1. Cardinality(Named(q, b) \cap Row(n, c, b)) = 0  BY <1>4, FS_EmptySet
  <2>2. Cardinality(Named(q, b) \cup Row(n, c, b)) =
          Cardinality(Named(q, b)) + Cardinality(Row(n, c, b))
          - Cardinality(Named(q, b) \cap Row(n, c, b))
    BY <1>5, <1>6, FS_Union
  <2> QED BY <1>5, <1>7, <2>1, <2>2
<1> QED BY <1>3, <1>6, <1>8

\* and one that is taken by the callback takes them away.
LEMMA NamedTail ==
  ASSUME NEW q \in Seq(Short), q # <<>>, NEW b
  PROVE  Cardinality(Named(q, b)) =
           Cardinality(Named(Tail(q), b)) + Occurrences(b, Head(q).References)
<1> DEFINE r == Tail(q)
           N == Named(q, b)
           R == Named(r, b)
           f == [p \in R |-> <<p[1] + 1, p[2]>>]
<1>1. /\ DOMAIN q = 1 .. Len(q) /\ Len(q) \in Nat /\ 1 \in DOMAIN q /\ Head(q) = q[1]
      /\ DOMAIN r = 1 .. Len(q) - 1 /\ r \in Seq(Short) /\ q[1] \in Short
      /\ \A k \in 1 .. Len(q) - 1 : r[k] = q[k + 1]
  BY HeadTailProperties
<1>2. Positions(q[1].References, {b}) \subseteq 1 .. MaxReferences
  BY <1>1, CodecAssumption DEF Positions, Short, DecodeContext
<1>3. /\ IsFiniteSet(N) /\ Cardinality(N) \in Nat /\ IsFiniteSet(R) /\ Cardinality(R) \in Nat
  BY <1>1, NamedFinite
<1>4. Row(1, q[1], b) = {p \in N : p[1] = 1}
  <2>1. ASSUME NEW p \in Row(1, q[1], b) PROVE p \in N /\ p[1] = 1
    <3>1. PICK k \in Positions(q[1].References, {b}) : p = <<1, k>>  BY <2>1 DEF Row
    <3> QED BY <1>1, <1>2, <3>1 DEF Named, Positions
  <2>2. ASSUME NEW p \in N, p[1] = 1 PROVE p \in Row(1, q[1], b)
    BY <2>2 DEF Named, Row, Positions
  <2> HIDE DEF N
  <2> QED BY <2>1, <2>2
<1>5. f \in Bijection(R, N \ Row(1, q[1], b))
  <2>1. ASSUME NEW p \in R PROVE f[p] \in N \ Row(1, q[1], b)
    <3>1. PICK i \in 1 .. Len(q) - 1, k \in 1 .. MaxReferences :
            p = <<i, k>> /\ k \in DOMAIN r[i].References /\ r[i].References[k] = b
      BY <1>1, <2>1 DEF Named
    <3>2. i + 1 \in DOMAIN q /\ q[i + 1] = r[i] /\ i + 1 # 1  BY <1>1, <3>1
    <3>3. f[p] = <<i + 1, k>>  BY <2>1, <3>1
    <3>4. f[p] \in N  BY <3>1, <3>2, <3>3 DEF Named
    <3> QED BY <1>4, <3>2, <3>3, <3>4
  <2>2. ASSUME NEW p \in N \ Row(1, q[1], b) PROVE \E o \in R : f[o] = p
    <3>1. PICK i \in 1 .. Len(q), k \in 1 .. MaxReferences :
            p = <<i, k>> /\ k \in DOMAIN q[i].References /\ q[i].References[k] = b
      BY <1>1, <2>2 DEF Named
    <3>2. i # 1  BY <1>4, <2>2, <3>1
    <3>3. i - 1 \in 1 .. Len(q) - 1 /\ (i - 1) + 1 = i  BY <1>1, <3>1, <3>2
    <3>4. r[i - 1] = q[i]  BY <1>1, <3>3
    <3>5. <<i - 1, k>> \in R  BY <1>1, <3>1, <3>3, <3>4 DEF Named
    <3> QED BY <3>1, <3>3, <3>5
  <2>3. ASSUME NEW o \in R, NEW p \in R, f[o] = f[p] PROVE o = p
    <3>1. PICK i \in 1 .. Len(q) - 1, k \in 1 .. MaxReferences : o = <<i, k>>
      BY <1>1, <2>3 DEF Named
    <3>2. PICK j \in 1 .. Len(q) - 1, l \in 1 .. MaxReferences : p = <<j, l>>
      BY <1>1, <2>3 DEF Named
    <3>3. <<i + 1, k>> = <<j + 1, l>>  BY <2>3, <3>1, <3>2
    <3> QED BY <3>1, <3>2, <3>3
  <2> HIDE DEF R, N
  <2>4. f \in [R -> N \ Row(1, q[1], b)]  BY <2>1
  <2> HIDE DEF f
  <2> QED BY <2>2, <2>3, <2>4 DEF Bijection, Injection, IsInjective, Surjection
<1>6. Cardinality(N \ Row(1, q[1], b)) = Cardinality(R) /\ IsFiniteSet(N \ Row(1, q[1], b))
  BY <1>3, <1>5, FS_Bijection DEF ExistsBijection
<1>7. /\ IsFiniteSet(Row(1, q[1], b))
      /\ Cardinality(Row(1, q[1], b)) = Occurrences(b, q[1].References)
      /\ Cardinality(Row(1, q[1], b)) \in Nat
  BY <1>1, RowCount, FS_CardinalityType
<1> HIDE DEF N, R, r, f
<1>8. N = (N \ Row(1, q[1], b)) \cup Row(1, q[1], b)
      /\ (N \ Row(1, q[1], b)) \cap Row(1, q[1], b) = {}
  BY <1>4
<1>9. Cardinality(N) = Cardinality(N \ Row(1, q[1], b)) + Cardinality(Row(1, q[1], b))
  <2> DEFINE M == N \ Row(1, q[1], b)
  <2>1. Cardinality(M \cap Row(1, q[1], b)) = 0  BY <1>8, FS_EmptySet
  <2>2. Cardinality(M \cup Row(1, q[1], b)) =
          Cardinality(M) + Cardinality(Row(1, q[1], b)) - Cardinality(M \cap Row(1, q[1], b))
    BY <1>6, <1>7, FS_Union
  <2>3. Cardinality(M) \in Nat  BY <1>3, <1>6
  <2> HIDE DEF M
  <2>4. Cardinality(M \cup Row(1, q[1], b)) = Cardinality(M) + Cardinality(Row(1, q[1], b))
    BY <1>7, <2>1, <2>2, <2>3
  <2> QED BY <1>8, <2>4 DEF M
<1> QED BY <1>1, <1>6, <1>7, <1>9 DEF N, R, r

(***************************************************************************)
(* Where the threads are.                                                  *)
(***************************************************************************)
ContextsKept == \A t \in Workers : HasContext(t) <=> context[t] # NULL

\* A worker has a context just at the places where it fills one out or releases it.
LEMMA ContextsKeptStep == ASSUME IInv, Steps PROVE ContextsKept'
<1>0. /\ ContextsKept /\ pc \in [Threads -> Places] /\ ret \in [Threads -> Returns]
      /\ context \in [Workers -> Short \cup {NULL}] /\ Workers \subseteq Threads
      /\ ParseToDecode \in Workers /\ MME \in Workers
      /\ \A t \in Workers : t = ParseToDecode \/ t = MME
  BY DEF IInv, LocalsInv, ContextsKept, TypeInv, ThreadTypes, CommandTypes, Workers, Threads
<1>p. PlacesInv /\ ReturnsInv  BY DEF IInv, LocalsInv
<1> USE DEF HasContext, Partial, Goto
<1>1. ASSUME NEW t \in Threads, NEW b \in Buffers, Drops(t, b) PROVE ContextsKept'
  BY <1>0, <1>1, <1>p DEF Drops, ContextsKept, ReturnsInv, PlacesInv, Threads
<1>2. ASSUME NEW t \in Threads, NEW b \in Buffers, Seals(t, b) PROVE ContextsKept'
  BY <1>0, <1>2 DEF Seals, ContextsKept
<1>3. ASSUME NEW t \in Threads, PartialTest(t) PROVE ContextsKept'
  BY <1>0, <1>3, <1>p
     DEF PartialTest, AfterPartial, ContextsKept, PlacesInv, ReturnsInv, Threads
<1>4. ASSUME NEW t \in Threads, PartialEnd(t) PROVE ContextsKept'
  BY <1>0, <1>4, <1>p
     DEF PartialEnd, AfterPartial, ContextsKept, PlacesInv, ReturnsInv, Threads
<1>5. ASSUME NEW t \in Workers, NEW b \in Buffers,
             ReleasesToDiscard(t, b) \/ ReleasesToOutput(t, b) \/ ReleasesOne(t, b)
      PROVE  ContextsKept'
  <2>1. ReleasesDecode(t, b) /\ context[t] # NULL
    BY <1>5 DEF ReleasesToDiscard, ReleasesToOutput, ReleasesOne, ReleasesDecode
  <2>2. \A u \in Workers : context'[u] # NULL <=> context[u] # NULL
    BY <2>1, DecodeEffect DEF ContextBecomes
  <2>3. HasContext(t)' /\ \A u \in Workers : u # t => (HasContext(u)' <=> HasContext(u))
    BY <1>0, <1>5 DEF ReleasesToDiscard, ReleasesToOutput, ReleasesOne, DropThen
  <2>4. HasContext(t)  BY <1>0, <2>1 DEF ContextsKept
  <2> HIDE DEF HasContext
  <2> QED BY <1>0, <2>2, <2>3, <2>4 DEF ContextsKept
<1>6. ASSUME NEW t \in Workers, ReleasesNothing(t) \/ ReleaseRelock(t) PROVE ContextsKept'
  BY <1>0, <1>6 DEF ReleasesNothing, ReleaseRelock, ContextsKept
<1>7. ASSUME NEW t \in Workers, ReleaseReference(t) PROVE ContextsKept'
  <2>1. \A u \in Workers : context'[u] # NULL <=> context[u] # NULL
    BY <1>0, <1>7, ReferenceEffect DEF ContextBecomes, ReleaseReference, ContextsKept
  <2>2. \A u \in Workers : HasContext(u)' <=> HasContext(u)
    BY <1>0, <1>7 DEF ReleaseReference, DropThen
  <2> HIDE DEF HasContext
  <2> QED BY <1>0, <2>1, <2>2 DEF ContextsKept
<1>8. ASSUME NEW t \in Workers, ReleaseEnd(t) PROVE ContextsKept'
  BY <1>0, <1>8, <1>p DEF ReleaseEnd, ContextsKept, ReturnsInv
<1>9. ASSUME NEW t \in Workers, TestMarkerFramePassOn(t) \/ TakeMarkerBuffer(t)
      PROVE  ContextsKept'
  BY <1>0, <1>9 DEF TestMarkerFramePassOn, TakeMarkerBuffer, ContextsKept
<1>10. ASSUME NEW t \in Workers, NEW b \in Buffers, Passes(t, b) PROVE ContextsKept'
  BY <1>0, <1>10 DEF Passes, ContextsKept
<1>11. ASSUME NEW picture \in Pictures, Input(picture) PROVE ContextsKept'
  <2>1. context'[ParseToDecode] # NULL /\ context'[MME] = context[MME]
    BY <1>11, InputEffect, NewContextType
  <2>2. HasContext(ParseToDecode)' /\ (HasContext(MME)' <=> HasContext(MME))
    BY <1>0, <1>11 DEF Input, ParseToDecode, MME
  <2> HIDE DEF HasContext
  <2> QED BY <1>0, <2>1, <2>2 DEF ContextsKept
<1>12. ASSUME NEW b \in Buffers, GetDecodeBuffer(b) \/ InputMarkerGet(b) PROVE ContextsKept'
  BY <1>0, <1>12 DEF GetDecodeBuffer, InputMarkerGet, ContextsKept
<1>13. ASSUME NEW b \in Buffers, ReleaseReferenceFrame(b) \/ ReleaseAll(b)
       PROVE  ContextsKept'
  BY <1>0, <1>13 DEF ReleaseReferenceFrame, MayInput, ReleaseAll, DropThen, ContextsKept
<1>14. ASSUME NEW b \in Buffers, ShowsMarker(b) \/ ShowsBuffer(b) PROVE ContextsKept'
  BY <1>0, <1>14 DEF ShowsMarker, ShowsBuffer, DropThen, thread, ContextsKept, PostManifest,
     ParseToDecode, MME
<1>15. ASSUME NEW b \in Buffers, NEW isReference \in {0, 1}, NEW list \in Seq(Buffers),
              Bound(b, isReference, list)
       PROVE  ContextsKept'
  <2>1. context'[ParseToDecode] # NULL /\ context'[MME] = context[MME]
    BY <1>0, <1>15, BindEffect DEF ContextBecomes, ParseToDecode, MME
  <2>2. HasContext(ParseToDecode)' /\ (HasContext(MME)' <=> HasContext(MME))
    BY <1>0, <1>15 DEF Bound, ParseToDecode, MME
  <2> HIDE DEF HasContext
  <2> QED BY <1>0, <2>1, <2>2 DEF ContextsKept
<1>16. ASSUME NEW b \in Buffers, NEW seen \in SUBSET Frame, Launched(b, seen)
       PROVE  ContextsKept'
  <2>1. context'[ParseToDecode] # NULL /\ context'[MME] = context[MME]
    BY <1>0, <1>16, LaunchEffect DEF ContextBecomes, ParseToDecode, MME
  <2>2. HasContext(ParseToDecode)' /\ (HasContext(MME)' <=> HasContext(MME))
    BY <1>0, <1>16 DEF Launched, ParseToDecode, MME
  <2> HIDE DEF HasContext
  <2> QED BY <1>0, <2>1, <2>2 DEF ContextsKept
<1>17. CASE SendMMEDecodeCommand
  BY <1>0, <1>17, <1>p DEF SendMMEDecodeCommand, Fails, ContextsKept, ReturnsInv
<1>18. CASE CallbackFromMME
  <2>1. /\ context'[ParseToDecode] = context[ParseToDecode]
        /\ context'[MME] # NULL <=> Head(commands).BufferIndex # NULL
    BY <1>0, <1>18, CallbackEffect DEF ContextBecomes, ParseToDecode, MME
  <2>2. /\ HasContext(ParseToDecode)' <=> HasContext(ParseToDecode)
        /\ HasContext(MME)' <=> Head(commands).BufferIndex # NULL
    BY <1>0, <1>18 DEF CallbackFromMME, ParseToDecode, MME
  <2> HIDE DEF HasContext
  <2> QED BY <1>0, <2>1, <2>2 DEF ContextsKept
<1>19. CASE \/ SendMMEStreamParameters \/ DropPicture \/ GetDecodeBufferFails \/ Mapped
            \/ InputEnd \/ InputMarkerTake \/ InputMarkerHold
  BY <1>0, <1>19, <1>p
     DEF SendMMEStreamParameters, DropPicture, MayInput, GetDecodeBufferFails, Fails, Mapped,
         InputEnd, InputMarkerTake, InputMarkerHold, thread, ContextsKept, ReturnsInv
<1>20. ASSUME NEW discard \in BOOLEAN, NEW switch \in BOOLEAN, DrainStream(discard, switch)
       PROVE  ContextsKept'
  BY <1>0, <1>20 DEF DrainStream, ContextsKept, Drain, ParseToDecode, MME
<1>21. CASE Completed \/ SwitchCodec \/ HaltAndReset
  BY <1>0, <1>21 DEF Completed, SwitchCodec, HaltAndReset, ContextsKept
<1>22. CASE UNCHANGED vars  BY <1>0, <1>22 DEF vars, thread, ContextsKept
<1> HIDE DEF HasContext
<1> QED
  BY <1>1, <1>2, <1>3, <1>4, <1>5, <1>6, <1>7, <1>8, <1>9, <1>10, <1>11, <1>12, <1>13, <1>14,
     <1>15, <1>16, <1>17, <1>18, <1>19, <1>20, <1>21, <1>22
  DEF Steps

(***************************************************************************)
(* The terms of the sum that a reference count is.                         *)
(***************************************************************************)

\* Each term of the sum of ReferencesCounted is a number, and 0 when nothing holds the

\* buffer in that way.
LEMMA TermTypes ==
  ASSUME TypeInv, NEW b \in Buffers
  PROVE  /\ OwnerCount[b] \in Int /\ BufferState[b] \in BufferStates
         /\ Occurrences(b, OutputRing) \in Nat
         /\ Occurrences(b, OutputRing) = 0 <=> \A k \in DOMAIN OutputRing : OutputRing[k] # b
         /\ IsFiniteSet(Dropped(b)) /\ Cardinality(Dropped(b)) \in Nat
         /\ Cardinality(Dropped(b)) = 0 <=> \A t \in Threads : ~(pc[t] = "drop" /\ arg[t] = b)
         /\ BufferState[b].ReferenceFrameCount \in Nat
         /\ NamedIn(ParseToDecode, b) \in Nat /\ NamedIn(MME, b) \in Nat
         /\ Cardinality(NamedInCommands(b)) \in Nat
<1>1. OwnerCount[b] \in Int /\ BufferState[b] \in BufferStates
  BY DEF TypeInv, BufferTypes
<1>2. BufferState[b].ReferenceFrameCount \in Nat  BY <1>1 DEF BufferStates
<1>3. /\ Occurrences(b, OutputRing) \in Nat
      /\ Occurrences(b, OutputRing) = 0 <=> \A k \in DOMAIN OutputRing : OutputRing[k] # b
  BY OccurrencesFinite DEF TypeInv, BufferTypes
<1>4. IsFiniteSet(Threads)
  <2>1. IsFiniteSet({} \cup {ParseToDecode})  BY FS_EmptySet, FS_AddElement
  <2>2. IsFiniteSet({} \cup {ParseToDecode} \cup {MME})  BY <2>1, FS_AddElement
  <2>3. IsFiniteSet({} \cup {ParseToDecode} \cup {MME} \cup {PostManifest})
    BY <2>2, FS_AddElement
  <2>4. IsFiniteSet({} \cup {ParseToDecode} \cup {MME} \cup {PostManifest} \cup {Drain})
    BY <2>3, FS_AddElement
  <2>5. Threads = {} \cup {ParseToDecode} \cup {MME} \cup {PostManifest} \cup {Drain}
    BY DEF Threads
  <2> QED BY <2>4, <2>5
<1>5. IsFiniteSet(Dropped(b))  BY <1>4, FS_Subset DEF Dropped
<1>6. Cardinality(Dropped(b)) \in Nat /\ (Cardinality(Dropped(b)) = 0 <=> Dropped(b) = {})
  BY <1>5, FS_CardinalityType, FS_EmptySet
<1>7. Dropped(b) = {} <=> \A t \in Threads : ~(pc[t] = "drop" /\ arg[t] = b)  BY DEF Dropped
<1>8. ASSUME NEW t \in Workers PROVE NamedIn(t, b) \in Nat
  <2>1. context[t] # NULL => context[t].References \in Seq(Buffers)
    BY DEF TypeInv, CommandTypes, Short, DecodeContext
  <2> QED BY <2>1, OccurrencesFinite DEF NamedIn
<1>9. Cardinality(NamedInCommands(b)) \in Nat
  BY NamedCommands, NamedFinite DEF TypeInv, CommandTypes
<1>10. ParseToDecode \in Workers /\ MME \in Workers  BY DEF Workers
<1> QED BY <1>1, <1>2, <1>3, <1>5, <1>6, <1>7, <1>8, <1>9, <1>10

\* The sum, and that it is the reference count of a buffer that is not a marker.
InCodecCount(b) == IF InCodec(b) THEN 1 ELSE 0
Held(b) ==
  InCodecCount(b) + Occurrences(b, OutputRing) + Cardinality(Dropped(b))
  + BufferState[b].ReferenceFrameCount
  + NamedIn(ParseToDecode, b) + NamedIn(MME, b) + Cardinality(NamedInCommands(b))

\* ReferencesCounted, with the sum by its name.
LEMMA CountIsHeld ==
  ReferencesCounted <=> \A b \in Buffers \ MarkerFrames : OwnerCount[b] = Held(b)
BY DEF ReferencesCounted, Held, InCodecCount

\* What a sum of holds says of its terms when it is 0 or 1.
LEMMA SumOfSeven ==
  ASSUME NEW c \in {0, 1}, NEW r \in Nat, NEW d \in Nat, NEW f \in Nat, NEW p \in Nat,
         NEW m \in Nat, NEW q \in Nat, NEW o \in Int, o = c + r + d + f + p + m + q
  PROVE  /\ o \in Nat
         /\ o = 0 => c = 0 /\ r = 0 /\ d = 0
         /\ o = 1 /\ c = 1 => r = 0 /\ d = 0
         /\ o = 1 /\ d > 0 =>
              c = 0 /\ r = 0 /\ d = 1 /\ f = 0 /\ p = 0 /\ m = 0 /\ q = 0
OBVIOUS

\* What a count of none or of one leaves room for.
LEMMA FewHolds ==
  ASSUME IInv, NEW b \in Buffers \ MarkerFrames
  PROVE  /\ OwnerCount[b] \in Nat
         /\ OwnerCount[b] = 0 => /\ ~InCodec(b) /\ Occurrences(b, OutputRing) = 0
                                 /\ Cardinality(Dropped(b)) = 0
         /\ OwnerCount[b] = 1 /\ InCodec(b) =>
              Occurrences(b, OutputRing) = 0 /\ Cardinality(Dropped(b)) = 0
         /\ OwnerCount[b] = 1 /\ Cardinality(Dropped(b)) > 0 =>
              /\ ~InCodec(b) /\ Occurrences(b, OutputRing) = 0 /\ Cardinality(Dropped(b)) = 1
              /\ BufferState[b].ReferenceFrameCount = 0
              /\ NamedIn(ParseToDecode, b) = 0 /\ NamedIn(MME, b) = 0
              /\ Cardinality(NamedInCommands(b)) = 0
<1> DEFINE o == OwnerCount[b]
           c == InCodecCount(b)
           r == Occurrences(b, OutputRing)
           d == Cardinality(Dropped(b))
           f == BufferState[b].ReferenceFrameCount
           p == NamedIn(ParseToDecode, b)
           m == NamedIn(MME, b)
           q == Cardinality(NamedInCommands(b))
<1>1. o = c + r + d + f + p + m + q  BY CountIsHeld DEF IInv, Held
<1>2. /\ o \in Int /\ r \in Nat /\ d \in Nat /\ f \in Nat /\ p \in Nat /\ m \in Nat /\ q \in Nat
  BY TermTypes DEF IInv
<1>3. c \in {0, 1} /\ (c = 1 <=> InCodec(b))  BY DEF InCodecCount
<1> HIDE DEF o, c, r, d, f, p, m, q
<1>4. /\ o \in Nat
      /\ o = 0 => c = 0 /\ r = 0 /\ d = 0
      /\ o = 1 /\ c = 1 => r = 0 /\ d = 0
      /\ o = 1 /\ d > 0 =>
           c = 0 /\ r = 0 /\ d = 1 /\ f = 0 /\ p = 0 /\ m = 0 /\ q = 0
  BY <1>1, <1>2, <1>3, SumOfSeven
<1>5. InCodec(b) \/ c = 0  BY <1>3
<1> QED BY <1>3, <1>4, <1>5 DEF o, r, d, f, p, m, q

\* A buffer with no reference is unmapped, and nobody is at it.
LEMMA FreeIsNowhere ==
  ASSUME IInv, NEW b \in Buffers, OwnerCount[b] = 0
  PROVE  /\ b \notin MarkerFrames /\ ~BufferState[b].mapped /\ BufferState[b] = Unused
         /\ \A k \in DOMAIN OutputRing : OutputRing[k] # b
         /\ \A t \in Threads : pc[t] = "drop" => arg[t] # b
<1>1. b \notin MarkerFrames  BY DEF IInv, MarkersAlone
<1>2. Occurrences(b, OutputRing) = 0 /\ Cardinality(Dropped(b)) = 0  BY <1>1, FewHolds
<1>3. ~BufferState[b].mapped  BY DEF IInv, BuffersInv, TypeInv, BufferTypes
<1>4. BufferState[b] = Unused  BY <1>3 DEF IInv, BuffersInv
<1> QED BY <1>1, <1>2, <1>3, <1>4, TermTypes DEF IInv

(***************************************************************************)
(* The marker of the drain under way.                                      *)
(***************************************************************************)

\* What a step does to the ring tells whether the marker is in it.
LEMMA MarkerRingSame ==
  ASSUME IInv, UNCHANGED OutputRing, MarkerFrames' \subseteq MarkerFrames
  PROVE  /\ MarkerInRing' => MarkerInRing
         /\ MarkerFrames' = MarkerFrames => (MarkerInRing' <=> MarkerInRing)
         /\ OneMarkerInRing'
BY DEF IInv, MarkersInv, MarkerInRing, OneMarkerInRing

\* A marker that goes into the ring is the only one there.
LEMMA MarkerRingAppend ==
  ASSUME IInv, NEW b \in Buffers, OutputRing' = Append(OutputRing, b), UNCHANGED MarkerFrames,
         b \in MarkerFrames => ~MarkerInRing
  PROVE  (MarkerInRing' <=> MarkerInRing \/ b \in MarkerFrames) /\ OneMarkerInRing'
<1> DEFINE n == Len(OutputRing) + 1
<1>1. /\ DOMAIN OutputRing = 1 .. Len(OutputRing) /\ Len(OutputRing) \in Nat
      /\ DOMAIN OutputRing' = 1 .. n
      /\ \A k \in 1 .. Len(OutputRing) : OutputRing'[k] = OutputRing[k]
      /\ OutputRing'[n] = b
  BY AppendProperties DEF IInv, TypeInv, BufferTypes
<1>2. 1 .. n = (1 .. Len(OutputRing)) \cup {n} /\ n \notin 1 .. Len(OutputRing)  BY <1>1
<1>3. OneMarkerInRing  BY DEF IInv, MarkersInv
<1> HIDE DEF n
<1>4. MarkerInRing' <=> MarkerInRing \/ b \in MarkerFrames
  BY <1>1, <1>2 DEF MarkerInRing
<1>5. OneMarkerInRing'
  BY <1>1, <1>2, <1>3 DEF OneMarkerInRing, MarkerInRing
<1> QED BY <1>4, <1>5

\* The head of the ring takes the only marker with it, if it is one.
LEMMA MarkerRingTail ==
  ASSUME IInv, OutputRing # <<>>, OutputRing' = Tail(OutputRing),
         MarkerFrames' \subseteq MarkerFrames
  PROVE  /\ MarkerInRing' => MarkerInRing
         /\ Head(OutputRing) \in MarkerFrames => MarkerInRing /\ ~MarkerInRing'
         /\ Head(OutputRing) \notin MarkerFrames /\ MarkerFrames' = MarkerFrames =>
              (MarkerInRing' <=> MarkerInRing)
         /\ OneMarkerInRing'
<1>1. OutputRing \in Seq(Buffers)  BY DEF IInv, TypeInv, BufferTypes
<1>2. /\ DOMAIN OutputRing = 1 .. Len(OutputRing) /\ Len(OutputRing) \in Nat
      /\ 1 \in DOMAIN OutputRing /\ Head(OutputRing) = OutputRing[1]
      /\ DOMAIN OutputRing' = 1 .. Len(OutputRing) - 1
      /\ \A k \in 1 .. Len(OutputRing) - 1 : OutputRing'[k] = OutputRing[k + 1]
  BY <1>1, HeadTailProperties
<1>3. \A k \in DOMAIN OutputRing' : k + 1 \in DOMAIN OutputRing /\ k + 1 # 1  BY <1>2
<1>4. \A k \in DOMAIN OutputRing : k = 1 \/ (k - 1 \in DOMAIN OutputRing' /\ (k - 1) + 1 = k)
  BY <1>2
<1>5. \A k, l \in DOMAIN OutputRing' : k + 1 = l + 1 => k = l  BY <1>2
<1>6. OneMarkerInRing  BY DEF IInv, MarkersInv
<1>7. MarkerInRing' => MarkerInRing  BY <1>2, <1>3 DEF MarkerInRing
<1>8. Head(OutputRing) \in MarkerFrames => MarkerInRing /\ ~MarkerInRing'
  BY <1>2, <1>3, <1>6 DEF MarkerInRing, OneMarkerInRing
<1>9. Head(OutputRing) \notin MarkerFrames /\ MarkerFrames' = MarkerFrames /\ MarkerInRing
        => MarkerInRing'
  BY <1>2, <1>4 DEF MarkerInRing
<1>10. OneMarkerInRing'  BY <1>2, <1>3, <1>5, <1>6 DEF OneMarkerInRing
<1> QED BY <1>7, <1>8, <1>9, <1>10

\* Places, returns, modes and counts: while a drain is asked for, the process of the stream

\* is idle and takes in nothing but the marker; during a switch the transformer has nothing
\* left to do; the commands not completed are no more than the counts of prepared and
\* completed commands leave.
LEMMA ControlStep ==
  ASSUME IInv, QuietDrain, Steps
  PROVE  PlacesInv' /\ ReturnsInv' /\ ModesInv' /\ CountsInv' /\ NumberTypes'
<1>0. /\ PlacesInv /\ ReturnsInv /\ ModesInv /\ CountsInv /\ NumberTypes /\ ThreadTypes
      /\ commands \in Seq(Short) /\ Len(commands) \in Nat
  BY DEF IInv, LocalsInv, TypeInv, CommandTypes
<1> USE DEF Threads, ParseToDecode, MME, PostManifest, Drain, Workers, Goto, buffer,
  counts, marker, thread, bounds, user, ThreadTypes, NumberTypes, PlacesInv, ReturnsInv,
  ModesInv, CountsInv, Places, Returns, Partial, WithPicture, InSwitch, Settled,
  CallbackBusy, Busy, Discarding, NoPicture
<1>1. ASSUME NEW t \in Threads, NEW b \in Buffers, Drops(t, b)
      PROVE  PlacesInv' /\ ReturnsInv' /\ ModesInv' /\ CountsInv' /\ NumberTypes'
  BY <1>1, <1>0 DEF Drops
<1>2. ASSUME NEW t \in Threads, PartialTest(t)
      PROVE  PlacesInv' /\ ReturnsInv' /\ ModesInv' /\ CountsInv' /\ NumberTypes'
  BY <1>2, <1>0 DEF PartialTest, AfterPartial
<1>3. ASSUME NEW t \in Threads, NEW b \in Buffers, Seals(t, b)
      PROVE  PlacesInv' /\ ReturnsInv' /\ ModesInv' /\ CountsInv' /\ NumberTypes'
  BY <1>3, <1>0 DEF Seals, Open
<1>4. ASSUME NEW t \in Threads, PartialEnd(t)
      PROVE  PlacesInv' /\ ReturnsInv' /\ ModesInv' /\ CountsInv' /\ NumberTypes'
  BY <1>4, <1>0 DEF PartialEnd, AfterPartial
<1>5. ASSUME NEW t \in Workers, ReleasesNothing(t)
      PROVE  PlacesInv' /\ ReturnsInv' /\ ModesInv' /\ CountsInv' /\ NumberTypes'
  BY <1>5, <1>0 DEF ReleasesNothing
<1>6. ASSUME NEW t \in Workers, NEW b \in Buffers, ReleasesToDiscard(t, b)
      PROVE  PlacesInv' /\ ReturnsInv' /\ ModesInv' /\ CountsInv' /\ NumberTypes'
  BY <1>6, <1>0 DEF ReleasesToDiscard, ReleasesDecode, DropThen, Completes
<1>7. ASSUME NEW t \in Workers, NEW b \in Buffers, ReleasesToOutput(t, b)
      PROVE  PlacesInv' /\ ReturnsInv' /\ ModesInv' /\ CountsInv' /\ NumberTypes'
  BY <1>7, <1>0 DEF ReleasesToOutput, ReleasesDecode, Completes, Invalidate
<1>8. ASSUME NEW t \in Workers, NEW b \in Buffers, ReleasesOne(t, b)
      PROVE  PlacesInv' /\ ReturnsInv' /\ ModesInv' /\ CountsInv' /\ NumberTypes'
  BY <1>8, <1>0 DEF ReleasesOne, ReleasesDecode, Completes, Invalidate
<1>9. ASSUME NEW t \in Workers, ReleaseRelock(t)
      PROVE  PlacesInv' /\ ReturnsInv' /\ ModesInv' /\ CountsInv' /\ NumberTypes'
  BY <1>9, <1>0 DEF ReleaseRelock, Invalidate
<1>10. ASSUME NEW t \in Workers, ReleaseReference(t)
      PROVE  PlacesInv' /\ ReturnsInv' /\ ModesInv' /\ CountsInv' /\ NumberTypes'
  BY <1>10, <1>0 DEF ReleaseReference, DropThen
<1>11. ASSUME NEW t \in Workers, ReleaseEnd(t)
      PROVE  PlacesInv' /\ ReturnsInv' /\ ModesInv' /\ CountsInv' /\ NumberTypes'
  BY <1>11, <1>0 DEF ReleaseEnd
<1>12. ASSUME NEW t \in Workers, TestMarkerFramePassOn(t)
      PROVE  PlacesInv' /\ ReturnsInv' /\ ModesInv' /\ CountsInv' /\ NumberTypes'
  BY <1>12, <1>0 DEF TestMarkerFramePassOn, IInv, MarkersInv, MarkerInRing,
    OneMarkerInRing, AllCompleted, TypeInv, BufferTypes
<1>13. ASSUME NEW t \in Workers, TakeMarkerBuffer(t)
      PROVE  PlacesInv' /\ ReturnsInv' /\ ModesInv' /\ CountsInv' /\ NumberTypes'
  BY <1>13, <1>0 DEF TakeMarkerBuffer
<1>14. ASSUME NEW t \in Workers, NEW b \in Buffers, Passes(t, b)
      PROVE  PlacesInv' /\ ReturnsInv' /\ ModesInv' /\ CountsInv' /\ NumberTypes'
  BY <1>14, <1>0 DEF Passes
<1>15. ASSUME SendMMEStreamParameters
      PROVE  PlacesInv' /\ ReturnsInv' /\ ModesInv' /\ CountsInv' /\ NumberTypes'
  BY <1>15, <1>0 DEF SendMMEStreamParameters, MayInput, NewContext
<1>16. ASSUME DropPicture
      PROVE  PlacesInv' /\ ReturnsInv' /\ ModesInv' /\ CountsInv' /\ NumberTypes'
  BY <1>16, <1>0 DEF DropPicture, MayInput
<1>17. ASSUME NEW picture \in Pictures, Input(picture)
      PROVE  PlacesInv' /\ ReturnsInv' /\ ModesInv' /\ CountsInv' /\ NumberTypes'
  BY <1>17, <1>0 DEF Input, MayInput
<1>18. ASSUME NEW b \in Buffers, GetDecodeBuffer(b)
      PROVE  PlacesInv' /\ ReturnsInv' /\ ModesInv' /\ CountsInv' /\ NumberTypes'
  BY <1>18, <1>0 DEF GetDecodeBuffer
<1>19. ASSUME NEW b \in Buffers, InputMarkerGet(b)
      PROVE  PlacesInv' /\ ReturnsInv' /\ ModesInv' /\ CountsInv' /\ NumberTypes'
  BY <1>19, <1>0 DEF InputMarkerGet
<1>20. ASSUME NEW b \in Buffers, ReleaseReferenceFrame(b)
      PROVE  PlacesInv' /\ ReturnsInv' /\ ModesInv' /\ CountsInv' /\ NumberTypes'
  BY <1>20, <1>0 DEF ReleaseReferenceFrame, MayInput, DropThen
<1>21. ASSUME NEW b \in Buffers, ReleaseAll(b)
      PROVE  PlacesInv' /\ ReturnsInv' /\ ModesInv' /\ CountsInv' /\ NumberTypes'
  BY <1>21, <1>0 DEF ReleaseAll, DropThen
<1>22. ASSUME NEW b \in Buffers, ShowsMarker(b)
      PROVE  PlacesInv' /\ ReturnsInv' /\ ModesInv' /\ CountsInv' /\ NumberTypes'
  BY <1>22, <1>0 DEF ShowsMarker, IInv, MarkersInv, MarkerInRing, OneMarkerInRing,
    AllCompleted, TypeInv, BufferTypes
<1>23. ASSUME NEW b \in Buffers, ShowsBuffer(b)
      PROVE  PlacesInv' /\ ReturnsInv' /\ ModesInv' /\ CountsInv' /\ NumberTypes'
  BY <1>23, <1>0 DEF ShowsBuffer, DropThen
<1>24. ASSUME GetDecodeBufferFails
      PROVE  PlacesInv' /\ ReturnsInv' /\ ModesInv' /\ CountsInv' /\ NumberTypes'
  BY <1>24, <1>0 DEF GetDecodeBufferFails, Fails
<1>25. ASSUME Mapped PROVE PlacesInv' /\ ReturnsInv' /\ ModesInv' /\ CountsInv' /\ NumberTypes'
  BY <1>25, <1>0 DEF Mapped
<1>26. ASSUME NEW b \in Buffers, NEW isReference \in {0, 1}, NEW list \in Seq(Buffers), Bound(b,
              isReference, list)
      PROVE  PlacesInv' /\ ReturnsInv' /\ ModesInv' /\ CountsInv' /\ NumberTypes'
  BY <1>26, <1>0 DEF Bound
<1>27. ASSUME NEW b \in Buffers, NEW seen \in SUBSET Frame, Launched(b, seen)
      PROVE  PlacesInv' /\ ReturnsInv' /\ ModesInv' /\ CountsInv' /\ NumberTypes'
  BY <1>27, <1>0 DEF Launched
<1>28. ASSUME SendMMEDecodeCommand
      PROVE  PlacesInv' /\ ReturnsInv' /\ ModesInv' /\ CountsInv' /\ NumberTypes'
  BY <1>28, <1>0 DEF SendMMEDecodeCommand, Fails
<1>29. ASSUME InputEnd
      PROVE  PlacesInv' /\ ReturnsInv' /\ ModesInv' /\ CountsInv' /\ NumberTypes'
  BY <1>29, <1>0 DEF InputEnd
<1>30. ASSUME InputMarkerTake
      PROVE  PlacesInv' /\ ReturnsInv' /\ ModesInv' /\ CountsInv' /\ NumberTypes'
  BY <1>30, <1>0 DEF InputMarkerTake
<1>31. ASSUME InputMarkerHold
      PROVE  PlacesInv' /\ ReturnsInv' /\ ModesInv' /\ CountsInv' /\ NumberTypes'
  BY <1>31, <1>0 DEF InputMarkerHold
<1>32. ASSUME CallbackFromMME
      PROVE  PlacesInv' /\ ReturnsInv' /\ ModesInv' /\ CountsInv' /\ NumberTypes'
  BY <1>32, <1>0 DEF CallbackFromMME
<1>33. ASSUME Completed
      PROVE  PlacesInv' /\ ReturnsInv' /\ ModesInv' /\ CountsInv' /\ NumberTypes'
  BY <1>33, <1>0 DEF Completed
<1>34. ASSUME NEW discard \in BOOLEAN, NEW switch \in BOOLEAN, DrainStream(discard, switch)
      PROVE  PlacesInv' /\ ReturnsInv' /\ ModesInv' /\ CountsInv' /\ NumberTypes'
  BY <1>34, <1>0 DEF DrainStream, IInv, MarkersInv, MarkerInRing, OneMarkerInRing,
    AllCompleted, TypeInv, BufferTypes
<1>35. ASSUME SwitchCodec
      PROVE  PlacesInv' /\ ReturnsInv' /\ ModesInv' /\ CountsInv' /\ NumberTypes'
  BY <1>35, <1>0 DEF SwitchCodec, IInv, MarkersInv, MarkerInRing, OneMarkerInRing,
    AllCompleted, TypeInv, BufferTypes, TransformerDone, Contains
<1>36. ASSUME HaltAndReset
      PROVE  PlacesInv' /\ ReturnsInv' /\ ModesInv' /\ CountsInv' /\ NumberTypes'
  BY <1>36, <1>0 DEF HaltAndReset
<1>37. ASSUME UNCHANGED vars
      PROVE  PlacesInv' /\ ReturnsInv' /\ ModesInv' /\ CountsInv' /\ NumberTypes'
  BY <1>37, <1>0 DEF vars
<1> HIDE DEF PlacesInv, ReturnsInv, ModesInv, CountsInv, NumberTypes
<1> QED BY <1>1, <1>2, <1>3, <1>4, <1>5, <1>6, <1>7, <1>8, <1>9, <1>10, <1>11, <1>12,
  <1>13, <1>14, <1>15, <1>16, <1>17, <1>18, <1>19, <1>20, <1>21, <1>22, <1>23, <1>24,
  <1>25, <1>26, <1>27, <1>28, <1>29, <1>30, <1>31, <1>32, <1>33, <1>34, <1>35, <1>36, <1>37
  DEF Steps

\* A decode buffer obtained for a marker is not mapped, decoded into or given back as a

\* picture: GetDecodeBuffer finds a free one, and nothing refers to a free buffer.
LEMMA MarkersAloneStep ==
  ASSUME IInv, Steps
  PROVE  MarkersAlone'
<1>0. /\ MarkersAlone /\ ThreadTypes /\ BufferTypes /\ NULL \notin Buffers
  BY CodecAssumption DEF IInv, TypeInv
<1> USE DEF Threads, ParseToDecode, MME, PostManifest, Drain, Workers, Goto, buffer,
  counts, marker, thread, bounds, user, MarkersAlone, ThreadTypes, BufferTypes
<1>1. ASSUME NEW t \in Threads, NEW b \in Buffers, Drops(t, b) PROVE MarkersAlone'
  BY <1>1, <1>0 DEF Drops, Unused
<1>2. ASSUME NEW t \in Threads, PartialTest(t) PROVE MarkersAlone'
  BY <1>2, <1>0 DEF PartialTest, AfterPartial
<1>3. ASSUME NEW t \in Threads, NEW b \in Buffers, Seals(t, b) PROVE MarkersAlone'
  BY <1>3, <1>0 DEF Seals, Open
<1>4. ASSUME NEW t \in Threads, PartialEnd(t) PROVE MarkersAlone'
  BY <1>4, <1>0 DEF PartialEnd, AfterPartial, Returns
<1>5. ASSUME NEW t \in Workers, ReleasesNothing(t) PROVE MarkersAlone'
  BY <1>5, <1>0 DEF ReleasesNothing
<1>6. ASSUME NEW t \in Workers, NEW b \in Buffers, ReleasesToDiscard(t, b) PROVE MarkersAlone'
  BY <1>6, <1>0 DEF ReleasesToDiscard, ReleasesDecode, DropThen, Completes
<1>7. ASSUME NEW t \in Workers, NEW b \in Buffers, ReleasesToOutput(t, b) PROVE MarkersAlone'
  BY <1>7, <1>0 DEF ReleasesToOutput, ReleasesDecode, Completes, Invalidate
<1>8. ASSUME NEW t \in Workers, NEW b \in Buffers, ReleasesOne(t, b) PROVE MarkersAlone'
  BY <1>8, <1>0 DEF ReleasesOne, ReleasesDecode, Completes, Invalidate
<1>9. ASSUME NEW t \in Workers, ReleaseRelock(t) PROVE MarkersAlone'
  BY <1>9, <1>0 DEF ReleaseRelock, Invalidate
<1>10. ASSUME NEW t \in Workers, ReleaseReference(t) PROVE MarkersAlone'
  <2>1. /\ context[t] \in Short /\ context[t] # NULL /\ context[t].References # <<>>
    BY <1>10, ReferenceEffect, CodecAssumption DEF Short
  <2>2. 1 \in DOMAIN context[t].References /\ Head(context[t].References) = context[t].References[1]
    BY <2>1 DEF Short, DecodeContext
  <2>3. BufferState[Head(context[t].References)].mapped
    BY <2>1, <2>2 DEF IInv, BuffersInv
  <2> QED BY <1>0, <1>10, <2>3 DEF ReleaseReference, DropThen
<1>11. ASSUME NEW t \in Workers, ReleaseEnd(t) PROVE MarkersAlone'
  BY <1>11, <1>0 DEF ReleaseEnd
<1>12. ASSUME NEW t \in Workers, TestMarkerFramePassOn(t) PROVE MarkersAlone'
  BY <1>12, <1>0 DEF TestMarkerFramePassOn
<1>13. ASSUME NEW t \in Workers, TakeMarkerBuffer(t) PROVE MarkersAlone'
  BY <1>13, <1>0 DEF TakeMarkerBuffer
<1>14. ASSUME NEW t \in Workers, NEW b \in Buffers, Passes(t, b) PROVE MarkersAlone'
  BY <1>14, <1>0 DEF Passes
<1>15. ASSUME SendMMEStreamParameters PROVE MarkersAlone'
  BY <1>15, <1>0 DEF SendMMEStreamParameters, MayInput, NewContext
<1>16. ASSUME DropPicture PROVE MarkersAlone'
  BY <1>16, <1>0 DEF DropPicture, MayInput
<1>17. ASSUME NEW picture \in Pictures, Input(picture) PROVE MarkersAlone'
  BY <1>17, <1>0 DEF Input, MayInput
<1>18. ASSUME NEW b \in Buffers, GetDecodeBuffer(b) PROVE MarkersAlone'
  BY <1>18, <1>0 DEF GetDecodeBuffer
<1>19. ASSUME NEW b \in Buffers, InputMarkerGet(b) PROVE MarkersAlone'
  <2>1. /\ b \notin MarkerFrames /\ ~BufferState[b].mapped
        /\ \A t \in Threads : pc[t] = "drop" => arg[t] # b
    BY <1>19, FreeIsNowhere DEF InputMarkerGet
  <2>2. Current # b
    BY <1>0, <1>19, <2>1 DEF InputMarkerGet, IInv, OpenInv, ModesInv, Open, LocalsInv, PlacesInv
  <2> QED BY <1>0, <1>19, <2>1, <2>2 DEF InputMarkerGet, Current
<1>20. ASSUME NEW b \in Buffers, ReleaseReferenceFrame(b) PROVE MarkersAlone'
  <2>1. b \notin MarkerFrames
    BY <1>0, <1>20 DEF ReleaseReferenceFrame, IInv, BuffersInv, Unused
  <2>2. \A c \in MarkerFrames : BufferState'[c] = BufferState[c]
    BY <1>0, <1>20, <2>1 DEF ReleaseReferenceFrame
  <2> QED BY <1>0, <1>20, <2>1, <2>2 DEF ReleaseReferenceFrame, DropThen
<1>21. ASSUME NEW b \in Buffers, ReleaseAll(b) PROVE MarkersAlone'
  <2>1. b \notin MarkerFrames
    BY <1>0, <1>21 DEF ReleaseAll, IInv, BuffersInv, Unused
  <2>2. \A c \in MarkerFrames : BufferState'[c] = BufferState[c]
    BY <1>0, <1>21, <2>1 DEF ReleaseAll
  <2> QED BY <1>0, <1>21, <2>1, <2>2 DEF ReleaseAll, DropThen
<1>22. ASSUME NEW b \in Buffers, ShowsMarker(b) PROVE MarkersAlone'
  BY <1>22, <1>0 DEF ShowsMarker
<1>23. ASSUME NEW b \in Buffers, ShowsBuffer(b) PROVE MarkersAlone'
  BY <1>23, <1>0 DEF ShowsBuffer, DropThen
<1>24. ASSUME GetDecodeBufferFails PROVE MarkersAlone'
  BY <1>24, <1>0 DEF GetDecodeBufferFails, Fails
<1>25. ASSUME Mapped PROVE MarkersAlone'
  BY <1>25, <1>0 DEF Mapped, Current
<1>26. ASSUME NEW b \in Buffers, NEW isReference \in {0, 1}, NEW list \in Seq(Buffers), Bound(b,
              isReference, list)
      PROVE  MarkersAlone'
  <2>1. b \notin MarkerFrames  BY <1>0, <1>26 DEF Bound, Current
  <2>2. ASSUME NEW c \in MarkerFrames PROVE Occurrences(c, list) = 0
    <3>1. BufferState[c].ReferenceFrameCount = 0
      BY <1>0, <2>2 DEF IInv, BuffersInv, Unused
    <3>2. \A k \in DOMAIN list : list[k] # c  BY <1>26, <2>1, <3>1 DEF Bound
    <3> QED BY <3>2, OccurrencesFinite
  <2>3. \A c \in MarkerFrames : OwnerCount'[c] = OwnerCount[c]
    BY <1>0, <1>26, <2>1, <2>2 DEF Bound
  <2>4. \A c \in MarkerFrames : BufferState'[c] = BufferState[c]
    BY <1>0, <1>26, <2>1 DEF Bound
  <2>5. UNCHANGED <<MarkerFrames, CurrentDecodeBufferIndex, arg>>
        /\ \A t \in Threads : pc'[t] = "drop" => pc[t] = "drop"
    BY <1>0, <1>26 DEF Bound
  <2> QED BY <1>0, <2>3, <2>4, <2>5
<1>27. ASSUME NEW b \in Buffers, NEW seen \in SUBSET Frame, Launched(b, seen)
      PROVE  MarkersAlone'
  BY <1>27, <1>0 DEF Launched
<1>28. ASSUME SendMMEDecodeCommand PROVE MarkersAlone'
  BY <1>28, <1>0 DEF SendMMEDecodeCommand, Fails
<1>29. ASSUME InputEnd PROVE MarkersAlone'
  BY <1>29, <1>0 DEF InputEnd
<1>30. ASSUME InputMarkerTake PROVE MarkersAlone'
  BY <1>30, <1>0 DEF InputMarkerTake
<1>31. ASSUME InputMarkerHold PROVE MarkersAlone'
  BY <1>31, <1>0 DEF InputMarkerHold
<1>32. ASSUME CallbackFromMME PROVE MarkersAlone'
  BY <1>32, <1>0 DEF CallbackFromMME
<1>33. ASSUME Completed PROVE MarkersAlone'
  BY <1>33, <1>0 DEF Completed
<1>34. ASSUME NEW discard \in BOOLEAN, NEW switch \in BOOLEAN, DrainStream(discard, switch)
      PROVE  MarkersAlone'
  BY <1>34, <1>0 DEF DrainStream
<1>35. ASSUME SwitchCodec PROVE MarkersAlone'
  BY <1>35, <1>0 DEF SwitchCodec
<1>36. ASSUME HaltAndReset PROVE MarkersAlone'
  BY <1>36, <1>0 DEF HaltAndReset, Unused
<1>37. ASSUME UNCHANGED vars PROVE MarkersAlone'
  BY <1>37, <1>0 DEF vars
<1> HIDE DEF MarkersAlone
<1> QED BY <1>1, <1>2, <1>3, <1>4, <1>5, <1>6, <1>7, <1>8, <1>9, <1>10, <1>11, <1>12,
  <1>13, <1>14, <1>15, <1>16, <1>17, <1>18, <1>19, <1>20, <1>21, <1>22, <1>23, <1>24,
  <1>25, <1>26, <1>27, <1>28, <1>29, <1>30, <1>31, <1>32, <1>33, <1>34, <1>35, <1>36, <1>37
  DEF Steps

\* The marker is in one place, from InputMarkerGet to the end of the drain. Whoever holds

\* it for the ring has found all commands completed that were prepared before it, and
\* nothing is prepared until the drain ends; while it is held by the codec, a command is
\* still to be completed or somebody is on the way to the test.
LEMMA MarkersStep ==
  ASSUME IInv, QuietDrain, Steps
  PROVE  MarkersInv'
<1>0. /\ MarkersInv /\ PlacesInv /\ ReturnsInv /\ ModesInv /\ CountsInv
      /\ NumberTypes /\ ThreadTypes
      /\ MarkerFrames \subseteq Buffers /\ Len(commands) \in Nat
  BY DEF IInv, LocalsInv, TypeInv, BufferTypes, CommandTypes
<1> USE DEF Threads, ParseToDecode, MME, PostManifest, Drain, Workers, Goto, buffer,
  counts, marker, thread, bounds, user, ThreadTypes, NumberTypes, MarkersInv, MarkerInRing,
  OneMarkerInRing, AllCompleted, PlacesInv, ReturnsInv, ModesInv, WithPicture, CountsInv,
  Partial
<1>1. ASSUME NEW t \in Threads, NEW b \in Buffers, Drops(t, b) PROVE MarkersInv'
  BY <1>1, <1>0 DEF Drops
<1>2. ASSUME NEW t \in Threads, PartialTest(t) PROVE MarkersInv'
  BY <1>2, <1>0 DEF PartialTest, AfterPartial
<1>3. ASSUME NEW t \in Threads, NEW b \in Buffers, Seals(t, b) PROVE MarkersInv'
  <2>1. b \notin MarkerFrames  BY <1>3 DEF Seals, Open, IInv, MarkersAlone
  <2>2. (MarkerInRing' <=> MarkerInRing) /\ OneMarkerInRing'
    BY <1>3, <2>1, MarkerRingAppend, MarkerRingSame DEF Seals
  <2> HIDE DEF MarkerInRing, OneMarkerInRing
  <2> QED BY <1>0, <1>3, <2>1, <2>2 DEF Seals, Open
<1>4. ASSUME NEW t \in Threads, PartialEnd(t) PROVE MarkersInv'
  BY <1>4, <1>0 DEF PartialEnd, AfterPartial
<1>5. ASSUME NEW t \in Workers, ReleasesNothing(t) PROVE MarkersInv'
  BY <1>5, <1>0 DEF ReleasesNothing
<1>6. ASSUME NEW t \in Workers, NEW b \in Buffers, ReleasesToDiscard(t, b) PROVE MarkersInv'
  BY <1>6, <1>0 DEF ReleasesToDiscard, ReleasesDecode, DropThen, Completes
<1>7. ASSUME NEW t \in Workers, NEW b \in Buffers, ReleasesToOutput(t, b) PROVE MarkersInv'
  <2>1. b \notin MarkerFrames  BY <1>7 DEF ReleasesToOutput, ReleasesDecode, IInv, MarkersAlone
  <2>2. (MarkerInRing' <=> MarkerInRing) /\ OneMarkerInRing'
    BY <1>7, <2>1, MarkerRingAppend DEF ReleasesToOutput, ReleasesDecode
  <2> HIDE DEF MarkerInRing, OneMarkerInRing
  <2> QED BY <1>0, <1>7, <2>1, <2>2 DEF ReleasesToOutput, ReleasesDecode, Invalidate
<1>8. ASSUME NEW t \in Workers, NEW b \in Buffers, ReleasesOne(t, b) PROVE MarkersInv'
  BY <1>8, <1>0 DEF ReleasesOne, ReleasesDecode, Completes, Invalidate
<1>9. ASSUME NEW t \in Workers, ReleaseRelock(t) PROVE MarkersInv'
  BY <1>9, <1>0 DEF ReleaseRelock, Invalidate
<1>10. ASSUME NEW t \in Workers, ReleaseReference(t) PROVE MarkersInv'
  BY <1>10, <1>0 DEF ReleaseReference, DropThen
<1>11. ASSUME NEW t \in Workers, ReleaseEnd(t) PROVE MarkersInv'
  BY <1>11, <1>0 DEF ReleaseEnd
<1>12. ASSUME NEW t \in Workers, TestMarkerFramePassOn(t) PROVE MarkersInv'
  BY <1>12, <1>0 DEF TestMarkerFramePassOn
<1>13. ASSUME NEW t \in Workers, TakeMarkerBuffer(t) PROVE MarkersInv'
  BY <1>13, <1>0 DEF TakeMarkerBuffer
<1>14. ASSUME NEW t \in Workers, NEW b \in Buffers, Passes(t, b) PROVE MarkersInv'
  <2>1. b \in MarkerFrames /\ ~MarkerInRing  BY <1>0, <1>14 DEF Passes
  <2>2. MarkerInRing' /\ OneMarkerInRing'  BY <1>14, <2>1, MarkerRingAppend DEF Passes
  <2> HIDE DEF MarkerInRing, OneMarkerInRing
  <2> QED BY <1>0, <1>14, <2>1, <2>2 DEF Passes
<1>15. ASSUME SendMMEStreamParameters PROVE MarkersInv'
  BY <1>15, <1>0 DEF SendMMEStreamParameters, MayInput, NewContext
<1>16. ASSUME DropPicture PROVE MarkersInv'
  BY <1>16, <1>0 DEF DropPicture, MayInput
<1>17. ASSUME NEW picture \in Pictures, Input(picture) PROVE MarkersInv'
  BY <1>17, <1>0 DEF Input, MayInput
<1>18. ASSUME NEW b \in Buffers, GetDecodeBuffer(b) PROVE MarkersInv'
  BY <1>18, <1>0 DEF GetDecodeBuffer
<1>19. ASSUME NEW b \in Buffers, InputMarkerGet(b) PROVE MarkersInv'
  <2>1. MarkerFrames = {} /\ MarkerFrames' = {b}  BY <1>0, <1>19 DEF InputMarkerGet
  <2>2. ~MarkerInRing'  BY <1>19, <2>1, FreeIsNowhere DEF InputMarkerGet
  <2>3. OneMarkerInRing'  BY <2>2
  <2> HIDE DEF MarkerInRing, OneMarkerInRing
  <2> QED BY <1>0, <1>19, <2>1, <2>2, <2>3 DEF InputMarkerGet
<1>20. ASSUME NEW b \in Buffers, ReleaseReferenceFrame(b) PROVE MarkersInv'
  BY <1>20, <1>0 DEF ReleaseReferenceFrame, MayInput, DropThen
<1>21. ASSUME NEW b \in Buffers, ReleaseAll(b) PROVE MarkersInv'
  BY <1>21, <1>0 DEF ReleaseAll, DropThen
<1>22. ASSUME NEW b \in Buffers, ShowsMarker(b) PROVE MarkersInv'
  <2>1. MarkerInRing /\ ~MarkerInRing' /\ OneMarkerInRing'
    BY <1>22, MarkerRingTail DEF ShowsMarker
  <2>2. MarkerFrames' = {}  BY <1>0, <1>22 DEF ShowsMarker
  <2> HIDE DEF MarkerInRing, OneMarkerInRing
  <2> QED BY <1>0, <1>22, <2>1, <2>2 DEF ShowsMarker
<1>23. ASSUME NEW b \in Buffers, ShowsBuffer(b) PROVE MarkersInv'
  <2>1. b \notin MarkerFrames  BY <1>23 DEF ShowsBuffer, IInv, MarkersAlone
  <2>2. (MarkerInRing' <=> MarkerInRing) /\ OneMarkerInRing'
    BY <1>23, <2>1, MarkerRingTail DEF ShowsBuffer
  <2> HIDE DEF MarkerInRing, OneMarkerInRing
  <2> QED BY <1>0, <1>23, <2>1, <2>2 DEF ShowsBuffer, DropThen
<1>24. ASSUME GetDecodeBufferFails PROVE MarkersInv'
  BY <1>24, <1>0 DEF GetDecodeBufferFails, Fails
<1>25. ASSUME Mapped PROVE MarkersInv'
  BY <1>25, <1>0 DEF Mapped
<1>26. ASSUME NEW b \in Buffers, NEW isReference \in {0, 1}, NEW list \in Seq(Buffers), Bound(b,
              isReference, list)
      PROVE  MarkersInv'
  BY <1>26, <1>0 DEF Bound
<1>27. ASSUME NEW b \in Buffers, NEW seen \in SUBSET Frame, Launched(b, seen) PROVE MarkersInv'
  BY <1>27, <1>0 DEF Launched
<1>28. ASSUME SendMMEDecodeCommand PROVE MarkersInv'
  BY <1>28, <1>0 DEF SendMMEDecodeCommand, Fails
<1>29. ASSUME InputEnd PROVE MarkersInv'
  BY <1>29, <1>0 DEF InputEnd
<1>30. ASSUME InputMarkerTake PROVE MarkersInv'
  BY <1>30, <1>0 DEF InputMarkerTake
<1>31. ASSUME InputMarkerHold PROVE MarkersInv'
  BY <1>31, <1>0 DEF InputMarkerHold
<1>32. ASSUME CallbackFromMME PROVE MarkersInv'
  BY <1>32, <1>0 DEF CallbackFromMME
<1>33. ASSUME Completed PROVE MarkersInv'
  BY <1>33, <1>0 DEF Completed
<1>34. ASSUME NEW discard \in BOOLEAN, NEW switch \in BOOLEAN, DrainStream(discard, switch)
      PROVE  MarkersInv'
  BY <1>34, <1>0 DEF DrainStream
<1>35. ASSUME SwitchCodec PROVE MarkersInv'
  BY <1>35, <1>0 DEF SwitchCodec
<1>36. ASSUME HaltAndReset PROVE MarkersInv'
  BY <1>36, <1>0 DEF HaltAndReset
<1>37. ASSUME UNCHANGED vars PROVE MarkersInv'
  BY <1>37, <1>0 DEF vars
<1> HIDE DEF MarkersInv
<1> QED BY <1>1, <1>2, <1>3, <1>4, <1>5, <1>6, <1>7, <1>8, <1>9, <1>10, <1>11, <1>12,
  <1>13, <1>14, <1>15, <1>16, <1>17, <1>18, <1>19, <1>20, <1>21, <1>22, <1>23, <1>24,
  <1>25, <1>26, <1>27, <1>28, <1>29, <1>30, <1>31, <1>32, <1>33, <1>34, <1>35, <1>36, <1>37
  DEF Steps

-----------------------------------------------------------------------------
(***************************************************************************)
(* The decodes under way into a buffer.                                    *)
(***************************************************************************)
OfBuffer(b) == {c \in Short : c.BufferIndex = b}

\* The commands for a buffer are counted by their positions.
LEMMA CommandsForBuffer ==
  ASSUME NEW b, commands \in Seq(Short)
  PROVE  Cardinality(CommandsFor(b)) = HowMany(commands, OfBuffer(b))
         /\ Cardinality(CommandsFor(b)) \in Nat
<1>1. CommandsFor(b) = Positions(commands, OfBuffer(b))
  BY DEF CommandsFor, Positions, OfBuffer
<1> QED BY <1>1, PositionsFinite DEF HowMany

\* A command that is sent counts for its buffer,
LEMMA CommandsForAppend ==
  ASSUME NEW b, NEW c \in Short, commands \in Seq(Short), commands' = Append(commands, c)
  PROVE  Cardinality(CommandsFor(b))' =
           Cardinality(CommandsFor(b)) + (IF c.BufferIndex = b THEN 1 ELSE 0)
<1>1. commands' \in Seq(Short)  OBVIOUS
<1>2. CommandsFor(b)' = Positions(commands', OfBuffer(b))
  BY <1>1 DEF CommandsFor, Positions, OfBuffer
<1>3. HowMany(commands', OfBuffer(b)) =
        HowMany(commands, OfBuffer(b)) + (IF c \in OfBuffer(b) THEN 1 ELSE 0)
  BY PositionsAppend
<1>4. c \in OfBuffer(b) <=> c.BufferIndex = b  BY DEF OfBuffer
<1> QED BY <1>2, <1>3, <1>4, CommandsForBuffer DEF HowMany

\* until the callback takes it.
LEMMA CommandsForTail ==
  ASSUME NEW b, commands \in Seq(Short), commands # <<>>, commands' = Tail(commands)
  PROVE  Cardinality(CommandsFor(b))' =
           Cardinality(CommandsFor(b)) - (IF Head(commands).BufferIndex = b THEN 1 ELSE 0)
<1>1. commands' \in Seq(Short) /\ Head(commands) \in Short  OBVIOUS
<1>2. CommandsFor(b)' = Positions(commands', OfBuffer(b))
  BY <1>1 DEF CommandsFor, Positions, OfBuffer
<1>3. HowMany(commands', OfBuffer(b)) =
        HowMany(commands, OfBuffer(b)) - (IF Head(commands) \in OfBuffer(b) THEN 1 ELSE 0)
  BY PositionsTail
<1>4. Head(commands) \in OfBuffer(b) <=> Head(commands).BufferIndex = b
  BY <1>1 DEF OfBuffer
<1> QED BY <1>2, <1>3, <1>4, CommandsForBuffer DEF HowMany

Decodes(b) == Cardinality(CommandsFor(b)) + DecodesOf(ParseToDecode, b) + DecodesOf(MME, b)

\* DecodesInProgress is the number of decodes that commands and contexts hold, and so not

\* negative.
LEMMA DecodesType ==
  ASSUME IInv, NEW b \in Buffers
  PROVE  /\ BufferState[b].DecodesInProgress = Decodes(b) /\ Decodes(b) \in Nat
         /\ Cardinality(CommandsFor(b)) \in Nat
         /\ \A t \in Workers : DecodesOf(t, b) \in {0, 1}
<1>1. commands \in Seq(Short)  BY DEF IInv, TypeInv, CommandTypes
<1>2. Cardinality(CommandsFor(b)) \in Nat  BY <1>1, CommandsForBuffer
<1>3. DecodesOf(ParseToDecode, b) \in {0, 1} /\ DecodesOf(MME, b) \in {0, 1}
  BY DEF DecodesOf
<1>4. Decodes(b) \in Nat  BY <1>2, <1>3 DEF Decodes
<1>5. BufferState[b].DecodesInProgress = Decodes(b)
  BY DEF IInv, DecodesInv, Decodes
<1> QED BY <1>2, <1>3, <1>4, <1>5 DEF Workers

\* A buffer whose last reference is dropped has no decode under way.
LEMMA LastDrop ==
  ASSUME IInv, NEW t \in Threads, NEW b \in Buffers, Drops(t, b), OwnerCount[b] = 1
  PROVE  BufferState[b].DecodesInProgress = 0
<1>1. b \in Buffers \ MarkerFrames  BY DEF Drops
<1>2. Cardinality(Dropped(b)) > 0
  <2>1. TypeInv  BY DEF IInv
  <2>2. Cardinality(Dropped(b)) \in Nat /\ Cardinality(Dropped(b)) # 0
    BY <2>1, TermTypes DEF Drops
  <2> QED BY <2>2
<1>3. ~InCodec(b)  BY <1>1, <1>2, FewHolds
<1>4. BufferState[b].DecodesInProgress \in Nat  BY DecodesType
<1>5. CASE BufferState[b].mapped  BY <1>3, <1>4, <1>5 DEF InCodec
<1>6. CASE ~BufferState[b].mapped  BY <1>6 DEF IInv, BuffersInv, Unused
<1> QED BY <1>5, <1>6

\* Only the launch of a decode and the release of its context change a number of

\* decodes: a buffer is mapped, unmapped and reset with none under way.
LEMMA DecodesChange ==
  ASSUME IInv, Steps
  PROVE  \/ \E t \in Workers, b \in Buffers : Releases(t, b)
         \/ \E b \in Buffers, seen \in SUBSET Frame : Launched(b, seen)
         \/ \A b \in Buffers :
              BufferState'[b].DecodesInProgress = BufferState[b].DecodesInProgress
<1> DEFINE Same == \A b \in Buffers :
                     BufferState'[b].DecodesInProgress = BufferState[b].DecodesInProgress
<1>0. BufferState \in [Buffers -> BufferStates]  BY DEF IInv, TypeInv, BufferTypes
<1>1. ASSUME NEW t \in Threads, NEW b \in Buffers, Drops(t, b) PROVE Same
  <2>1. CASE OwnerCount[b] = 1
    BY <1>0, <1>1, <2>1, LastDrop DEF Drops, Unused
  <2>2. CASE OwnerCount[b] # 1  BY <1>0, <1>1, <2>2 DEF Drops
  <2> QED BY <2>1, <2>2
<1>2. ASSUME NEW t \in Threads, NEW b \in Buffers, Seals(t, b) PROVE Same
  BY <1>0, <1>2 DEF Seals, BufferStates
<1>3. ASSUME Mapped PROVE Same
  <2>1. BufferState[Current] = Unused
    BY <1>3 DEF Mapped, IInv, OpenInv, BuffersInv, Current
  <2> QED BY <1>0, <1>3, <2>1 DEF Mapped, Unused
<1>4. ASSUME NEW b \in Buffers, NEW isReference \in {0, 1}, NEW list \in Seq(Buffers),
             Bound(b, isReference, list)
      PROVE  Same
  BY <1>0, <1>4 DEF Bound, BufferStates
<1>5. ASSUME NEW b \in Buffers, ReleaseReferenceFrame(b) \/ ReleaseAll(b) PROVE Same
  BY <1>0, <1>5 DEF ReleaseReferenceFrame, ReleaseAll, BufferStates
<1>6. ASSUME HaltAndReset PROVE Same
  <2>1. commands = <<>> /\ context[MME] = NULL /\ context[ParseToDecode] = NULL
    BY <1>6 DEF HaltAndReset, IInv, ModesInv, InSwitch, Settled, CallbackBusy, LocalsInv,
                PlacesInv, HasContext, Partial, Workers
  <2>2. \A b \in Buffers : Cardinality(CommandsFor(b)) = 0
    BY <2>1, FS_EmptySet DEF CommandsFor
  <2>3. \A b \in Buffers : DecodesOf(ParseToDecode, b) = 0 /\ DecodesOf(MME, b) = 0
    BY <2>1 DEF DecodesOf, Decoding
  <2>4. \A b \in Buffers : BufferState[b].DecodesInProgress = 0
    BY <2>2, <2>3 DEF IInv, DecodesInv
  <2> QED BY <1>6, <2>4 DEF HaltAndReset, Unused
<1>7. \/ Same \/ UNCHANGED BufferState
      \/ \E t \in Workers, b \in Buffers : Releases(t, b)
      \/ \E b \in Buffers, seen \in SUBSET Frame : Launched(b, seen)
  <2> HIDE DEF Same
  <2> QED BY <1>1, <1>2, <1>3, <1>4, <1>5, <1>6, Changes DEF ChangesStates
<1> QED BY <1>7

\* What a step adds to the decodes of a buffer it adds to those that the commands and
\* the contexts hold.
DecodesKept == \A b \in Buffers : BufferState[b].DecodesInProgress = Decodes(b)

\* A step that adds to DecodesInProgress what it adds to the decodes held leaves them

\* equal.
LEMMA DecodesBalance ==
  ASSUME IInv, NEW b \in Buffers,
         NEW n \in Int, NEW q \in Int, NEW p \in Int, NEW m \in Int, n = q + p + m,
         BufferState'[b].DecodesInProgress = BufferState[b].DecodesInProgress + n,
         Cardinality(CommandsFor(b))' = Cardinality(CommandsFor(b)) + q,
         DecodesOf(ParseToDecode, b)' = DecodesOf(ParseToDecode, b) + p,
         DecodesOf(MME, b)' = DecodesOf(MME, b) + m
  PROVE  BufferState'[b].DecodesInProgress = Decodes(b)'
<1> DEFINE Q == Cardinality(CommandsFor(b))
           P == DecodesOf(ParseToDecode, b)
           M == DecodesOf(MME, b)
           N == BufferState[b].DecodesInProgress
<1>1. N = Q + P + M /\ Q \in Int /\ P \in Int /\ M \in Int
  BY DecodesType DEF Decodes, Workers
<1>2. Decodes(b)' = (Q + q) + (P + p) + (M + m)  BY DEF Decodes
<1>3. BufferState'[b].DecodesInProgress = N + n  OBVIOUS
<1> HIDE DEF Q, P, M, N
<1> QED BY <1>1, <1>2, <1>3

\* The release of a decode takes it out of the context and out of the count.
LEMMA DecodesReleased ==
  ASSUME IInv, NEW t \in Workers, NEW b \in Buffers, ReleasesDecode(t, b)
  PROVE  DecodesKept'
<1>1. /\ ContextBecomes(t, context[t].number, b, FALSE, context[t].References)
      /\ UNCHANGED commands /\ Decoding(t) /\ context[t].BufferIndex = b
  BY DecodeEffect DEF ReleasesDecode, Decoding
<1> SUFFICES ASSUME NEW c \in Buffers
             PROVE  BufferState'[c].DecodesInProgress = Decodes(c)'
  BY DEF DecodesKept
<1> DEFINE d(u) == IF u = t /\ c = b THEN 0 - 1 ELSE 0
<1>2. Cardinality(CommandsFor(c))' = Cardinality(CommandsFor(c)) + 0
  BY <1>1, DecodesType DEF CommandsFor
<1>3. ASSUME NEW u \in Workers PROVE DecodesOf(u, c)' = DecodesOf(u, c) + d(u)
  <2>1. CASE u = t  BY <1>1, <2>1 DEF ContextBecomes, DecodesOf, Decoding
  <2>2. CASE u # t  BY <1>1, <2>2 DEF ContextBecomes, DecodesOf, Decoding
  <2> QED BY <2>1, <2>2
<1>4. BufferState'[c].DecodesInProgress =
        BufferState[c].DecodesInProgress + (d(ParseToDecode) + d(MME))
  <2> DEFINE n == BufferState[c].DecodesInProgress
             m == BufferState'[c].DecodesInProgress
             e == IF c = b THEN 0 - 1 ELSE 0
  <2>1. n \in Int /\ m = n + e
    BY DecodesType DEF ReleasesDecode, IInv, TypeInv, BufferTypes, BufferStates
  <2>2. d(ParseToDecode) + d(MME) = e  BY DEF Workers, ParseToDecode, MME
  <2> HIDE DEF n, m, e, d
  <2> QED BY <2>1, <2>2 DEF n, m
<1>5. d(ParseToDecode) \in Int /\ d(MME) \in Int /\ ParseToDecode \in Workers /\ MME \in Workers
  BY DEF Workers
<1>6. /\ DecodesOf(ParseToDecode, c)' = DecodesOf(ParseToDecode, c) + d(ParseToDecode)
      /\ DecodesOf(MME, c)' = DecodesOf(MME, c) + d(MME)
  BY <1>3, <1>5
<1> HIDE DEF d
<1> QED BY <1>2, <1>4, <1>5, <1>6, DecodesBalance

\* The launch adds it to both.
LEMMA DecodesLaunched ==
  ASSUME IInv, NEW b \in Buffers, NEW seen \in SUBSET Frame, Launched(b, seen)
  PROVE  DecodesKept'
<1>1. /\ ContextBecomes(ParseToDecode, context[ParseToDecode].number, b, TRUE,
                        context[ParseToDecode].References)
      /\ UNCHANGED commands /\ ~Decoding(ParseToDecode)
  BY LaunchEffect DEF Launched, Decoding
<1> SUFFICES ASSUME NEW c \in Buffers
             PROVE  BufferState'[c].DecodesInProgress = Decodes(c)'
  BY DEF DecodesKept
<1> DEFINE d == IF c = b THEN 1 ELSE 0
<1>2. Cardinality(CommandsFor(c))' = Cardinality(CommandsFor(c)) + 0
  BY <1>1, DecodesType DEF CommandsFor
<1>3. DecodesOf(ParseToDecode, c)' = DecodesOf(ParseToDecode, c) + d
  BY <1>1 DEF ContextBecomes, DecodesOf, Decoding, Workers
<1>4. DecodesOf(MME, c)' = DecodesOf(MME, c) + 0
  BY <1>1 DEF ContextBecomes, DecodesOf, Decoding, Workers, ParseToDecode, MME
<1>5. BufferState'[c].DecodesInProgress = BufferState[c].DecodesInProgress + d
  BY DecodesType DEF Launched, IInv, TypeInv, BufferTypes, BufferStates
<1>6. d \in Int /\ d = 0 + d + 0  OBVIOUS
<1> HIDE DEF d
<1> QED BY <1>2, <1>3, <1>4, <1>5, <1>6, DecodesBalance

\* A decode goes from the process into a command, and from there to the callback.
LEMMA DecodesSent ==
  ASSUME IInv, SendMMEDecodeCommand, UNCHANGED BufferState
  PROVE  DecodesKept'
<1> DEFINE c == context[ParseToDecode]
           n == MMECommandPreparedCount + 1
<1>1. /\ c \in Short /\ Decoding(ParseToDecode) /\ c.BufferIndex # NULL
      /\ commands \in Seq(Short) /\ n \in Nat /\ ParseToDecode \in Workers
      /\ context \in [Workers -> Short \cup {NULL}]
  BY DEF SendMMEDecodeCommand, IInv, LocalsInv, HasContext, Workers, TypeInv, CommandTypes,
     PictureInv, Decoding, DecodesInv, NumberTypes
<1> SUFFICES ASSUME NEW b \in Buffers
             PROVE  BufferState'[b].DecodesInProgress = Decodes(b)'
  BY DEF DecodesKept
<1> DEFINE d == IF c.BufferIndex = b THEN 1 ELSE 0
<1>2. CASE UNCHANGED <<commands, context>>
  <2>1. Decodes(b)' = Decodes(b)
    BY <1>2 DEF Decodes, CommandsFor, DecodesOf, Decoding
  <2> QED BY <2>1, DecodesType
<1>3. CASE /\ commands' = Append(commands, [c EXCEPT !.number = n])
           /\ context' = [context EXCEPT ![ParseToDecode] = NULL]
  <2> DEFINE e == 0 - d
             z == 0
  <2>1. [c EXCEPT !.number = n] \in Short /\ [c EXCEPT !.number = n].BufferIndex = c.BufferIndex
    BY <1>1, Numbered DEF Short, DecodeContext
  <2>2. Cardinality(CommandsFor(b))' = Cardinality(CommandsFor(b)) + d
    BY <1>1, <1>3, <2>1, CommandsForAppend
  <2>3. DecodesOf(ParseToDecode, b) = d /\ DecodesOf(ParseToDecode, b)' = 0
    BY <1>1, <1>3 DEF DecodesOf, Decoding
  <2>4. DecodesOf(MME, b)' = DecodesOf(MME, b) + z
    BY <1>1, <1>3 DEF DecodesOf, Decoding, Workers, ParseToDecode, MME
  <2>5. d \in Int /\ e \in Int /\ z \in Int /\ z = d + e + z /\ 0 = d + e  OBVIOUS
  <2>6. BufferState'[b].DecodesInProgress = BufferState[b].DecodesInProgress + z
    BY DecodesType
  <2>7. DecodesOf(ParseToDecode, b)' = DecodesOf(ParseToDecode, b) + e
    <3> HIDE DEF d, e
    <3> QED BY <2>3, <2>5
  <2> HIDE DEF c, n, d, e, z
  <2> QED BY <2>2, <2>4, <2>5, <2>6, <2>7, DecodesBalance
<1> QED BY <1>2, <1>3 DEF SendMMEDecodeCommand

\* The callback moves a decode from the command to its context.
LEMMA DecodesCalledBack ==
  ASSUME IInv, CallbackFromMME, UNCHANGED BufferState
  PROVE  DecodesKept'
<1> DEFINE c == Head(commands)
<1>1. /\ c \in Short /\ commands \in Seq(Short) /\ commands # <<>> /\ commands' = Tail(commands)
      /\ 1 \in DOMAIN commands /\ c = commands[1]
  BY CallbackEffect DEF CallbackFromMME, IInv, TypeInv, CommandTypes
<1> SUFFICES ASSUME NEW b \in Buffers
             PROVE  BufferState'[b].DecodesInProgress = Decodes(b)'
  BY DEF DecodesKept
<1> DEFINE d == IF c.BufferIndex = b THEN 1 ELSE 0
<1> DEFINE e == 0 - d
           z == 0
<1>2. Cardinality(CommandsFor(b))' = Cardinality(CommandsFor(b)) + e
  BY <1>1, CommandsForTail, DecodesType
<1>3. DecodesOf(ParseToDecode, b)' = DecodesOf(ParseToDecode, b) + z
  BY CallbackEffect DEF ContextBecomes, DecodesOf, Decoding, Workers, ParseToDecode, MME
<1>4. DecodesOf(MME, b)' = DecodesOf(MME, b) + d
  <2>1. context[MME] = NULL /\ DecodesOf(MME, b) = 0
    BY CallbackEffect DEF DecodesOf, Decoding
  <2>2. CASE c.BufferIndex = NULL
    BY <2>1, <2>2, CallbackEffect, CodecAssumption DEF DecodesOf, Decoding
  <2>3. CASE c.BufferIndex # NULL
    <3>1. c.DecodeInProgress  BY <1>1, <2>3 DEF IInv, DecodesInv
    <3>2. /\ context'[MME] # NULL /\ context'[MME].BufferIndex = c.BufferIndex
          /\ context'[MME].DecodeInProgress
      BY <2>3, <3>1, CallbackEffect DEF ContextBecomes
    <3> QED BY <2>1, <3>2 DEF DecodesOf, Decoding
  <2> QED BY <2>2, <2>3
<1>5. BufferState'[b].DecodesInProgress = BufferState[b].DecodesInProgress + z
  BY DecodesType
<1>6. d \in Int /\ e \in Int /\ z \in Int /\ z = e + z + d  OBVIOUS
<1> HIDE DEF c, d, e, z
<1> QED BY <1>2, <1>3, <1>4, <1>5, <1>6, DecodesBalance

\* DecodesInProgress counts what it says, whichever thread goes.
LEMMA DecodesStep == ASSUME IInv, Steps PROVE DecodesKept'
<1>1. CASE \E t \in Workers, b \in Buffers : ReleasesDecode(t, b)
  BY <1>1, DecodesReleased
<1>2. CASE \E b \in Buffers, seen \in SUBSET Frame : Launched(b, seen)
  BY <1>2, DecodesLaunched
<1>3. CASE /\ ~ \E t \in Workers, b \in Buffers : ReleasesDecode(t, b)
           /\ ~ \E b \in Buffers, seen \in SUBSET Frame : Launched(b, seen)
  <2>0. \A b \in Buffers : BufferState'[b].DecodesInProgress = BufferState[b].DecodesInProgress
    BY <1>3, DecodesChange DEF Releases
  <2>1. CASE SendMMEDecodeCommand
    BY <2>1, DecodesSent DEF SendMMEDecodeCommand, buffer
  <2>2. CASE CallbackFromMME
    BY <2>2, DecodesCalledBack DEF CallbackFromMME, buffer
  <2>3. ASSUME ~SendMMEDecodeCommand, ~CallbackFromMME, NEW b \in Buffers
        PROVE  Decodes(b)' = Decodes(b)
    <3>1. \A u \in Workers : DecodesOf(u, b)' = DecodesOf(u, b)
      <4>1. ASSUME NEW t \in Workers, ReleaseReference(t)
            PROVE  \A u \in Workers : DecodesOf(u, b)' = DecodesOf(u, b)
        BY <4>1, ReferenceEffect, CodecAssumption DEF ContextBecomes, DecodesOf, Decoding, Short
      <4>2. ASSUME NEW t \in Workers, ReleaseEnd(t)
            PROVE  \A u \in Workers : DecodesOf(u, b)' = DecodesOf(u, b)
        BY <4>2 DEF ReleaseEnd, DecodesOf, Decoding, IInv, DecodesInv, TypeInv, CommandTypes
      <4>3. ASSUME NEW picture \in Pictures, Input(picture)
            PROVE  \A u \in Workers : DecodesOf(u, b)' = DecodesOf(u, b)
        BY <4>3, InputEffect DEF DecodesOf, Decoding, NewContext, Workers
      <4>4. ASSUME NEW c \in Buffers, NEW isReference \in {0, 1}, NEW list \in Seq(Buffers),
                   Bound(c, isReference, list)
            PROVE  \A u \in Workers : DecodesOf(u, b)' = DecodesOf(u, b)
        <5>0. /\ context[ParseToDecode] = NewContext
              /\ ContextBecomes(ParseToDecode, 0, c, FALSE, list)
          BY <4>4, BindEffect
        <5>1. ~Decoding(ParseToDecode) /\ ~Decoding(ParseToDecode)'
          BY <5>0 DEF ContextBecomes, Decoding, NewContext
        <5>2. \A u \in Workers : u # ParseToDecode => context'[u] = context[u]
          BY <5>0 DEF ContextBecomes
        <5> QED BY <5>1, <5>2 DEF DecodesOf, Decoding
      <4>5. UNCHANGED context => \A u \in Workers : DecodesOf(u, b)' = DecodesOf(u, b)
        BY DEF DecodesOf, Decoding
      <4> QED
        BY <1>3, <2>3, <4>1, <4>2, <4>3, <4>4, <4>5, Changes DEF ChangesContexts, Releases
    <3>2. Cardinality(CommandsFor(b))' = Cardinality(CommandsFor(b))
      <4>1. CASE SendMMEStreamParameters
        <5> DEFINE c == [NewContext EXCEPT !.number = MMECommandPreparedCount + 1]
        <5>1. c \in Short /\ c.BufferIndex = NULL
          <6>1. MMECommandPreparedCount + 1 \in Nat  BY DEF IInv, TypeInv, NumberTypes
          <6> QED BY <6>1, NewContextType, Numbered DEF NewContext
        <5>2. commands \in Seq(Short) /\ commands' = Append(commands, c)
          BY <4>1 DEF SendMMEStreamParameters, IInv, TypeInv, CommandTypes
        <5> HIDE DEF c
        <5> QED BY <5>1, <5>2, CommandsForAppend, CodecAssumption, DecodesType
      <4>2. CASE UNCHANGED commands  BY <4>2 DEF CommandsFor
      <4> QED BY <2>3, <4>1, <4>2, Changes DEF ChangesCommands
    <3> QED BY <3>1, <3>2 DEF Decodes, Workers
  <2>4. DecodesKept  BY DecodesType DEF DecodesKept
  <2> QED BY <2>0, <2>1, <2>2, <2>3, <2>4 DEF DecodesKept
<1> QED BY <1>1, <1>2, <1>3

\* The rest of DecodesInv: a command with a buffer holds a decode, and so does a
\* context only on its way to a command, or to its release.
CommandsDecode ==
  \A k \in DOMAIN commands :
    commands[k].BufferIndex # NULL => commands[k].DecodeInProgress

\* A command with a buffer holds a decode, since it is sent after the launch.
LEMMA CommandsDecodeStep == ASSUME IInv, Steps PROVE CommandsDecode'
<1>1. /\ CommandsDecode /\ commands \in Seq(Short) /\ MMECommandPreparedCount \in Nat
  BY DEF IInv, DecodesInv, CommandsDecode, TypeInv, CommandTypes, NumberTypes
<1>2. ASSUME NEW c, c.BufferIndex # NULL => c.DecodeInProgress, commands' = Append(commands, c)
      PROVE  CommandsDecode'
  <2>1. \A k \in DOMAIN commands' :
          (k \in DOMAIN commands /\ commands'[k] = commands[k]) \/ commands'[k] = c
    <3>1. commands \in Seq(Short \cup {c}) /\ c \in Short \cup {c}
      <4>1. commands \in [1 .. Len(commands) -> Short \cup {c}] /\ Len(commands) \in Nat
        BY <1>1
      <4> QED BY <4>1
    <3> QED BY <1>2, <3>1, AppendProperties
  <2> QED BY <1>1, <1>2, <2>1 DEF CommandsDecode
<1>3. CASE SendMMEStreamParameters
  BY <1>2, <1>3 DEF SendMMEStreamParameters, NewContext
<1>4. CASE SendMMEDecodeCommand
  <2> DEFINE c == [context[ParseToDecode] EXCEPT !.number = MMECommandPreparedCount']
  <2>1. context[ParseToDecode] \in Short /\ context[ParseToDecode].DecodeInProgress
    BY <1>4 DEF SendMMEDecodeCommand, IInv, LocalsInv, HasContext, Workers, TypeInv,
                CommandTypes, PictureInv
  <2>2. c.DecodeInProgress  BY <2>1 DEF Short, DecodeContext
  <2>3. commands' = Append(commands, c) \/ UNCHANGED commands
    BY <1>4 DEF SendMMEDecodeCommand
  <2> HIDE DEF c
  <2> QED BY <1>1, <1>2, <2>2, <2>3 DEF CommandsDecode
<1>5. CASE CallbackFromMME
  <2>1. commands # <<>> /\ commands' = Tail(commands)  BY <1>5 DEF CallbackFromMME
  <2>2. \A k \in DOMAIN commands' : k + 1 \in DOMAIN commands /\ commands'[k] = commands[k + 1]
    BY <1>1, <2>1
  <2> QED BY <1>1, <2>2 DEF CommandsDecode
<1> QED BY <1>1, <1>3, <1>4, <1>5, Changes DEF ChangesCommands, CommandsDecode

Decoders ==
  /\ \A t \in Workers : Decoding(t) =>
       context[t].BufferIndex # NULL /\ pc[t] \in {"send", "release"}
  /\ pc[MME] = "release" => context[MME].DecodeInProgress

\* A context holds a decode on the way from the launch to the command, and from the

\* callback to the release.
LEMMA DecodersStep ==
  ASSUME IInv, Steps
  PROVE  Decoders'
<1>0. /\ Decoders /\ PlacesInv /\ ReturnsInv /\ ThreadTypes
      /\ context \in [Workers -> Short \cup {NULL}]
  BY DEF IInv, DecodesInv, Decoders, LocalsInv, TypeInv, CommandTypes
<1> USE DEF Threads, ParseToDecode, MME, PostManifest, Drain, Workers, Goto, buffer,
  counts, marker, thread, bounds, user, ThreadTypes, PlacesInv, ReturnsInv, Decoders,
  Decoding, Partial
<1>1. ASSUME NEW t \in Threads, NEW b \in Buffers, Drops(t, b) PROVE Decoders'
  BY <1>1, <1>0 DEF Drops
<1>2. ASSUME NEW t \in Threads, PartialTest(t) PROVE Decoders'
  BY <1>2, <1>0 DEF PartialTest, AfterPartial
<1>3. ASSUME NEW t \in Threads, NEW b \in Buffers, Seals(t, b) PROVE Decoders'
  BY <1>3, <1>0 DEF Seals, Open
<1>4. ASSUME NEW t \in Threads, PartialEnd(t) PROVE Decoders'
  BY <1>4, <1>0 DEF PartialEnd, AfterPartial
<1>5. ASSUME NEW t \in Workers, ReleasesNothing(t) PROVE Decoders'
  BY <1>5, <1>0 DEF ReleasesNothing
<1>6. ASSUME NEW t \in Workers, NEW b \in Buffers, ReleasesToDiscard(t, b) PROVE Decoders'
  <2>1. ~Decoding(t)' /\ \A u \in Workers : u # t => context'[u] = context[u]
    BY DecodeEffect, <1>6 DEF ReleasesToDiscard, ContextBecomes, Decoding
  <2> QED BY <1>0, <1>6, <2>1 DEF ReleasesToDiscard, ReleasesDecode, DropThen
<1>7. ASSUME NEW t \in Workers, NEW b \in Buffers, ReleasesToOutput(t, b) PROVE Decoders'
  <2>1. ~Decoding(t)' /\ \A u \in Workers : u # t => context'[u] = context[u]
    BY DecodeEffect, <1>7 DEF ReleasesToOutput, ContextBecomes, Decoding
  <2> QED BY <1>0, <1>7, <2>1 DEF ReleasesToOutput, ReleasesDecode
<1>8. ASSUME NEW t \in Workers, NEW b \in Buffers, ReleasesOne(t, b) PROVE Decoders'
  <2>1. ~Decoding(t)' /\ \A u \in Workers : u # t => context'[u] = context[u]
    BY DecodeEffect, <1>8 DEF ReleasesOne, ContextBecomes, Decoding
  <2> QED BY <1>0, <1>8, <2>1 DEF ReleasesOne, ReleasesDecode
<1>9. ASSUME NEW t \in Workers, ReleaseRelock(t) PROVE Decoders'
  BY <1>9, <1>0 DEF ReleaseRelock, Invalidate
<1>10. ASSUME NEW t \in Workers, ReleaseReference(t) PROVE Decoders'
  <2>1. /\ Decoding(t)' => Decoding(t)
        /\ \A u \in Workers : u # t => context'[u] = context[u]
    BY ReferenceEffect, <1>10, CodecAssumption DEF ContextBecomes, Decoding, Short
  <2> QED BY <1>0, <1>10, <2>1 DEF ReleaseReference, DropThen
<1>11. ASSUME NEW t \in Workers, ReleaseEnd(t) PROVE Decoders'
  BY <1>11, <1>0 DEF ReleaseEnd
<1>12. ASSUME NEW t \in Workers, TestMarkerFramePassOn(t) PROVE Decoders'
  BY <1>12, <1>0 DEF TestMarkerFramePassOn
<1>13. ASSUME NEW t \in Workers, TakeMarkerBuffer(t) PROVE Decoders'
  BY <1>13, <1>0 DEF TakeMarkerBuffer
<1>14. ASSUME NEW t \in Workers, NEW b \in Buffers, Passes(t, b) PROVE Decoders'
  BY <1>14, <1>0 DEF Passes
<1>15. ASSUME SendMMEStreamParameters PROVE Decoders'
  BY <1>15, <1>0 DEF SendMMEStreamParameters, MayInput, NewContext
<1>16. ASSUME DropPicture PROVE Decoders'
  BY <1>16, <1>0 DEF DropPicture, MayInput
<1>17. ASSUME NEW picture \in Pictures, Input(picture) PROVE Decoders'
  <2>1. ~Decoding(ParseToDecode)' /\ context'[MME] = context[MME]
    BY InputEffect, <1>17 DEF NewContext, Decoding
  <2> QED BY <1>0, <1>17, <2>1 DEF Input
<1>18. ASSUME NEW b \in Buffers, GetDecodeBuffer(b) PROVE Decoders'
  BY <1>18, <1>0 DEF GetDecodeBuffer
<1>19. ASSUME NEW b \in Buffers, InputMarkerGet(b) PROVE Decoders'
  BY <1>19, <1>0 DEF InputMarkerGet
<1>20. ASSUME NEW b \in Buffers, ReleaseReferenceFrame(b) PROVE Decoders'
  BY <1>20, <1>0 DEF ReleaseReferenceFrame, MayInput, DropThen
<1>21. ASSUME NEW b \in Buffers, ReleaseAll(b) PROVE Decoders'
  BY <1>21, <1>0 DEF ReleaseAll, DropThen
<1>22. ASSUME NEW b \in Buffers, ShowsMarker(b) PROVE Decoders'
  BY <1>22, <1>0 DEF ShowsMarker
<1>23. ASSUME NEW b \in Buffers, ShowsBuffer(b) PROVE Decoders'
  BY <1>23, <1>0 DEF ShowsBuffer, DropThen
<1>24. ASSUME GetDecodeBufferFails PROVE Decoders'
  BY <1>24, <1>0 DEF GetDecodeBufferFails, Fails
<1>25. ASSUME Mapped PROVE Decoders'
  BY <1>25, <1>0 DEF Mapped
<1>26. ASSUME NEW b \in Buffers, NEW isReference \in {0, 1}, NEW list \in Seq(Buffers), Bound(b,
              isReference, list)
      PROVE  Decoders'
  <2>1. ContextBecomes(ParseToDecode, 0, b, FALSE, list)  BY BindEffect, <1>26
  <2>2. ~Decoding(ParseToDecode)' /\ context'[MME] = context[MME]
    BY <2>1 DEF ContextBecomes, Decoding
  <2> QED BY <1>0, <1>26, <2>2 DEF Bound
<1>27. ASSUME NEW b \in Buffers, NEW seen \in SUBSET Frame, Launched(b, seen) PROVE Decoders'
  <2>1. /\ context'[ParseToDecode].BufferIndex = b /\ b # NULL
        /\ context'[MME] = context[MME]
    BY LaunchEffect, <1>27, CodecAssumption DEF ContextBecomes
  <2> QED BY <1>0, <1>27, <2>1 DEF Launched
<1>28. ASSUME SendMMEDecodeCommand PROVE Decoders'
  BY <1>28, <1>0 DEF SendMMEDecodeCommand, Fails
<1>29. ASSUME InputEnd PROVE Decoders'
  BY <1>29, <1>0 DEF InputEnd
<1>30. ASSUME InputMarkerTake PROVE Decoders'
  BY <1>30, <1>0 DEF InputMarkerTake
<1>31. ASSUME InputMarkerHold PROVE Decoders'
  BY <1>31, <1>0 DEF InputMarkerHold
<1>32. ASSUME CallbackFromMME PROVE Decoders'
  <2>1. commands \in Seq(Short) /\ commands # <<>>
    BY <1>32 DEF CallbackFromMME, IInv, TypeInv, CommandTypes
  <2>2. 1 \in DOMAIN commands /\ Head(commands) = commands[1]  BY <2>1
  <2>3. Head(commands).BufferIndex # NULL => Head(commands).DecodeInProgress
    BY <2>2 DEF IInv, DecodesInv
  <2>4. context'[ParseToDecode] = context[ParseToDecode]
    BY CallbackEffect, <1>32 DEF ContextBecomes
  <2>5. CASE Head(commands).BufferIndex = NULL
    BY <1>0, <1>32, <2>5, CallbackEffect DEF CallbackFromMME
  <2>6. CASE Head(commands).BufferIndex # NULL
    <3>1. context'[MME].BufferIndex # NULL /\ context'[MME].DecodeInProgress
      BY <2>3, <2>6, CallbackEffect, <1>32 DEF ContextBecomes
    <3> QED BY <1>0, <1>32, <2>4, <2>6, <3>1 DEF CallbackFromMME
  <2> QED BY <2>5, <2>6
<1>33. ASSUME Completed PROVE Decoders'
  BY <1>33, <1>0 DEF Completed
<1>34. ASSUME NEW discard \in BOOLEAN, NEW switch \in BOOLEAN, DrainStream(discard, switch)
      PROVE  Decoders'
  BY <1>34, <1>0 DEF DrainStream
<1>35. ASSUME SwitchCodec PROVE Decoders'
  BY <1>35, <1>0 DEF SwitchCodec
<1>36. ASSUME HaltAndReset PROVE Decoders'
  BY <1>36, <1>0 DEF HaltAndReset
<1>37. ASSUME UNCHANGED vars PROVE Decoders'
  BY <1>37, <1>0 DEF vars
<1> HIDE DEF Decoders
<1> QED BY <1>1, <1>2, <1>3, <1>4, <1>5, <1>6, <1>7, <1>8, <1>9, <1>10, <1>11, <1>12,
  <1>13, <1>14, <1>15, <1>16, <1>17, <1>18, <1>19, <1>20, <1>21, <1>22, <1>23, <1>24,
  <1>25, <1>26, <1>27, <1>28, <1>29, <1>30, <1>31, <1>32, <1>33, <1>34, <1>35, <1>36, <1>37
  DEF Steps

\* The decodes under way into a buffer are accounted for after every step.
LEMMA DecodesInvStep == ASSUME IInv, Steps PROVE DecodesInv'
<1>1. DecodesInv' <=> DecodesKept' /\ CommandsDecode' /\ Decoders'
  BY DEF DecodesInv, DecodesKept, Decodes, CommandsDecode, Decoders
<1> QED BY <1>1, DecodesStep, CommandsDecodeStep, DecodersStep

(***************************************************************************)
(* What is referred to is mapped.                                          *)
(***************************************************************************)

\* A picture is bound to, and launched into, an open buffer.
LEMMA BoundIsOpen ==
  ASSUME IInv, pc[ParseToDecode] \in {"bind", "launch"}
  PROVE  Current \in Buffers /\ Open(Current)
<1>1. Current \in Buffers
  BY DEF IInv, CurrentInv, TypeInv, BufferTypes, Current
<1>2. pc[Drain] # "sealed"  BY DEF IInv, ModesInv
<1>3. pc[ParseToDecode] # "release" /\ Current # NULL  BY DEF IInv, CurrentInv
<1> QED BY <1>1, <1>2, <1>3 DEF IInv, OpenInv

\* The buffer that a picture is about to map has one reference: the codec's.
LEMMA MappedIsFresh ==
  ASSUME IInv, Mapped
  PROVE  /\ Current \in Buffers \ MarkerFrames /\ ~BufferState[Current].mapped
         /\ OwnerCount[Current] = 1
         /\ \A k \in DOMAIN OutputRing : OutputRing[k] # Current
         /\ \A t \in Threads : pc[t] = "drop" => arg[t] # Current
<1>1. /\ Current \in Buffers /\ ~BufferState[Current].mapped /\ OwnerCount[Current] = 1
      /\ InCodec(Current)
  BY DEF Mapped, IInv, OpenInv, InCodec, Current
<1>2. Current \notin MarkerFrames  BY DEF IInv, MarkersAlone, Current
<1>3. Occurrences(Current, OutputRing) = 0 /\ Cardinality(Dropped(Current)) = 0
  BY <1>1, <1>2, FewHolds
<1> QED BY <1>1, <1>2, <1>3, TermTypes DEF IInv

\* A buffer is mapped by the picture that obtained it, and unmapped by the drop of its
\* last reference, or by the Reset of the codec.
Unmaps(b) == \/ \E t \in Threads : Drops(t, b) /\ OwnerCount[b] = 1
             \/ HaltAndReset

\* A buffer is unmapped by its last reference and by Reset only, and mapped once it is

\* current.
LEMMA MappedChange ==
  ASSUME IInv, Steps, NEW b \in Buffers
  PROVE  \/ BufferState'[b].mapped = BufferState[b].mapped
            /\ (BufferState[b].mapped \/ BufferState'[b] = BufferState[b])
         \/ Unmaps(b) /\ BufferState'[b] = Unused
         \/ Mapped /\ b = Current /\ BufferState'[b].mapped
<1> DEFINE Same == BufferState'[b].mapped = BufferState[b].mapped
                   /\ (BufferState[b].mapped \/ BufferState'[b] = BufferState[b])
           Off  == Unmaps(b) /\ BufferState'[b] = Unused
           On   == Mapped /\ b = Current /\ BufferState'[b].mapped
<1>0. BufferState \in [Buffers -> BufferStates]  BY DEF IInv, TypeInv, BufferTypes
<1>m. \A c \in Buffers : BufferState[c].ReferenceFrameCount > 0 => BufferState[c].mapped
  BY DEF IInv, BuffersInv, Unused
<1>1. ASSUME NEW t \in Threads, NEW c \in Buffers, Drops(t, c) PROVE Same \/ Off
  BY <1>0, <1>1 DEF Drops, Unmaps
<1>2. ASSUME NEW t \in Threads, NEW c \in Buffers, Seals(t, c) PROVE Same
  BY <1>0, <1>2 DEF Seals, BufferStates, Open
<1>3. ASSUME NEW t \in Workers, NEW c \in Buffers, ReleasesDecode(t, c) PROVE Same
  BY <1>0, <1>3 DEF ReleasesDecode, BufferStates
<1>4. ASSUME Mapped PROVE Same \/ On
  BY <1>0, <1>4 DEF Mapped, Unused
<1>5. ASSUME NEW c \in Buffers, NEW isReference \in {0, 1}, NEW list \in Seq(Buffers),
             Bound(c, isReference, list)
      PROVE  Same
  BY <1>0, <1>5, BoundIsOpen DEF Bound, BufferStates, Open
<1>6. ASSUME NEW c \in Buffers, NEW seen \in SUBSET Frame, Launched(c, seen) PROVE Same
  BY <1>0, <1>6, BoundIsOpen DEF Launched, BufferStates, Open
<1>7. ASSUME NEW c \in Buffers, ReleaseReferenceFrame(c) \/ ReleaseAll(c) PROVE Same
  BY <1>0, <1>7, <1>m DEF ReleaseReferenceFrame, ReleaseAll, BufferStates
<1>8. ASSUME HaltAndReset PROVE Off  BY <1>8 DEF HaltAndReset, Unmaps
<1>9. UNCHANGED BufferState => Same  OBVIOUS
<1> HIDE DEF Same, Off, On
<1>10. Same \/ Off \/ On
  BY <1>1, <1>2, <1>3, <1>4, <1>5, <1>6, <1>7, <1>8, <1>9, Changes DEF ChangesStates, Releases
<1> QED BY <1>10 DEF Same, Off, On

\* What a picture or a command under way refers to stays mapped.
ReferencesMapped(references) ==
  \A k \in DOMAIN references : references[k] \in Buffers /\ BufferState[references[k]].mapped

\* What a context or a command refers to has a reference, so that no step unmaps it.
LEMMA ReferencesStayMapped ==
  ASSUME IInv, Steps
  PROVE  /\ \A t \in Workers : context[t] # NULL =>
              ReferencesMapped(context[t].References)
              /\ \A k \in DOMAIN context[t].References :
                   BufferState'[context[t].References[k]].mapped
         /\ \A n \in DOMAIN commands :
              ReferencesMapped(commands[n].References)
              /\ \A k \in DOMAIN commands[n].References :
                   BufferState'[commands[n].References[k]].mapped
<1>0. /\ TypeInv /\ commands \in Seq(Short) /\ context \in [Workers -> Short \cup {NULL}]
      /\ \A c \in Short : c.References \in Seq(Buffers)
  BY DEF IInv, TypeInv, CommandTypes, Short, DecodeContext
<1>1. \A t \in Workers : context[t] # NULL => ReferencesMapped(context[t].References)
  BY <1>0 DEF IInv, BuffersInv, ReferencesMapped
<1>2. \A n \in DOMAIN commands : ReferencesMapped(commands[n].References)
  BY <1>0 DEF IInv, BuffersInv, ReferencesMapped
<1>3. ASSUME NEW b \in Buffers, BufferState[b].mapped, ~BufferState'[b].mapped
      PROVE  /\ \A t \in Workers : context[t] # NULL =>
                  \A k \in DOMAIN context[t].References : context[t].References[k] # b
             /\ \A n \in DOMAIN commands :
                  \A k \in DOMAIN commands[n].References : commands[n].References[k] # b
  <2>1. Unmaps(b)  BY <1>3, MappedChange DEF Unused
  <2>2. CASE HaltAndReset
    BY <2>2 DEF HaltAndReset, IInv, ModesInv, InSwitch, Settled, CallbackBusy, LocalsInv,
                PlacesInv, HasContext, Partial, Workers
  <2>3. CASE \E t \in Threads : Drops(t, b) /\ OwnerCount[b] = 1
    <3>1. Cardinality(Dropped(b)) # 0 /\ Cardinality(Dropped(b)) \in Nat
      BY <1>0, <2>3, TermTypes DEF Drops
    <3>2. b \in Buffers \ MarkerFrames  BY <2>3 DEF Drops
    <3>3. /\ NamedIn(ParseToDecode, b) = 0 /\ NamedIn(MME, b) = 0
          /\ Cardinality(NamedInCommands(b)) = 0
      BY <2>3, <3>1, <3>2, FewHolds
    <3>4. \A n \in DOMAIN commands :
            \A k \in DOMAIN commands[n].References : commands[n].References[k] # b
      BY <1>0, <3>3, NamedCommands, NamedFinite
    <3>5. ASSUME NEW t \in Workers, context[t] # NULL
          PROVE  \A k \in DOMAIN context[t].References : context[t].References[k] # b
      <4>1. Occurrences(b, context[t].References) = 0
        BY <3>3, <3>5 DEF NamedIn, Workers
      <4> QED BY <1>0, <3>5, <4>1, OccurrencesFinite
    <3> QED BY <3>4, <3>5
  <2> QED BY <2>1, <2>2, <2>3 DEF Unmaps
<1> QED BY <1>1, <1>2, <1>3 DEF ReferencesMapped

UnmappedUnused == \A b \in Buffers : ~BufferState[b].mapped => BufferState[b] = Unused
MappedCounted  == \A b \in Buffers : BufferState[b].mapped => OwnerCount[b] > 0

\* An unmapped buffer is in the state that the last reference, or Reset, left it in.
LEMMA UnmappedUnusedStep == ASSUME IInv, Steps PROVE UnmappedUnused'
<1> SUFFICES ASSUME NEW b \in Buffers, ~BufferState'[b].mapped
             PROVE  BufferState'[b] = Unused
  BY DEF UnmappedUnused
<1>1. ~BufferState[b].mapped => BufferState[b] = Unused  BY DEF IInv, BuffersInv
<1> QED BY <1>1, MappedChange

\* A mapped buffer has a reference: the last one unmaps it.
LEMMA MappedCountedStep == ASSUME IInv, Steps PROVE MappedCounted'
<1>0. /\ MappedCounted /\ OwnerCount \in [Buffers -> Int] /\ MarkerFrames \subseteq Buffers
      /\ \A b \in MarkerFrames : ~BufferState[b].mapped
  BY DEF IInv, BuffersInv, MappedCounted, TypeInv, BufferTypes, MarkersAlone
<1> SUFFICES ASSUME NEW b \in Buffers, BufferState'[b].mapped PROVE OwnerCount'[b] > 0
  BY DEF MappedCounted
<1>1. CASE Mapped /\ b = Current
  BY <1>1, MappedIsFresh DEF Mapped
<1>2. CASE BufferState[b].mapped
  <2>1. OwnerCount[b] > 0  BY <1>0, <1>2 DEF MappedCounted
  <2>2. ASSUME NEW t \in Threads, NEW c \in Buffers, Drops(t, c) PROVE OwnerCount'[b] > 0
    <3>1. OwnerCount[c] # 1 \/ b # c
      BY <2>2, <1>0 DEF Drops, Unused, IInv, TypeInv, BufferTypes
    <3> QED BY <1>0, <2>1, <2>2, <3>1 DEF Drops
  <2>3. ASSUME NEW c \in Buffers, GetDecodeBuffer(c) \/ InputMarkerGet(c) \/ ShowsMarker(c)
        PROVE  OwnerCount'[b] > 0
    BY <1>0, <1>2, <2>1, <2>3 DEF GetDecodeBuffer, InputMarkerGet, ShowsMarker
  <2>4. CASE InputMarkerTake
    <3>1. MarkerBuffer # NULL => MarkerBuffer \in MarkerFrames  BY DEF IInv, MarkersInv
    <3> QED BY <1>0, <1>2, <2>1, <2>4, <3>1 DEF InputMarkerTake
  <2>5. ASSUME NEW c \in Buffers, NEW isReference \in {0, 1}, NEW list \in Seq(Buffers),
               Bound(c, isReference, list)
        PROVE  OwnerCount'[b] > 0
    <3>1. Occurrences(b, list) \in Nat  BY OccurrencesFinite
    <3>2. OwnerCount'[b] = OwnerCount[b] + Occurrences(b, list)
                           + (IF b = c THEN isReference ELSE 0)
      BY <2>5 DEF Bound
    <3> DEFINE o == Occurrences(b, list)
               i == IF b = c THEN isReference ELSE 0
    <3>3. i \in Nat  OBVIOUS
    <3>4. OwnerCount[b] \in Int  BY <1>0
    <3> HIDE DEF o, i
    <3> QED BY <2>1, <3>1, <3>2, <3>3, <3>4 DEF o, i
  <2> QED BY <2>1, <2>2, <2>3, <2>4, <2>5, Changes DEF ChangesOwners
<1> QED BY <1>1, <1>2, MappedChange DEF Unused

ContextsMapped == \A t \in Workers : context[t] # NULL =>
  \A k \in DOMAIN context[t].References : BufferState[context[t].References[k]].mapped

\* The references of a context are to mapped buffers.
LEMMA ContextsMappedStep == ASSUME IInv, Steps PROVE ContextsMapped'
<1> DEFINE Refers(s) == \A k \in DOMAIN s : BufferState'[s[k]].mapped
<1>0. \A t \in Workers : context[t] # NULL => Refers(context[t].References)
  BY ReferencesStayMapped
<1>n. \A n \in DOMAIN commands : Refers(commands[n].References)  BY ReferencesStayMapped
<1>c. context \in [Workers -> Short \cup {NULL}]  BY DEF IInv, TypeInv, CommandTypes
<1> SUFFICES ASSUME NEW t \in Workers, context'[t] # NULL PROVE Refers(context'[t].References)
  BY DEF ContextsMapped
<1>1. ASSUME NEW u \in Workers, ReleaseReference(u) PROVE Refers(context'[t].References)
  <2>1. context[u] # NULL /\ context[u].References \in Seq(Buffers) /\ context[u].References # <<>>
    BY <1>1, ReferenceEffect, CodecAssumption DEF Short, DecodeContext
  <2>2. Refers(Tail(context[u].References))
    <3> DEFINE s == context[u].References
    <3>1. s \in Seq(Buffers) /\ s # <<>> /\ Refers(s)  BY <1>0, <2>1
    <3> HIDE DEF s
    <3>2. \A k \in DOMAIN Tail(s) : k + 1 \in DOMAIN s /\ Tail(s)[k] = s[k + 1]  BY <3>1
    <3>3. Refers(Tail(s))  BY <3>1, <3>2
    <3> QED BY <3>3 DEF s
  <2> HIDE DEF Refers
  <2> QED BY <1>0, <1>1, <2>2, ReferenceEffect DEF ContextBecomes
<1>2. ASSUME NEW u \in Workers, ReleaseEnd(u) PROVE Refers(context'[t].References)
  BY <1>0, <1>2, <1>c DEF ReleaseEnd
<1>3. ASSUME NEW u \in Workers, NEW b \in Buffers, ReleasesDecode(u, b)
      PROVE  Refers(context'[t].References)
  <2>1. context[u] # NULL  BY <1>3 DEF ReleasesDecode
  <2> HIDE DEF Refers
  <2> QED BY <1>0, <1>3, <2>1, DecodeEffect DEF ContextBecomes
<1>4. ASSUME NEW picture \in Pictures, Input(picture) PROVE Refers(context'[t].References)
  <2>1. Refers(<<>>)  OBVIOUS
  <2> HIDE DEF Refers
  <2> QED BY <1>0, <1>4, <2>1, InputEffect DEF NewContext, Workers
<1>5. ASSUME NEW b \in Buffers, NEW isReference \in {0, 1}, NEW list \in Seq(Buffers),
             Bound(b, isReference, list)
      PROVE  Refers(context'[t].References)
  <2>1. \A k \in DOMAIN list : list[k] \in Buffers /\ BufferState[list[k]].mapped
    BY <1>5, BoundIsOpen DEF Bound, Open, IInv, BuffersInv, Unused
  <2>2. \A k \in DOMAIN list : BufferState'[list[k]].mapped
    BY <1>5, <2>1 DEF Bound, IInv, TypeInv, BufferTypes, BufferStates
  <2>3. Refers(list)  BY <2>2
  <2>4. ContextBecomes(ParseToDecode, 0, b, FALSE, list)  BY <1>5, BindEffect
  <2> HIDE DEF Refers
  <2> QED BY <1>0, <2>3, <2>4 DEF ContextBecomes
<1>6. ASSUME NEW b \in Buffers, NEW seen \in SUBSET Frame, Launched(b, seen)
      PROVE  Refers(context'[t].References)
  <2>1. context[ParseToDecode] # NULL /\ ParseToDecode \in Workers
    BY <1>6, LaunchEffect, CodecAssumption DEF Short, Workers
  <2> HIDE DEF Refers
  <2> QED BY <1>0, <1>6, <2>1, LaunchEffect DEF ContextBecomes
<1>7. CASE SendMMEDecodeCommand
  <2> HIDE DEF Refers
  <2> QED BY <1>0, <1>7, <1>c DEF SendMMEDecodeCommand
<1>8. CASE CallbackFromMME
  <2>1. commands \in Seq(Short) /\ commands # <<>>
    BY <1>8 DEF CallbackFromMME, IInv, TypeInv, CommandTypes
  <2>2. 1 \in DOMAIN commands /\ Head(commands) = commands[1]  BY <2>1
  <2> HIDE DEF Refers
  <2>3. Refers(Head(commands).References)  BY <1>n, <2>2
  <2> QED BY <1>0, <1>8, <2>3, CallbackEffect DEF ContextBecomes
<1> HIDE DEF Refers
<1>9. CASE UNCHANGED context  BY <1>0, <1>9
<1> QED
  BY <1>1, <1>2, <1>3, <1>4, <1>5, <1>6, <1>7, <1>8, <1>9, Changes DEF ChangesContexts, Releases

CommandsMapped == \A n \in DOMAIN commands : \A k \in DOMAIN commands[n].References :
  BufferState[commands[n].References[k]].mapped

\* So are those of the commands, which take over the list of a context.
LEMMA CommandsMappedStep == ASSUME IInv, Steps PROVE CommandsMapped'
<1> DEFINE Refers(s) == \A k \in DOMAIN s : BufferState'[s[k]].mapped
<1>0. \A n \in DOMAIN commands : Refers(commands[n].References)  BY ReferencesStayMapped
<1>c. \A t \in Workers : context[t] # NULL => Refers(context[t].References)
  BY ReferencesStayMapped
<1>t. commands \in Seq(Short) /\ MMECommandPreparedCount + 1 \in Nat
  BY DEF IInv, TypeInv, CommandTypes, NumberTypes
<1> SUFFICES ASSUME NEW n \in DOMAIN commands' PROVE Refers(commands'[n].References)
  BY DEF CommandsMapped
<1> HIDE DEF Refers
<1>1. ASSUME NEW c \in Short, commands' = Append(commands, c), Refers(c.References)
      PROVE  Refers(commands'[n].References)
  <2>1. (n \in DOMAIN commands /\ commands'[n] = commands[n]) \/ commands'[n] = c
    BY <1>1, <1>t, AppendProperties
  <2> QED BY <1>0, <1>1, <2>1
<1>2. CASE SendMMEStreamParameters
  <2> DEFINE c == [NewContext EXCEPT !.number = MMECommandPreparedCount + 1]
  <2>1. c \in Short  BY <1>t, NewContextType, Numbered
  <2>2. commands' = Append(commands, c)  BY <1>2 DEF SendMMEStreamParameters
  <2>3. c.References = <<>>  BY DEF NewContext
  <2>4. Refers(<<>>)  BY DEF Refers
  <2> HIDE DEF c
  <2> QED BY <1>1, <2>1, <2>2, <2>3, <2>4
<1>3. CASE SendMMEDecodeCommand
  <2> DEFINE d == context[ParseToDecode]
             c == [d EXCEPT !.number = MMECommandPreparedCount + 1]
  <2>1. d \in Short /\ d # NULL /\ ParseToDecode \in Workers
    BY <1>3 DEF SendMMEDecodeCommand, IInv, LocalsInv, HasContext, Workers, TypeInv, CommandTypes
  <2>2. c \in Short  BY <1>t, <2>1, Numbered
  <2>3. c.References = d.References  BY <2>1 DEF Short, DecodeContext
  <2>4. Refers(d.References)  BY <1>c, <2>1
  <2>5. commands' = Append(commands, c) \/ UNCHANGED commands
    BY <1>3 DEF SendMMEDecodeCommand
  <2> HIDE DEF c, d
  <2> QED BY <1>0, <1>1, <2>2, <2>3, <2>4, <2>5
<1>4. CASE CallbackFromMME
  <2>1. commands # <<>> /\ commands' = Tail(commands)  BY <1>4 DEF CallbackFromMME
  <2>2. n + 1 \in DOMAIN commands /\ commands'[n] = commands[n + 1]  BY <1>t, <2>1
  <2> QED BY <1>0, <2>2
<1>5. CASE UNCHANGED commands  BY <1>0, <1>5
<1> QED BY <1>2, <1>3, <1>4, <1>5, Changes DEF ChangesCommands

\* A thread that drops a reference has found the buffer mapped; only the process
\* behind the manifestor may have found one that a Reset has unmapped.
DropsFound ==
  \A t \in Threads : pc[t] = "drop" =>
    arg[t] \in Buffers /\ (found[t] \/ (t = PostManifest /\ ~BufferState[arg[t]].mapped))

\* A thread that was at a buffer is still there, and a buffer that was not mapped is not.
LEMMA DropsStay ==
  ASSUME IInv, Steps, NEW t \in Threads,
         pc'[t] = "drop" => pc[t] = "drop" /\ arg'[t] = arg[t] /\ found'[t] = found[t]
  PROVE  pc'[t] = "drop" =>
           /\ arg'[t] \in Buffers
           /\ found'[t] \/ (t = PostManifest /\ ~BufferState'[arg'[t]].mapped)
<1> SUFFICES ASSUME pc'[t] = "drop"
             PROVE  /\ arg[t] \in Buffers
                    /\ found[t] \/ (t = PostManifest /\ ~BufferState'[arg[t]].mapped)
  OBVIOUS
<1>1. arg[t] \in Buffers /\ (found[t] \/ (t = PostManifest /\ ~BufferState[arg[t]].mapped))
  BY DEF IInv, BuffersInv
<1>2. Mapped => Current # arg[t]  BY MappedIsFresh
<1> QED BY <1>1, <1>2, MappedChange DEF Unused

\* What DecrementReferenceCount sees before the lock still holds under it: the reference it

\* is going to drop keeps the buffer mapped. Only a Reset unmaps a buffer that is shown.
LEMMA DropsFoundStep ==
  ASSUME IInv, Steps
  PROVE  DropsFound'
<1>0. /\ ReturnsInv /\ PlacesInv /\ ThreadTypes /\ BufferTypes
      /\ \A u \in Threads :
           (pc'[u] = "drop" => pc[u] = "drop" /\ arg'[u] = arg[u] /\ found'[u] = found[u])
           => (pc'[u] = "drop" =>
                 /\ arg'[u] \in Buffers
                 /\ found'[u] \/ (u = PostManifest /\ ~BufferState'[arg'[u]].mapped))
  BY DropsStay DEF IInv, LocalsInv, TypeInv
<1> USE DEF Threads, ParseToDecode, MME, PostManifest, Drain, Workers, Goto, buffer,
  counts, marker, thread, bounds, user, ThreadTypes, DropsFound
<1>1. ASSUME NEW t \in Threads, NEW b \in Buffers, Drops(t, b) PROVE DropsFound'
  BY <1>1, <1>0 DEF Drops, Returns
<1>2. ASSUME NEW t \in Threads, PartialTest(t) PROVE DropsFound'
  BY <1>2, <1>0 DEF PartialTest, AfterPartial, Returns
<1>3. ASSUME NEW t \in Threads, NEW b \in Buffers, Seals(t, b) PROVE DropsFound'
  BY <1>3, <1>0 DEF Seals, Open
<1>4. ASSUME NEW t \in Threads, PartialEnd(t) PROVE DropsFound'
  BY <1>4, <1>0 DEF PartialEnd, AfterPartial, Returns
<1>5. ASSUME NEW t \in Workers, ReleasesNothing(t) PROVE DropsFound'
  BY <1>5, <1>0 DEF ReleasesNothing
<1>6. ASSUME NEW t \in Workers, NEW b \in Buffers, ReleasesToDiscard(t, b) PROVE DropsFound'
  BY <1>6, <1>0 DEF ReleasesToDiscard, ReleasesDecode, DropThen, Completes
<1>7. ASSUME NEW t \in Workers, NEW b \in Buffers, ReleasesToOutput(t, b) PROVE DropsFound'
  BY <1>7, <1>0 DEF ReleasesToOutput, ReleasesDecode, Completes, Invalidate
<1>8. ASSUME NEW t \in Workers, NEW b \in Buffers, ReleasesOne(t, b) PROVE DropsFound'
  BY <1>8, <1>0 DEF ReleasesOne, ReleasesDecode, Completes, Invalidate
<1>9. ASSUME NEW t \in Workers, ReleaseRelock(t) PROVE DropsFound'
  BY <1>9, <1>0 DEF ReleaseRelock, Invalidate
<1>10. ASSUME NEW t \in Workers, ReleaseReference(t) PROVE DropsFound'
  <2>1. /\ context[t] \in Short /\ context[t] # NULL /\ context[t].References # <<>>
    BY <1>10, ReferenceEffect, CodecAssumption DEF Short
  <2>2. /\ 1 \in DOMAIN context[t].References
        /\ Head(context[t].References) = context[t].References[1]
        /\ Head(context[t].References) \in Buffers
    BY <2>1 DEF Short, DecodeContext
  <2>3. BufferState[Head(context[t].References)].mapped
    BY <2>1, <2>2 DEF IInv, BuffersInv
  <2> QED BY <1>0, <1>10, <2>2, <2>3 DEF ReleaseReference, DropThen
<1>11. ASSUME NEW t \in Workers, ReleaseEnd(t) PROVE DropsFound'
  BY <1>11, <1>0 DEF ReleaseEnd
<1>12. ASSUME NEW t \in Workers, TestMarkerFramePassOn(t) PROVE DropsFound'
  BY <1>12, <1>0 DEF TestMarkerFramePassOn
<1>13. ASSUME NEW t \in Workers, TakeMarkerBuffer(t) PROVE DropsFound'
  BY <1>13, <1>0 DEF TakeMarkerBuffer
<1>14. ASSUME NEW t \in Workers, NEW b \in Buffers, Passes(t, b) PROVE DropsFound'
  BY <1>14, <1>0 DEF Passes
<1>15. ASSUME SendMMEStreamParameters PROVE DropsFound'
  BY <1>15, <1>0 DEF SendMMEStreamParameters, MayInput, NewContext
<1>16. ASSUME DropPicture PROVE DropsFound'
  BY <1>16, <1>0 DEF DropPicture, MayInput
<1>17. ASSUME NEW picture \in Pictures, Input(picture) PROVE DropsFound'
  BY <1>17, <1>0 DEF Input, MayInput
<1>18. ASSUME NEW b \in Buffers, GetDecodeBuffer(b) PROVE DropsFound'
  BY <1>18, <1>0 DEF GetDecodeBuffer
<1>19. ASSUME NEW b \in Buffers, InputMarkerGet(b) PROVE DropsFound'
  BY <1>19, <1>0 DEF InputMarkerGet
<1>20. ASSUME NEW b \in Buffers, ReleaseReferenceFrame(b) PROVE DropsFound'
  <2>1. BufferState[b].mapped  BY <1>20 DEF ReleaseReferenceFrame, IInv, BuffersInv, Unused
  <2> QED BY <1>0, <1>20, <2>1 DEF ReleaseReferenceFrame, DropThen
<1>21. ASSUME NEW b \in Buffers, ReleaseAll(b) PROVE DropsFound'
  <2>1. BufferState[b].mapped  BY <1>21 DEF ReleaseAll, IInv, BuffersInv, Unused
  <2> QED BY <1>0, <1>21, <2>1 DEF ReleaseAll, DropThen
<1>22. ASSUME NEW b \in Buffers, ShowsMarker(b) PROVE DropsFound'
  BY <1>22, <1>0 DEF ShowsMarker
<1>23. ASSUME NEW b \in Buffers, ShowsBuffer(b) PROVE DropsFound'
  BY <1>23, <1>0 DEF ShowsBuffer, DropThen
<1>24. ASSUME GetDecodeBufferFails PROVE DropsFound'
  BY <1>24, <1>0 DEF GetDecodeBufferFails, Fails
<1>25. ASSUME Mapped PROVE DropsFound'
  BY <1>25, <1>0 DEF Mapped
<1>26. ASSUME NEW b \in Buffers, NEW isReference \in {0, 1}, NEW list \in Seq(Buffers), Bound(b,
              isReference, list)
      PROVE  DropsFound'
  BY <1>26, <1>0 DEF Bound
<1>27. ASSUME NEW b \in Buffers, NEW seen \in SUBSET Frame, Launched(b, seen) PROVE DropsFound'
  BY <1>27, <1>0 DEF Launched
<1>28. ASSUME SendMMEDecodeCommand PROVE DropsFound'
  BY <1>28, <1>0 DEF SendMMEDecodeCommand, Fails
<1>29. ASSUME InputEnd PROVE DropsFound'
  BY <1>29, <1>0 DEF InputEnd
<1>30. ASSUME InputMarkerTake PROVE DropsFound'
  BY <1>30, <1>0 DEF InputMarkerTake
<1>31. ASSUME InputMarkerHold PROVE DropsFound'
  BY <1>31, <1>0 DEF InputMarkerHold
<1>32. ASSUME CallbackFromMME PROVE DropsFound'
  BY <1>32, <1>0 DEF CallbackFromMME
<1>33. ASSUME Completed PROVE DropsFound'
  BY <1>33, <1>0 DEF Completed
<1>34. ASSUME NEW discard \in BOOLEAN, NEW switch \in BOOLEAN, DrainStream(discard, switch)
      PROVE  DropsFound'
  BY <1>34, <1>0 DEF DrainStream
<1>35. ASSUME SwitchCodec PROVE DropsFound'
  BY <1>35, <1>0 DEF SwitchCodec
<1>36. ASSUME HaltAndReset PROVE DropsFound'
  BY <1>36, <1>0 DEF HaltAndReset
<1>37. ASSUME UNCHANGED vars PROVE DropsFound'
  BY <1>37, <1>0 DEF vars
<1> HIDE DEF DropsFound
<1> QED BY <1>1, <1>2, <1>3, <1>4, <1>5, <1>6, <1>7, <1>8, <1>9, <1>10, <1>11, <1>12,
  <1>13, <1>14, <1>15, <1>16, <1>17, <1>18, <1>19, <1>20, <1>21, <1>22, <1>23, <1>24,
  <1>25, <1>26, <1>27, <1>28, <1>29, <1>30, <1>31, <1>32, <1>33, <1>34, <1>35, <1>36, <1>37
  DEF Steps

\* A buffer of the output ring that is mapped is complete.
RingComplete ==
  \A k \in DOMAIN OutputRing :
    BufferState[OutputRing[k]].mapped =>
      /\ BufferState[OutputRing[k]].OutputOnDecodesComplete
      /\ BufferState[OutputRing[k]].DecodesInProgress = 0

\* A buffer in the ring is sealed with nothing under way into it, and stays so: a decode is

\* launched into an open buffer only.
LEMMA RingCompleteStep == ASSUME IInv, Steps PROVE RingComplete'
<1> DEFINE Good(b)  == BufferState[b].mapped => /\ BufferState[b].OutputOnDecodesComplete
                                                /\ BufferState[b].DecodesInProgress = 0
           Good2(b) == BufferState'[b].mapped => /\ BufferState'[b].OutputOnDecodesComplete
                                                 /\ BufferState'[b].DecodesInProgress = 0
           InRing(b) == \E k \in DOMAIN OutputRing : OutputRing[k] = b
<1>0. /\ BufferState \in [Buffers -> BufferStates] /\ OutputRing \in Seq(Buffers)
      /\ \A k \in DOMAIN OutputRing : OutputRing[k] \in Buffers /\ Good(OutputRing[k])
  BY DEF IInv, TypeInv, BufferTypes, BuffersInv
<1>1. ASSUME NEW b \in Buffers, InRing(b) PROVE Good2(b)
  <2>0. Good(b)  BY <1>0, <1>1
  <2>1. ASSUME NEW t \in Threads, NEW c \in Buffers, Drops(t, c) PROVE Good2(b)
    BY <1>0, <2>0, <2>1 DEF Drops, Unused
  <2>2. ASSUME NEW t \in Threads, NEW c \in Buffers, Seals(t, c) PROVE Good2(b)
    BY <1>0, <2>0, <2>2 DEF Seals, BufferStates
  <2>3. ASSUME NEW t \in Workers, NEW c \in Buffers, ReleasesDecode(t, c) PROVE Good2(b)
    <3>1. b # c  BY <2>0, <2>3 DEF ReleasesDecode
    <3> QED BY <1>0, <2>0, <2>3, <3>1 DEF ReleasesDecode
  <2>4. ASSUME Mapped PROVE Good2(b)
    <3>1. b # Current  BY <1>1, <2>4, MappedIsFresh
    <3> QED BY <1>0, <2>0, <2>4, <3>1 DEF Mapped
  <2>5. ASSUME NEW c \in Buffers, NEW isReference \in {0, 1}, NEW list \in Seq(Buffers),
               Bound(c, isReference, list)
        PROVE  Good2(b)
    BY <1>0, <2>0, <2>5 DEF Bound, BufferStates
  <2>6. ASSUME NEW c \in Buffers, NEW seen \in SUBSET Frame, Launched(c, seen) PROVE Good2(b)
    <3>1. b # c  BY <2>0, <2>6, BoundIsOpen DEF Launched, Open
    <3> QED BY <1>0, <2>0, <2>6, <3>1 DEF Launched
  <2>7. ASSUME NEW c \in Buffers, ReleaseReferenceFrame(c) \/ ReleaseAll(c) PROVE Good2(b)
    <3>1. BufferState' = [BufferState EXCEPT ![c].ReferenceFrameCount = @ - 1]
      BY <2>7 DEF ReleaseReferenceFrame, ReleaseAll
    <3> QED BY <1>0, <2>0, <3>1 DEF BufferStates
  <2>8. ASSUME HaltAndReset PROVE Good2(b)  BY <2>8 DEF HaltAndReset, Unused
  <2>9. UNCHANGED BufferState => Good2(b)  BY <2>0
  <2> HIDE DEF Good2
  <2> QED
    BY <2>1, <2>2, <2>3, <2>4, <2>5, <2>6, <2>7, <2>8, <2>9, Changes DEF ChangesStates, Releases
<1>2. ASSUME NEW b \in Buffers, OutputRing' = Append(OutputRing, b), Good2(b)
      PROVE  RingComplete'
  <2>1. \A k \in DOMAIN OutputRing' : InRing(OutputRing'[k]) \/ OutputRing'[k] = b
    BY <1>0, <1>2, AppendProperties
  <2>2. \A k \in DOMAIN OutputRing' : OutputRing'[k] \in Buffers
    BY <1>0, <2>1
  <2> HIDE DEF InRing
  <2> QED BY <1>1, <1>2, <2>1, <2>2 DEF RingComplete
<1>3. ASSUME \A k \in DOMAIN OutputRing' : InRing(OutputRing'[k]) PROVE RingComplete'
  <2>1. \A k \in DOMAIN OutputRing' : OutputRing'[k] \in Buffers  BY <1>0, <1>3
  <2> HIDE DEF InRing
  <2> QED BY <1>1, <1>3, <2>1 DEF RingComplete
<1>4. ASSUME NEW t \in Threads, NEW b \in Buffers, Seals(t, b) PROVE RingComplete'
  <2>1. CASE BufferState[b].DecodesInProgress = 0
    <3>1. Good2(b)  BY <1>0, <1>4, <2>1 DEF Seals, BufferStates
    <3> QED BY <1>2, <1>4, <2>1, <3>1 DEF Seals
  <2>2. CASE BufferState[b].DecodesInProgress # 0  BY <1>3, <1>4, <2>2 DEF Seals
  <2> QED BY <2>1, <2>2
<1>5. ASSUME NEW t \in Workers, NEW b \in Buffers, Passes(t, b) PROVE RingComplete'
  <2>1. Good2(b)  BY <1>5 DEF Passes, buffer, IInv, MarkersAlone
  <2> QED BY <1>2, <1>5, <2>1 DEF Passes
<1>6. ASSUME NEW t \in Workers, NEW b \in Buffers, ReleasesToOutput(t, b) PROVE RingComplete'
  <2>1. Good2(b)
    BY <1>0, <1>6 DEF ReleasesToOutput, ReleasesDecode, Completes, BufferStates
  <2> QED BY <1>2, <1>6, <2>1 DEF ReleasesToOutput
<1>7. ASSUME NEW b \in Buffers, ShowsMarker(b) \/ ShowsBuffer(b) PROVE RingComplete'
  <2>1. OutputRing # <<>> /\ OutputRing' = Tail(OutputRing)
    BY <1>7 DEF ShowsMarker, ShowsBuffer
  <2>2. \A k \in DOMAIN OutputRing' :
          k + 1 \in DOMAIN OutputRing /\ OutputRing'[k] = OutputRing[k + 1]
    BY <1>0, <2>1
  <2> QED BY <1>3, <2>2
<1>8. CASE UNCHANGED OutputRing  BY <1>3, <1>8
<1> QED BY <1>4, <1>5, <1>6, <1>7, <1>8, Changes DEF ChangesRing

\* What is referred to is mapped, after every step.
LEMMA BuffersInvStep == ASSUME IInv, Steps PROVE BuffersInv'
BY UnmappedUnusedStep, MappedCountedStep, ContextsMappedStep, CommandsMappedStep,
   DropsFoundStep, RingCompleteStep
   DEF BuffersInv, UnmappedUnused, MappedCounted, ContextsMapped, CommandsMapped, DropsFound,
       RingComplete

(***************************************************************************)
(* The buffer that pictures are decoded into.                              *)
(***************************************************************************)

\* The last reference to a buffer that the codec holds is not dropped.
LEMMA HeldStaysMapped ==
  ASSUME IInv, Steps, NEW b \in Buffers, InCodec(b), BufferState[b].mapped
  PROVE  /\ ~ \E t \in Threads : Drops(t, b) /\ OwnerCount[b] = 1
         /\ ~HaltAndReset => BufferState'[b].mapped
<1>1. ASSUME NEW t \in Threads, Drops(t, b), OwnerCount[b] = 1 PROVE FALSE
  <2>1. b \in Buffers \ MarkerFrames  BY <1>1 DEF Drops
  <2>2. Cardinality(Dropped(b)) # 0  BY <1>1, TermTypes DEF Drops, IInv
  <2> QED BY <1>1, <2>1, <2>2, FewHolds
<1> QED BY <1>1, MappedChange DEF Unmaps

\* A buffer is opened by the picture that maps it, and stays so until it is sealed, or

\* the launch of a decode completes it.
LEMMA OpenChange ==
  ASSUME IInv, Steps, NEW b \in Buffers
  PROVE  /\ Open(b)' => Open(b) \/ (Mapped /\ b = Current)
         /\ Open(b) => \/ Open(b)'
                       \/ \E t \in {ParseToDecode, Drain} : Seals(t, b)
                       \/ \E seen \in SUBSET Frame : Launched(b, seen)
<1> DEFINE Same == Open(b)' = Open(b)
           More == Mapped /\ b = Current /\ ~Open(b)
           Less == /\ ~Open(b)'
                   /\ \/ ~Open(b)
                      \/ \E t \in {ParseToDecode, Drain} : Seals(t, b)
                      \/ \E seen \in SUBSET Frame : Launched(b, seen)
<1>0. BufferState \in [Buffers -> BufferStates]  BY DEF IInv, TypeInv, BufferTypes
<1>1. ASSUME NEW t \in Threads, NEW c \in Buffers, Drops(t, c) PROVE Same \/ Less
  <2>1. OwnerCount[c] = 1 => ~Open(c)
    BY <1>1, HeldStaysMapped DEF Open, InCodec
  <2> QED BY <1>0, <1>1, <2>1 DEF Drops, Open, Unused
<1>2. ASSUME NEW t \in Threads, NEW c \in Buffers, Seals(t, c) PROVE Same \/ Less
  <2>1. t \in {ParseToDecode, Drain}  BY <1>2 DEF Seals
  <2>2. CASE b = c
    <3>1. ~Open(b)'  BY <1>0, <1>2, <2>2 DEF Seals, Open
    <3> QED BY <1>2, <2>1, <2>2, <3>1
  <2>3. CASE b # c  BY <1>0, <1>2, <2>3 DEF Seals, Open
  <2> QED BY <2>2, <2>3
<1>3. ASSUME NEW t \in Workers, NEW c \in Buffers, ReleasesDecode(t, c) PROVE Same
  <2>1. BufferState'[b].mapped = BufferState[b].mapped
        /\ BufferState'[b].OutputOnDecodesComplete = BufferState[b].OutputOnDecodesComplete
    BY <1>0, <1>3 DEF ReleasesDecode, BufferStates
  <2> QED BY <2>1 DEF Open
<1>4. ASSUME Mapped PROVE Same \/ More
  <2>1. ~BufferState[Current].mapped  BY <1>4, MappedIsFresh
  <2>2. b # Current => BufferState'[b] = BufferState[b]  BY <1>0, <1>4 DEF Mapped
  <2> QED BY <1>4, <2>1, <2>2 DEF Open
<1>5. ASSUME NEW c \in Buffers, NEW isReference \in {0, 1}, NEW list \in Seq(Buffers),
             Bound(c, isReference, list)
      PROVE  Same
  <2>1. BufferState'[b].mapped = BufferState[b].mapped
        /\ BufferState'[b].OutputOnDecodesComplete = BufferState[b].OutputOnDecodesComplete
    BY <1>0, <1>5 DEF Bound, BufferStates
  <2> QED BY <2>1 DEF Open
<1>6. ASSUME NEW c \in Buffers, NEW seen \in SUBSET Frame, Launched(c, seen)
      PROVE  Same \/ Less
  <2>1. CASE b = c
    <3>1. Open(b)  BY <1>6, <2>1, BoundIsOpen DEF Launched
    <3> QED BY <1>6, <2>1, <3>1
  <2>2. CASE b # c
    <3>1. BufferState'[b] = BufferState[b]  BY <1>0, <1>6, <2>2 DEF Launched
    <3> QED BY <3>1 DEF Open
  <2> QED BY <2>1, <2>2
<1>7. ASSUME NEW c \in Buffers, ReleaseReferenceFrame(c) \/ ReleaseAll(c) PROVE Same
  <2>1. BufferState' = [BufferState EXCEPT ![c].ReferenceFrameCount = @ - 1]
    BY <1>7 DEF ReleaseReferenceFrame, ReleaseAll
  <2>2. BufferState'[b].mapped = BufferState[b].mapped
        /\ BufferState'[b].OutputOnDecodesComplete = BufferState[b].OutputOnDecodesComplete
    BY <1>0, <2>1 DEF BufferStates
  <2> QED BY <2>2 DEF Open
<1>8. ASSUME HaltAndReset PROVE Less
  <2>1. ~Open(b)'  BY <1>8 DEF HaltAndReset, Open, Unused
  <2>2. Current = NULL  BY <1>8 DEF HaltAndReset, IInv, CurrentInv, InSwitch, ModesInv
  <2>3. ~Open(b)  BY <2>2, CodecAssumption DEF IInv, OpenInv
  <2> QED BY <2>1, <2>3
<1>9. UNCHANGED BufferState => Same  BY DEF Open
<1> HIDE DEF Same, More, Less
<1>10. Same \/ More \/ Less
  BY <1>1, <1>2, <1>3, <1>4, <1>5, <1>6, <1>7, <1>8, <1>9, Changes DEF ChangesStates, Releases
<1> QED BY <1>10 DEF Same, More, Less

\* The index goes from none to the buffer obtained for a picture, and back to none only

\* from a buffer that is mapped and no longer open.
LEMMA CurrentChange ==
  ASSUME IInv, Steps
  PROVE  \/ Current' = Current
         \/ \E b \in Buffers : GetDecodeBuffer(b) /\ Current = NULL /\ Current' = b
         \/ Current' = NULL /\ Current \in Buffers /\ ~Open(Current)
            /\ pc[ParseToDecode] # "map"
<1> DEFINE Kept  == Current' = Current
           Taken == \E b \in Buffers : GetDecodeBuffer(b) /\ Current = NULL /\ Current' = b
           Left  == Current' = NULL /\ Current \in Buffers /\ ~Open(Current)
                    /\ pc[ParseToDecode] # "map"
           Goal  == Kept \/ Taken \/ Left
<1>0. Current \in Buffers \cup {NULL} /\ PlacesInv /\ ModesInv
  BY DEF IInv, TypeInv, BufferTypes, Current, LocalsInv
<1>1. ASSUME NEW t \in Threads, PartialEnd(t) PROVE Goal
  <2>1. t \in {ParseToDecode, Drain}
    BY <1>1 DEF PartialEnd, IInv, LocalsInv, PlacesInv, Threads
  <2>2. Current' = NULL /\ pc[t] = "sealed"  BY <1>1 DEF PartialEnd, Current
  <2>3. Current # NULL => ~Open(Current)  BY <2>1, <2>2 DEF IInv, OpenInv
  <2>4. pc[ParseToDecode] # "map"  BY <2>1, <2>2 DEF IInv, ModesInv
  <2> QED BY <1>0, <2>2, <2>3, <2>4
<1>2. ASSUME NEW t \in Workers, NEW b \in Buffers, ReleasesToOutput(t, b) \/ ReleasesOne(t, b)
      PROVE  Goal
  <2>1. \/ Current' = Current
        \/ Current' = NULL /\ Current = b /\ BufferState[b].OutputOnDecodesComplete
    BY <1>2 DEF ReleasesToOutput, ReleasesOne, Completes, Invalidate, Current
  <2>2. BufferState[b].mapped  BY <1>2 DEF ReleasesToOutput, ReleasesOne, ReleasesDecode
  <2>3. pc[ParseToDecode] = "map" => ~BufferState[Current].mapped  BY DEF IInv, OpenInv
  <2> QED BY <2>1, <2>2, <2>3 DEF Open
<1>3. ASSUME NEW t \in Workers, ReleaseRelock(t) PROVE Goal
  <2>1. t = MME /\ Discarding
    BY <1>3 DEF ReleaseRelock, IInv, LocalsInv, PlacesInv, Workers, Discarding
  <2>2. \/ Current' = Current
        \/ Current' = NULL /\ Current = context[MME].BufferIndex
    BY <1>3, <2>1 DEF ReleaseRelock, Invalidate, Current
  <2>3. Current = context[MME].BufferIndex /\ Current # NULL => pc[Drain] = "sealed"
    BY <2>1 DEF IInv, CurrentInv
  <2>4. pc[Drain] = "sealed" /\ Current # NULL => ~Open(Current)  BY DEF IInv, OpenInv
  <2>5. pc[ParseToDecode] # "map"  BY <1>0, <2>1 DEF ModesInv, WithPicture
  <2> QED BY <1>0, <2>2, <2>3, <2>4, <2>5
<1>4. ASSUME NEW b \in Buffers, GetDecodeBuffer(b) PROVE Goal
  <2>1. Current = NULL /\ Current' = b
    BY <1>4 DEF GetDecodeBuffer, IInv, CurrentInv, Current
  <2> QED BY <1>4, <2>1
<1>5. ASSUME InputEnd PROVE Goal
  <2>1. \/ Current' = Current
        \/ Current' = NULL /\ frame.structure = Frame
    BY <1>5 DEF InputEnd, Current
  <2>2. pc[ParseToDecode] = "sent"  BY <1>5 DEF InputEnd
  <2>3. Current # NULL /\ frame.structure = Frame => ~Open(Current)
    BY <2>2 DEF IInv, OpenInv, Open
  <2> QED BY <1>0, <2>1, <2>2, <2>3
<1>6. ASSUME HaltAndReset PROVE Goal
  <2>1. Current = NULL /\ Current' = NULL
    BY <1>6 DEF HaltAndReset, IInv, CurrentInv, InSwitch, ModesInv, Current
  <2> QED BY <2>1
<1> USE DEF Current
<1>7. ASSUME NEW t \in Threads, PartialTest(t) \/ \E b \in Buffers : Drops(t, b) \/ Seals(t, b)
      PROVE  Kept
  BY <1>7 DEF PartialTest, Drops, Seals
<1>8. ASSUME NEW t \in Workers,
             \/ ReleasesNothing(t) \/ ReleaseReference(t) \/ ReleaseEnd(t)
             \/ TestMarkerFramePassOn(t) \/ TakeMarkerBuffer(t)
             \/ \E b \in Buffers : Passes(t, b) \/ ReleasesToDiscard(t, b)
      PROVE  Kept
  BY <1>8 DEF ReleasesNothing, ReleaseReference, ReleaseEnd, TestMarkerFramePassOn,
              TakeMarkerBuffer, Passes, ReleasesToDiscard
<1>9. ASSUME NEW b \in Buffers,
             \/ InputMarkerGet(b) \/ ReleaseReferenceFrame(b) \/ ReleaseAll(b)
             \/ ShowsMarker(b) \/ ShowsBuffer(b)
             \/ \E isReference \in {0, 1}, list \in Seq(Buffers) : Bound(b, isReference, list)
             \/ \E seen \in SUBSET Frame : Launched(b, seen)
      PROVE  Kept
  BY <1>9 DEF InputMarkerGet, ReleaseReferenceFrame, ReleaseAll, ShowsMarker, ShowsBuffer,
              Bound, Launched
<1>10. ASSUME \/ SendMMEStreamParameters \/ DropPicture \/ GetDecodeBufferFails \/ Mapped
              \/ SendMMEDecodeCommand \/ \E picture \in Pictures : Input(picture)
       PROVE  Kept
  BY <1>10 DEF SendMMEStreamParameters, DropPicture, Input, GetDecodeBufferFails, Mapped,
               SendMMEDecodeCommand
<1>11. ASSUME \/ InputMarkerTake \/ InputMarkerHold \/ CallbackFromMME \/ Completed
              \/ SwitchCodec \/ UNCHANGED vars
              \/ \E discard, switch \in BOOLEAN : DrainStream(discard, switch)
       PROVE  Kept
  BY <1>11 DEF InputMarkerTake, InputMarkerHold, CallbackFromMME, Completed, DrainStream,
               SwitchCodec, vars
<1> HIDE DEF Kept, Taken, Left, Current
<1>12. Goal
  BY <1>1, <1>2, <1>3, <1>4, <1>5, <1>6, <1>7, <1>8, <1>9, <1>10, <1>11 DEF Steps
<1> QED BY <1>12 DEF Kept, Taken, Left

\* The context of a picture is what the steps of Input have made of it.
LEMMA PictureInvStep ==
  ASSUME IInv, Steps
  PROVE  PictureInv'
<1>0. /\ PictureInv /\ PlacesInv /\ ReturnsInv /\ ThreadTypes
      /\ context \in [Workers -> Short \cup {NULL}]
      /\ \A u \in Workers : HasContext(u) <=> context[u] # NULL
  BY DEF IInv, LocalsInv, TypeInv, CommandTypes
<1> USE DEF Threads, ParseToDecode, MME, PostManifest, Drain, Workers, Goto, buffer,
  counts, marker, thread, bounds, user, ThreadTypes, PlacesInv, ReturnsInv, PictureInv,
  HasContext, Partial
<1>1. ASSUME NEW t \in Threads, NEW b \in Buffers, Drops(t, b) PROVE PictureInv'
  BY <1>1, <1>0 DEF Drops
<1>2. ASSUME NEW t \in Threads, PartialTest(t) PROVE PictureInv'
  BY <1>2, <1>0 DEF PartialTest, AfterPartial
<1>3. ASSUME NEW t \in Threads, NEW b \in Buffers, Seals(t, b) PROVE PictureInv'
  BY <1>3, <1>0 DEF Seals, Open
<1>4. ASSUME NEW t \in Threads, PartialEnd(t) PROVE PictureInv'
  BY <1>4, <1>0 DEF PartialEnd, AfterPartial
<1>5. ASSUME NEW t \in Workers, ReleasesNothing(t) PROVE PictureInv'
  BY <1>5, <1>0 DEF ReleasesNothing
<1>6. ASSUME NEW t \in Workers, NEW b \in Buffers, ReleasesToDiscard(t, b) PROVE PictureInv'
  <2>1. /\ context'[t].DecodeInProgress = FALSE
        /\ \A u \in Workers : u # t => context'[u] = context[u]
    BY DecodeEffect, <1>6 DEF ReleasesToDiscard, ContextBecomes
  <2> QED BY <1>0, <1>6, <2>1 DEF ReleasesToDiscard, ReleasesDecode, DropThen
<1>7. ASSUME NEW t \in Workers, NEW b \in Buffers, ReleasesToOutput(t, b) PROVE PictureInv'
  <2>1. /\ context'[t].DecodeInProgress = FALSE
        /\ \A u \in Workers : u # t => context'[u] = context[u]
    BY DecodeEffect, <1>7 DEF ReleasesToOutput, ContextBecomes
  <2> QED BY <1>0, <1>7, <2>1 DEF ReleasesToOutput, ReleasesDecode
<1>8. ASSUME NEW t \in Workers, NEW b \in Buffers, ReleasesOne(t, b) PROVE PictureInv'
  <2>1. /\ context'[t].DecodeInProgress = FALSE
        /\ \A u \in Workers : u # t => context'[u] = context[u]
    BY DecodeEffect, <1>8 DEF ReleasesOne, ContextBecomes
  <2> QED BY <1>0, <1>8, <2>1 DEF ReleasesOne, ReleasesDecode
<1>9. ASSUME NEW t \in Workers, ReleaseRelock(t) PROVE PictureInv'
  BY <1>9, <1>0 DEF ReleaseRelock, Invalidate
<1>10. ASSUME NEW t \in Workers, ReleaseReference(t) PROVE PictureInv'
  <2>1. \A u \in Workers : u # t => context'[u] = context[u]
    BY ReferenceEffect, <1>10 DEF ContextBecomes
  <2> QED BY <1>0, <1>10, <2>1 DEF ReleaseReference, DropThen
<1>11. ASSUME NEW t \in Workers, ReleaseEnd(t) PROVE PictureInv'
  BY <1>11, <1>0 DEF ReleaseEnd
<1>12. ASSUME NEW t \in Workers, TestMarkerFramePassOn(t) PROVE PictureInv'
  BY <1>12, <1>0 DEF TestMarkerFramePassOn
<1>13. ASSUME NEW t \in Workers, TakeMarkerBuffer(t) PROVE PictureInv'
  BY <1>13, <1>0 DEF TakeMarkerBuffer
<1>14. ASSUME NEW t \in Workers, NEW b \in Buffers, Passes(t, b) PROVE PictureInv'
  BY <1>14, <1>0 DEF Passes
<1>15. ASSUME SendMMEStreamParameters PROVE PictureInv'
  BY <1>15, <1>0 DEF SendMMEStreamParameters, MayInput, NewContext
<1>16. ASSUME DropPicture PROVE PictureInv'
  BY <1>16, <1>0 DEF DropPicture, MayInput
<1>17. ASSUME NEW picture \in Pictures, Input(picture) PROVE PictureInv'
  <2>1. context'[ParseToDecode] = NewContext
    BY InputEffect, <1>17
  <2> QED BY <1>0, <1>17, <2>1 DEF Input
<1>18. ASSUME NEW b \in Buffers, GetDecodeBuffer(b) PROVE PictureInv'
  BY <1>18, <1>0 DEF GetDecodeBuffer
<1>19. ASSUME NEW b \in Buffers, InputMarkerGet(b) PROVE PictureInv'
  BY <1>19, <1>0 DEF InputMarkerGet
<1>20. ASSUME NEW b \in Buffers, ReleaseReferenceFrame(b) PROVE PictureInv'
  BY <1>20, <1>0 DEF ReleaseReferenceFrame, MayInput, DropThen
<1>21. ASSUME NEW b \in Buffers, ReleaseAll(b) PROVE PictureInv'
  BY <1>21, <1>0 DEF ReleaseAll, DropThen
<1>22. ASSUME NEW b \in Buffers, ShowsMarker(b) PROVE PictureInv'
  BY <1>22, <1>0 DEF ShowsMarker
<1>23. ASSUME NEW b \in Buffers, ShowsBuffer(b) PROVE PictureInv'
  BY <1>23, <1>0 DEF ShowsBuffer, DropThen
<1>24. ASSUME GetDecodeBufferFails PROVE PictureInv'
  BY <1>24, <1>0 DEF GetDecodeBufferFails, Fails
<1>25. ASSUME Mapped PROVE PictureInv'
  BY <1>25, <1>0 DEF Mapped
<1>26. ASSUME NEW b \in Buffers, NEW isReference \in {0, 1}, NEW list \in Seq(Buffers), Bound(b,
              isReference, list)
      PROVE  PictureInv'
  <2>1. ContextBecomes(ParseToDecode, 0, b, FALSE, list)  BY BindEffect, <1>26
  <2>2. context'[ParseToDecode].DecodeInProgress = FALSE  BY <2>1 DEF ContextBecomes
  <2> QED BY <1>0, <1>26, <2>2 DEF Bound
<1>27. ASSUME NEW b \in Buffers, NEW seen \in SUBSET Frame, Launched(b, seen) PROVE PictureInv'
  <2>1. context'[ParseToDecode].DecodeInProgress = TRUE
    BY LaunchEffect, <1>27 DEF ContextBecomes
  <2> QED BY <1>0, <1>27, <2>1 DEF Launched
<1>28. ASSUME SendMMEDecodeCommand PROVE PictureInv'
  BY <1>28, <1>0 DEF SendMMEDecodeCommand, Fails
<1>29. ASSUME InputEnd PROVE PictureInv'
  BY <1>29, <1>0 DEF InputEnd
<1>30. ASSUME InputMarkerTake PROVE PictureInv'
  BY <1>30, <1>0 DEF InputMarkerTake
<1>31. ASSUME InputMarkerHold PROVE PictureInv'
  BY <1>31, <1>0 DEF InputMarkerHold
<1>32. ASSUME CallbackFromMME PROVE PictureInv'
  <2>1. context'[ParseToDecode] = context[ParseToDecode]
    BY CallbackEffect, <1>32 DEF ContextBecomes, Workers, ParseToDecode, MME
  <2> QED BY <1>0, <1>32, <2>1 DEF CallbackFromMME
<1>33. ASSUME Completed PROVE PictureInv'
  BY <1>33, <1>0 DEF Completed
<1>34. ASSUME NEW discard \in BOOLEAN, NEW switch \in BOOLEAN, DrainStream(discard, switch)
      PROVE  PictureInv'
  BY <1>34, <1>0 DEF DrainStream
<1>35. ASSUME SwitchCodec PROVE PictureInv'
  BY <1>35, <1>0 DEF SwitchCodec
<1>36. ASSUME HaltAndReset PROVE PictureInv'
  BY <1>36, <1>0 DEF HaltAndReset
<1>37. ASSUME UNCHANGED vars PROVE PictureInv'
  BY <1>37, <1>0 DEF vars
<1> HIDE DEF PictureInv
<1> QED BY <1>1, <1>2, <1>3, <1>4, <1>5, <1>6, <1>7, <1>8, <1>9, <1>10, <1>11, <1>12,
  <1>13, <1>14, <1>15, <1>16, <1>17, <1>18, <1>19, <1>20, <1>21, <1>22, <1>23, <1>24,
  <1>25, <1>26, <1>27, <1>28, <1>29, <1>30, <1>31, <1>32, <1>33, <1>34, <1>35, <1>36, <1>37
  DEF Steps

\* The index of the current buffer is valid where Input uses it, though callback and drain

\* may invalidate it: they do for a buffer that is complete or sealed, and Input has an
\* open one.
LEMMA CurrentInvStep ==
  ASSUME IInv, Steps
  PROVE  CurrentInv'
<1>0. /\ CurrentInv /\ PlacesInv /\ ReturnsInv /\ ModesInv /\ ThreadTypes
      /\ CurrentDecodeBufferIndex \in Buffers \cup {NULL} /\ NULL \notin Buffers
      /\ context \in [Workers -> Short \cup {NULL}]
      /\ \A u \in Workers : HasContext(u) <=> context[u] # NULL
  BY CodecAssumption DEF IInv, LocalsInv, TypeInv, CommandTypes, BufferTypes
<1>c. /\ \/ Current' = Current
         \/ Current = NULL /\ pc[ParseToDecode] = "get" /\ pc'[ParseToDecode] = "map"
         \/ Current' = NULL
      /\ pc[ParseToDecode] \in {"map", "bind", "launch", "seal"} \/ pc[Drain] = "seal" =>
           Current' = Current
  <2>1. pc[ParseToDecode] \in {"bind", "launch", "seal"} \/ pc[Drain] = "seal" => Open(Current)
    BY <1>0, BoundIsOpen DEF OpenInv, CurrentInv, ModesInv, Decoding, DecodesInv, IInv
  <2>2. pc[ParseToDecode] = "map" \/ pc[Drain] = "seal" => pc[ParseToDecode] # "get"
    BY <1>0 DEF ModesInv
  <2>3. ASSUME NEW b \in Buffers, GetDecodeBuffer(b)
        PROVE  pc[ParseToDecode] = "get" /\ pc'[ParseToDecode] = "map"
    BY <1>0, <2>3 DEF GetDecodeBuffer, Goto, ThreadTypes, Threads
  <2> QED BY <2>1, <2>2, <2>3, CurrentChange
<1> USE DEF Threads, ParseToDecode, MME, PostManifest, Drain, Workers, Goto, buffer,
  counts, marker, thread, bounds, user, ThreadTypes, PlacesInv, ReturnsInv, ModesInv,
  CurrentInv, Current, InSwitch, WithPicture, Discarding, Decoding, HasContext, Partial
<1>1. ASSUME NEW t \in Threads, NEW b \in Buffers, Drops(t, b) PROVE CurrentInv'
  BY <1>1, <1>0, <1>c DEF Drops
<1>2. ASSUME NEW t \in Threads, PartialTest(t) PROVE CurrentInv'
  BY <1>2, <1>0, <1>c DEF PartialTest, AfterPartial
<1>3. ASSUME NEW t \in Threads, NEW b \in Buffers, Seals(t, b) PROVE CurrentInv'
  BY <1>3, <1>0, <1>c DEF Seals, Open
<1>4. ASSUME NEW t \in Threads, PartialEnd(t) PROVE CurrentInv'
  BY <1>4, <1>0, <1>c DEF PartialEnd, AfterPartial
<1>5. ASSUME NEW t \in Workers, ReleasesNothing(t) PROVE CurrentInv'
  BY <1>5, <1>0, <1>c DEF ReleasesNothing
<1>6. ASSUME NEW t \in Workers, NEW b \in Buffers, ReleasesToDiscard(t, b) PROVE CurrentInv'
  <2>1. /\ context'[t].DecodeInProgress = FALSE /\ context'[t].BufferIndex = b
        /\ \A u \in Workers : u # t => context'[u] = context[u]
    BY DecodeEffect, <1>6 DEF ReleasesToDiscard, ContextBecomes
  <2>2. drain # "none" /\ ~WithPicture /\ ~InSwitch /\ t = MME
    BY <1>0, <1>6 DEF ReleasesToDiscard, ReleasesDecode, IInv, CountsInv, TypeInv, NumberTypes,
                      WithPicture, Settled, CallbackBusy
  <2>3. Current = b => pc[Drain] = "sealed"
    <3>1. OpenInv /\ ~Open(b) /\ b # NULL
      BY <1>0, <1>6 DEF ReleasesToDiscard, Completes, IInv, Open
    <3> QED BY <2>2, <3>1 DEF OpenInv
  <2> QED BY <1>0, <1>c, <1>6, <2>1, <2>2, <2>3 DEF ReleasesToDiscard, ReleasesDecode, DropThen
<1>7. ASSUME NEW t \in Workers, NEW b \in Buffers, ReleasesToOutput(t, b) PROVE CurrentInv'
  <2>1. /\ context'[t].DecodeInProgress = FALSE /\ context'[t].BufferIndex = context[t].BufferIndex
        /\ \A u \in Workers : u # t => context'[u] = context[u]
    BY DecodeEffect, <1>7 DEF ReleasesToOutput, ReleasesDecode, ContextBecomes
  <2> QED BY <1>0, <1>c, <1>7, <2>1 DEF ReleasesToOutput, ReleasesDecode
<1>8. ASSUME NEW t \in Workers, NEW b \in Buffers, ReleasesOne(t, b) PROVE CurrentInv'
  <2>1. /\ context'[t].DecodeInProgress = FALSE /\ context'[t].BufferIndex = context[t].BufferIndex
        /\ \A u \in Workers : u # t => context'[u] = context[u]
    BY DecodeEffect, <1>8 DEF ReleasesOne, ReleasesDecode, ContextBecomes
  <2> QED BY <1>0, <1>c, <1>8, <2>1 DEF ReleasesOne, ReleasesDecode
<1>9. ASSUME NEW t \in Workers, ReleaseRelock(t) PROVE CurrentInv'
  BY <1>9, <1>0, <1>c DEF ReleaseRelock, Invalidate
<1>10. ASSUME NEW t \in Workers, ReleaseReference(t) PROVE CurrentInv'
  <2>1. /\ Decoding(t)' => Decoding(t)
        /\ context'[t].BufferIndex = context[t].BufferIndex
        /\ \A u \in Workers : u # t => context'[u] = context[u]
    BY ReferenceEffect, <1>10, CodecAssumption DEF ContextBecomes, Decoding, Short
  <2> QED BY <1>0, <1>c, <1>10, <2>1 DEF ReleaseReference, DropThen
<1>11. ASSUME NEW t \in Workers, ReleaseEnd(t) PROVE CurrentInv'
  BY <1>11, <1>0, <1>c DEF ReleaseEnd
<1>12. ASSUME NEW t \in Workers, TestMarkerFramePassOn(t) PROVE CurrentInv'
  BY <1>12, <1>0, <1>c DEF TestMarkerFramePassOn
<1>13. ASSUME NEW t \in Workers, TakeMarkerBuffer(t) PROVE CurrentInv'
  BY <1>13, <1>0, <1>c DEF TakeMarkerBuffer
<1>14. ASSUME NEW t \in Workers, NEW b \in Buffers, Passes(t, b) PROVE CurrentInv'
  BY <1>14, <1>0, <1>c DEF Passes
<1>15. ASSUME SendMMEStreamParameters PROVE CurrentInv'
  BY <1>15, <1>0, <1>c DEF SendMMEStreamParameters, MayInput, NewContext
<1>16. ASSUME DropPicture PROVE CurrentInv'
  BY <1>16, <1>0, <1>c DEF DropPicture, MayInput
<1>17. ASSUME NEW picture \in Pictures, Input(picture) PROVE CurrentInv'
  <2>1. ~Decoding(ParseToDecode)' /\ context'[MME] = context[MME]
    BY InputEffect, <1>17 DEF NewContext, Decoding
  <2> QED BY <1>0, <1>c, <1>17, <2>1 DEF Input
<1>18. ASSUME NEW b \in Buffers, GetDecodeBuffer(b) PROVE CurrentInv'
  <2>1. ~Decoding(ParseToDecode)  BY <1>18 DEF GetDecodeBuffer, IInv, DecodesInv
  <2> QED BY <1>0, <1>18, <2>1 DEF GetDecodeBuffer
<1>19. ASSUME NEW b \in Buffers, InputMarkerGet(b) PROVE CurrentInv'
  BY <1>19, <1>0, <1>c DEF InputMarkerGet
<1>20. ASSUME NEW b \in Buffers, ReleaseReferenceFrame(b) PROVE CurrentInv'
  BY <1>20, <1>0, <1>c DEF ReleaseReferenceFrame, MayInput, DropThen
<1>21. ASSUME NEW b \in Buffers, ReleaseAll(b) PROVE CurrentInv'
  BY <1>21, <1>0, <1>c DEF ReleaseAll, DropThen
<1>22. ASSUME NEW b \in Buffers, ShowsMarker(b) PROVE CurrentInv'
  BY <1>22, <1>0, <1>c DEF ShowsMarker
<1>23. ASSUME NEW b \in Buffers, ShowsBuffer(b) PROVE CurrentInv'
  BY <1>23, <1>0, <1>c DEF ShowsBuffer, DropThen
<1>24. ASSUME GetDecodeBufferFails PROVE CurrentInv'
  BY <1>24, <1>0, <1>c DEF GetDecodeBufferFails, Fails
<1>25. ASSUME Mapped PROVE CurrentInv'
  BY <1>25, <1>0, <1>c DEF Mapped
<1>26. ASSUME NEW b \in Buffers, NEW isReference \in {0, 1}, NEW list \in Seq(Buffers), Bound(b,
              isReference, list)
      PROVE  CurrentInv'
  <2>1. ContextBecomes(ParseToDecode, 0, b, FALSE, list)  BY BindEffect, <1>26
  <2>2. /\ ~Decoding(ParseToDecode)' /\ context'[ParseToDecode].BufferIndex = b
        /\ context'[MME] = context[MME]
    BY <2>1 DEF ContextBecomes, Decoding
  <2> QED BY <1>0, <1>c, <1>26, <2>2 DEF Bound
<1>27. ASSUME NEW b \in Buffers, NEW seen \in SUBSET Frame, Launched(b, seen) PROVE CurrentInv'
  <2>1. context'[ParseToDecode].BufferIndex = b /\ context'[MME] = context[MME]
    BY LaunchEffect, <1>27 DEF ContextBecomes
  <2> QED BY <1>0, <1>c, <1>27, <2>1 DEF Launched
<1>28. ASSUME SendMMEDecodeCommand PROVE CurrentInv'
  BY <1>28, <1>0, <1>c DEF SendMMEDecodeCommand, Fails
<1>29. ASSUME InputEnd PROVE CurrentInv'
  BY <1>29, <1>0, <1>c DEF InputEnd
<1>30. ASSUME InputMarkerTake PROVE CurrentInv'
  BY <1>30, <1>0, <1>c DEF InputMarkerTake
<1>31. ASSUME InputMarkerHold PROVE CurrentInv'
  BY <1>31, <1>0, <1>c DEF InputMarkerHold
<1>32. ASSUME CallbackFromMME PROVE CurrentInv'
  <2>1. context'[ParseToDecode] = context[ParseToDecode]
    BY CallbackEffect, <1>32 DEF ContextBecomes, Workers, ParseToDecode, MME
  <2> QED BY <1>0, <1>c, <1>32, <2>1 DEF CallbackFromMME
<1>33. ASSUME Completed PROVE CurrentInv'
  BY <1>33, <1>0, <1>c DEF Completed
<1>34. ASSUME NEW discard \in BOOLEAN, NEW switch \in BOOLEAN, DrainStream(discard, switch)
      PROVE  CurrentInv'
  BY <1>34, <1>0, <1>c DEF DrainStream
<1>35. ASSUME SwitchCodec PROVE CurrentInv'
  BY <1>35, <1>0, <1>c DEF SwitchCodec
<1>36. ASSUME HaltAndReset PROVE CurrentInv'
  BY <1>36, <1>0, <1>c DEF HaltAndReset
<1>37. ASSUME UNCHANGED vars PROVE CurrentInv'
  BY <1>37, <1>0, <1>c DEF vars
<1> HIDE DEF CurrentInv
<1> QED BY <1>1, <1>2, <1>3, <1>4, <1>5, <1>6, <1>7, <1>8, <1>9, <1>10, <1>11, <1>12,
  <1>13, <1>14, <1>15, <1>16, <1>17, <1>18, <1>19, <1>20, <1>21, <1>22, <1>23, <1>24,
  <1>25, <1>26, <1>27, <1>28, <1>29, <1>30, <1>31, <1>32, <1>33, <1>34, <1>35, <1>36, <1>37
  DEF Steps

OnlyCurrentOpen == \A b \in Buffers : Open(b) => Current = b

\* A second buffer is opened only when the first has been sealed.
LEMMA OnlyCurrentOpenStep == ASSUME IInv, Steps PROVE OnlyCurrentOpen'
<1>1. ASSUME NEW b \in Buffers, Open(b)' PROVE Current' = b
  <2>1. CASE Mapped /\ b = Current  BY <2>1 DEF Mapped, Current
  <2>2. CASE Open(b)
    <3>1. Current = b /\ b # NULL  BY <2>2, CodecAssumption DEF IInv, OpenInv
    <3> QED BY <2>2, <3>1, CurrentChange
  <2> QED BY <1>1, <2>1, <2>2, OpenChange
<1> QED BY <1>1 DEF OnlyCurrentOpen

\* The rest of OpenInv but for the decodes of the picture at hand.
CurrentIsOpen ==
  /\ Current # NULL =>
       \/ Open(Current)
       \/ pc[ParseToDecode] \in {"map", "send", "sent", "sealed"}
       \/ pc[ParseToDecode] = "release" /\ Decoding(ParseToDecode)
       \/ pc[Drain] = "sealed"
  /\ \A t \in {ParseToDecode, Drain} :
       pc[t] = "sealed" /\ Current # NULL => ~Open(Current)

\* What is known of a step when the buffer is at issue.
LEMMA CurrentStays ==
  ASSUME IInv, Steps, Current' # NULL, pc'[ParseToDecode] # "map" \/ pc[ParseToDecode] # "get"
  PROVE  /\ Current' = Current /\ Current \in Buffers
         /\ Open(Current)' => Open(Current) \/ Mapped
         /\ Open(Current) => \/ Open(Current)'
                             \/ \E t \in {ParseToDecode, Drain} : pc'[t] = "sealed"
                             \/ pc'[ParseToDecode] = "send"
<1>1. \A b \in Buffers : GetDecodeBuffer(b) =>
        pc[ParseToDecode] = "get" /\ pc'[ParseToDecode] = "map"
  BY DEF GetDecodeBuffer, Goto, IInv, TypeInv, ThreadTypes, Threads
<1>2. Current' = Current  BY <1>1, CurrentChange
<1>3. Current \in Buffers  BY <1>2 DEF IInv, TypeInv, BufferTypes, Current
<1>4. \A b \in Buffers : \A t \in {ParseToDecode, Drain} : Seals(t, b) => pc'[t] = "sealed"
  BY DEF Seals, Goto, IInv, TypeInv, ThreadTypes, Threads
<1>5. \A b \in Buffers, seen \in SUBSET Frame : Launched(b, seen) => pc'[ParseToDecode] = "send"
  BY DEF Launched, Goto, IInv, TypeInv, ThreadTypes, Threads
<1>6. /\ Open(Current)' <=> \E b \in Buffers : b = Current' /\ Open(b)'
      /\ \A b \in Buffers : b = Current => (Open(Current) <=> Open(b))
  BY <1>2, <1>3 DEF Open
<1> QED BY <1>2, <1>3, <1>4, <1>5, <1>6, OpenChange

\* The current buffer is open but for the moments named.
LEMMA CurrentIsOpenStep ==
  ASSUME IInv, Steps
  PROVE  CurrentIsOpen'
<1>0. /\ CurrentIsOpen /\ PlacesInv /\ ReturnsInv /\ ModesInv /\ ThreadTypes
      /\ context \in [Workers -> Short \cup {NULL}]
      /\ \A u \in Workers : HasContext(u) <=> context[u] # NULL
  BY DEF IInv, OpenInv, CurrentIsOpen, LocalsInv, TypeInv, CommandTypes
<1>s. Current' # NULL /\ (pc'[ParseToDecode] # "map" \/ pc[ParseToDecode] # "get") =>
        /\ Current' = Current
        /\ Open(Current)' => Open(Current) \/ pc[ParseToDecode] = "map"
        /\ Open(Current) => \/ Open(Current)'
                            \/ \E t \in {ParseToDecode, Drain} : pc'[t] = "sealed"
                            \/ pc'[ParseToDecode] = "send"
  BY CurrentStays DEF Mapped
<1> USE DEF Threads, ParseToDecode, MME, PostManifest, Drain, Workers, Goto, buffer,
  counts, marker, thread, bounds, user, ThreadTypes, PlacesInv, ReturnsInv, ModesInv,
  CurrentIsOpen, Current, WithPicture, HasContext, Partial, Decoding
<1>1. ASSUME NEW t \in Threads, NEW b \in Buffers, Drops(t, b) PROVE CurrentIsOpen'
  BY <1>1, <1>0, <1>s DEF Drops
<1>2. ASSUME NEW t \in Threads, PartialTest(t) PROVE CurrentIsOpen'
  BY <1>2, <1>0, <1>s DEF PartialTest, AfterPartial
<1>3. ASSUME NEW t \in Threads, NEW b \in Buffers, Seals(t, b) PROVE CurrentIsOpen'
  <2>1. ~Open(Current)'
    BY <1>3 DEF Seals, Open, IInv, TypeInv, BufferTypes
  <2> QED BY <1>0, <1>s, <1>3, <2>1 DEF Seals
<1>4. ASSUME NEW t \in Threads, PartialEnd(t) PROVE CurrentIsOpen'
  BY <1>4, <1>0, <1>s DEF PartialEnd, AfterPartial
<1>5. ASSUME NEW t \in Workers, ReleasesNothing(t) PROVE CurrentIsOpen'
  BY <1>5, <1>0, <1>s DEF ReleasesNothing
<1>6. ASSUME NEW t \in Workers, NEW b \in Buffers, ReleasesToDiscard(t, b) PROVE CurrentIsOpen'
  <2>1. \A u \in Workers : u # t => context'[u] = context[u]
    BY DecodeEffect, <1>6 DEF ReleasesToDiscard, ContextBecomes
  <2>2. t = ParseToDecode /\ Current # NULL => Current = b
    BY <1>6 DEF ReleasesToDiscard, ReleasesDecode, IInv, CurrentInv, Decoding
  <2>3. t = ParseToDecode => FALSE
    BY <1>0, <1>6, <2>2 DEF ReleasesToDiscard, ReleasesDecode, IInv, CountsInv, TypeInv,
                            NumberTypes
  <2> QED BY <1>0, <1>s, <1>6, <2>1, <2>3 DEF ReleasesToDiscard, ReleasesDecode, DropThen,
          Decoding
<1>7. ASSUME NEW t \in Workers, NEW b \in Buffers, ReleasesToOutput(t, b) PROVE CurrentIsOpen'
  <2>1. \A u \in Workers : u # t => context'[u] = context[u]
    BY DecodeEffect, <1>7 DEF ReleasesToOutput, ContextBecomes
  <2>2. t = ParseToDecode /\ Current # NULL => Current = b
    BY <1>7 DEF ReleasesToOutput, ReleasesDecode, IInv, CurrentInv, Decoding
  <2>3. t = ParseToDecode => Current' = NULL
    BY <1>0, <1>7, <2>2 DEF ReleasesToOutput, Invalidate
  <2> QED BY <1>0, <1>s, <1>7, <2>1, <2>3 DEF ReleasesToOutput, ReleasesDecode, Decoding
<1>8. ASSUME NEW t \in Workers, NEW b \in Buffers, ReleasesOne(t, b) PROVE CurrentIsOpen'
  <2>1. \A u \in Workers : u # t => context'[u] = context[u]
    BY DecodeEffect, <1>8 DEF ReleasesOne, ContextBecomes
  <2>2. t = ParseToDecode /\ Current # NULL => Current = b
    BY <1>8 DEF ReleasesOne, ReleasesDecode, IInv, CurrentInv, Decoding
  <2>3. t = ParseToDecode => Current' = NULL \/ Open(Current)
    BY <1>0, <1>8, <2>2 DEF ReleasesOne, ReleasesDecode, Invalidate, Open
  <2> QED BY <1>0, <1>s, <1>8, <2>1, <2>3 DEF ReleasesOne, ReleasesDecode, Decoding
<1>9. ASSUME NEW t \in Workers, ReleaseRelock(t) PROVE CurrentIsOpen'
  BY <1>9, <1>0, <1>s DEF ReleaseRelock, Invalidate
<1>10. ASSUME NEW t \in Workers, ReleaseReference(t) PROVE CurrentIsOpen'
  <2>1. \A u \in Workers : u # t => context'[u] = context[u]
    BY ReferenceEffect, <1>10 DEF ContextBecomes
  <2> QED BY <1>0, <1>s, <1>10, <2>1 DEF ReleaseReference, DropThen, Decoding
<1>11. ASSUME NEW t \in Workers, ReleaseEnd(t) PROVE CurrentIsOpen'
  BY <1>11, <1>0, <1>s DEF ReleaseEnd, Decoding
<1>12. ASSUME NEW t \in Workers, TestMarkerFramePassOn(t) PROVE CurrentIsOpen'
  BY <1>12, <1>0, <1>s DEF TestMarkerFramePassOn
<1>13. ASSUME NEW t \in Workers, TakeMarkerBuffer(t) PROVE CurrentIsOpen'
  BY <1>13, <1>0, <1>s DEF TakeMarkerBuffer
<1>14. ASSUME NEW t \in Workers, NEW b \in Buffers, Passes(t, b) PROVE CurrentIsOpen'
  BY <1>14, <1>0, <1>s DEF Passes
<1>15. ASSUME SendMMEStreamParameters PROVE CurrentIsOpen'
  BY <1>15, <1>0, <1>s DEF SendMMEStreamParameters, MayInput, NewContext
<1>16. ASSUME DropPicture PROVE CurrentIsOpen'
  BY <1>16, <1>0, <1>s DEF DropPicture, MayInput
<1>17. ASSUME NEW picture \in Pictures, Input(picture) PROVE CurrentIsOpen'
  BY <1>17, <1>0, <1>s DEF Input, MayInput
<1>18. ASSUME NEW b \in Buffers, GetDecodeBuffer(b) PROVE CurrentIsOpen'
  BY <1>18, <1>0, <1>s DEF GetDecodeBuffer
<1>19. ASSUME NEW b \in Buffers, InputMarkerGet(b) PROVE CurrentIsOpen'
  BY <1>19, <1>0, <1>s DEF InputMarkerGet
<1>20. ASSUME NEW b \in Buffers, ReleaseReferenceFrame(b) PROVE CurrentIsOpen'
  BY <1>20, <1>0, <1>s DEF ReleaseReferenceFrame, MayInput, DropThen
<1>21. ASSUME NEW b \in Buffers, ReleaseAll(b) PROVE CurrentIsOpen'
  BY <1>21, <1>0, <1>s DEF ReleaseAll, DropThen
<1>22. ASSUME NEW b \in Buffers, ShowsMarker(b) PROVE CurrentIsOpen'
  BY <1>22, <1>0, <1>s DEF ShowsMarker
<1>23. ASSUME NEW b \in Buffers, ShowsBuffer(b) PROVE CurrentIsOpen'
  BY <1>23, <1>0, <1>s DEF ShowsBuffer, DropThen
<1>24. ASSUME GetDecodeBufferFails PROVE CurrentIsOpen'
  BY <1>24, <1>0, <1>s DEF GetDecodeBufferFails, Fails
<1>25. ASSUME Mapped PROVE CurrentIsOpen'
  <2>1. Open(Current)'
    BY <1>25 DEF Mapped, Open, IInv, TypeInv, BufferTypes, Unused
  <2> QED BY <1>0, <1>25, <2>1 DEF Mapped
<1>26. ASSUME NEW b \in Buffers, NEW isReference \in {0, 1}, NEW list \in Seq(Buffers), Bound(b,
              isReference, list)
      PROVE  CurrentIsOpen'
  BY <1>26, <1>0, <1>s DEF Bound
<1>27. ASSUME NEW b \in Buffers, NEW seen \in SUBSET Frame, Launched(b, seen)
      PROVE  CurrentIsOpen'
  BY <1>27, <1>0, <1>s DEF Launched
<1>28. ASSUME SendMMEDecodeCommand PROVE CurrentIsOpen'
  <2>1. pc'[ParseToDecode] = "release" => Decoding(ParseToDecode)'
    BY <1>0, <1>28 DEF SendMMEDecodeCommand, Fails, IInv, PictureInv, Decoding
  <2> QED BY <1>0, <1>s, <1>28, <2>1 DEF SendMMEDecodeCommand, Fails
<1>29. ASSUME InputEnd PROVE CurrentIsOpen'
  <2>1. Current' # NULL => Current # NULL /\ frame.structure # Frame
    BY <1>29 DEF InputEnd
  <2>2. Current' # NULL => Open(Current)
    BY <1>29, <2>1 DEF InputEnd, IInv, OpenInv, Open, InCodec
  <2> QED BY <1>0, <1>s, <1>29, <2>2 DEF InputEnd
<1>30. ASSUME InputMarkerTake PROVE CurrentIsOpen'
  BY <1>30, <1>0, <1>s DEF InputMarkerTake
<1>31. ASSUME InputMarkerHold PROVE CurrentIsOpen'
  BY <1>31, <1>0, <1>s DEF InputMarkerHold
<1>32. ASSUME CallbackFromMME PROVE CurrentIsOpen'
  <2>1. context'[ParseToDecode] = context[ParseToDecode]
    BY CallbackEffect, <1>32 DEF ContextBecomes, Workers, ParseToDecode, MME
  <2> QED BY <1>0, <1>s, <1>32, <2>1 DEF CallbackFromMME, Decoding
<1>33. ASSUME Completed PROVE CurrentIsOpen'
  BY <1>33, <1>0, <1>s DEF Completed
<1>34. ASSUME NEW discard \in BOOLEAN, NEW switch \in BOOLEAN, DrainStream(discard, switch)
      PROVE  CurrentIsOpen'
  BY <1>34, <1>0, <1>s DEF DrainStream
<1>35. ASSUME SwitchCodec PROVE CurrentIsOpen'
  BY <1>35, <1>0, <1>s DEF SwitchCodec
<1>36. ASSUME HaltAndReset PROVE CurrentIsOpen'
  BY <1>36, <1>0, <1>s DEF HaltAndReset
<1>37. ASSUME UNCHANGED vars PROVE CurrentIsOpen'
  BY <1>37, <1>0, <1>s DEF vars
<1> HIDE DEF CurrentIsOpen
<1> QED BY <1>1, <1>2, <1>3, <1>4, <1>5, <1>6, <1>7, <1>8, <1>9, <1>10, <1>11, <1>12,
  <1>13, <1>14, <1>15, <1>16, <1>17, <1>18, <1>19, <1>20, <1>21, <1>22, <1>23, <1>24,
  <1>25, <1>26, <1>27, <1>28, <1>29, <1>30, <1>31, <1>32, <1>33, <1>34, <1>35, <1>36, <1>37
  DEF Steps

\* A picture that is decoded into the current buffer keeps it the codec's, and has the
\* buffer completed just when all of the picture has been seen.
WithDecode == pc[ParseToDecode] = "sent" \/ Decoding(ParseToDecode)
CurrentDecoded ==
  WithDecode /\ Current # NULL =>
    /\ InCodec(Current)
    /\ BufferState[Current].OutputOnDecodesComplete <=> frame.structure = Frame

\* A decode that the stream's process is with has been launched, by this step or before
\* it, and the picture is the same.
WithDecodeBefore ==
  WithDecode' =>
    \/ \E b \in Buffers, seen \in SUBSET Frame : Launched(b, seen)
    \/ WithDecode /\ frame' = frame

\* Where a picture was before it had a decode under way into the current buffer.
LEMMA WithDecodeBeforeStep ==
  ASSUME IInv, Steps
  PROVE  WithDecodeBefore
<1>0. /\ PlacesInv /\ ReturnsInv /\ ThreadTypes
      /\ context \in [Workers -> Short \cup {NULL}]
      /\ Decoding(ParseToDecode) => pc[ParseToDecode] \in {"send", "release"}
      /\ pc[ParseToDecode] = "send" => Decoding(ParseToDecode)
      /\ pc[ParseToDecode] \in {"send", "release"} => context[ParseToDecode] # NULL
  BY DEF IInv, LocalsInv, TypeInv, CommandTypes, DecodesInv, PictureInv, Workers, Decoding,
         HasContext
<1> USE DEF Threads, ParseToDecode, MME, PostManifest, Drain, Workers, Goto, buffer,
  counts, marker, thread, bounds, user, ThreadTypes, PlacesInv, ReturnsInv, Partial,
  Decoding, WithDecode, WithDecodeBefore
<1>1. ASSUME NEW t \in Threads, NEW b \in Buffers, Drops(t, b) PROVE WithDecodeBefore
  BY <1>1, <1>0 DEF Drops
<1>2. ASSUME NEW t \in Threads, PartialTest(t) PROVE WithDecodeBefore
  BY <1>2, <1>0 DEF PartialTest, AfterPartial
<1>3. ASSUME NEW t \in Threads, NEW b \in Buffers, Seals(t, b) PROVE WithDecodeBefore
  BY <1>3, <1>0 DEF Seals, Open
<1>4. ASSUME NEW t \in Threads, PartialEnd(t) PROVE WithDecodeBefore
  BY <1>4, <1>0 DEF PartialEnd, AfterPartial
<1>5. ASSUME NEW t \in Workers, ReleasesNothing(t) PROVE WithDecodeBefore
  BY <1>5, <1>0 DEF ReleasesNothing
<1>6. ASSUME NEW t \in Workers, NEW b \in Buffers, ReleasesToDiscard(t, b)
      PROVE  WithDecodeBefore
  <2>1. \A u \in Workers : u # t => context'[u] = context[u]
    BY DecodeEffect, <1>6 DEF ReleasesToDiscard, ContextBecomes
  <2>2. t = ParseToDecode => ~Decoding(t)'
    BY DecodeEffect, <1>6 DEF ReleasesToDiscard, ContextBecomes, Decoding
  <2> QED BY <1>0, <1>6, <2>1, <2>2 DEF ReleasesToDiscard, ReleasesDecode, DropThen, Decoding
<1>7. ASSUME NEW t \in Workers, NEW b \in Buffers, ReleasesToOutput(t, b) PROVE WithDecodeBefore
  <2>1. \A u \in Workers : u # t => context'[u] = context[u]
    BY DecodeEffect, <1>7 DEF ReleasesToOutput, ContextBecomes
  <2>2. t = ParseToDecode => ~Decoding(t)'
    BY DecodeEffect, <1>7 DEF ReleasesToOutput, ContextBecomes, Decoding
  <2> QED BY <1>0, <1>7, <2>1, <2>2 DEF ReleasesToOutput, ReleasesDecode, DropThen, Decoding
<1>8. ASSUME NEW t \in Workers, NEW b \in Buffers, ReleasesOne(t, b) PROVE WithDecodeBefore
  <2>1. \A u \in Workers : u # t => context'[u] = context[u]
    BY DecodeEffect, <1>8 DEF ReleasesOne, ContextBecomes
  <2>2. t = ParseToDecode => ~Decoding(t)'
    BY DecodeEffect, <1>8 DEF ReleasesOne, ContextBecomes, Decoding
  <2> QED BY <1>0, <1>8, <2>1, <2>2 DEF ReleasesOne, ReleasesDecode, DropThen, Decoding
<1>9. ASSUME NEW t \in Workers, ReleaseRelock(t) PROVE WithDecodeBefore
  BY <1>9, <1>0 DEF ReleaseRelock, Invalidate
<1>10. ASSUME NEW t \in Workers, ReleaseReference(t) PROVE WithDecodeBefore
  <2>1. \A u \in Workers : u # t => context'[u] = context[u]
    BY ReferenceEffect, <1>10 DEF ContextBecomes
  <2>2. t = ParseToDecode => ~Decoding(t)'
    <3>1. /\ context[t] \in Short /\ context'[t].DecodeInProgress = context[t].DecodeInProgress
      BY ReferenceEffect, <1>10 DEF ContextBecomes
    <3>2. t = ParseToDecode => ~Decoding(t)  BY <1>0, <1>10 DEF ReleaseReference
    <3> QED BY <3>1, <3>2, CodecAssumption DEF Short
  <2> QED BY <1>0, <1>10, <2>1, <2>2 DEF ReleaseReference, DropThen, Decoding
<1>11. ASSUME NEW t \in Workers, ReleaseEnd(t) PROVE WithDecodeBefore
  BY <1>11, <1>0 DEF ReleaseEnd
<1>12. ASSUME NEW t \in Workers, TestMarkerFramePassOn(t) PROVE WithDecodeBefore
  BY <1>12, <1>0 DEF TestMarkerFramePassOn
<1>13. ASSUME NEW t \in Workers, TakeMarkerBuffer(t) PROVE WithDecodeBefore
  BY <1>13, <1>0 DEF TakeMarkerBuffer
<1>14. ASSUME NEW t \in Workers, NEW b \in Buffers, Passes(t, b) PROVE WithDecodeBefore
  BY <1>14, <1>0 DEF Passes
<1>15. ASSUME SendMMEStreamParameters PROVE WithDecodeBefore
  BY <1>15, <1>0 DEF SendMMEStreamParameters, MayInput, NewContext
<1>16. ASSUME DropPicture PROVE WithDecodeBefore
  BY <1>16, <1>0 DEF DropPicture, MayInput
<1>17. ASSUME NEW picture \in Pictures, Input(picture) PROVE WithDecodeBefore
  BY <1>17, <1>0 DEF Input, MayInput, NewContext
<1>18. ASSUME NEW b \in Buffers, GetDecodeBuffer(b) PROVE WithDecodeBefore
  BY <1>18, <1>0 DEF GetDecodeBuffer
<1>19. ASSUME NEW b \in Buffers, InputMarkerGet(b) PROVE WithDecodeBefore
  BY <1>19, <1>0 DEF InputMarkerGet
<1>20. ASSUME NEW b \in Buffers, ReleaseReferenceFrame(b) PROVE WithDecodeBefore
  BY <1>20, <1>0 DEF ReleaseReferenceFrame, MayInput, DropThen
<1>21. ASSUME NEW b \in Buffers, ReleaseAll(b) PROVE WithDecodeBefore
  BY <1>21, <1>0 DEF ReleaseAll, DropThen
<1>22. ASSUME NEW b \in Buffers, ShowsMarker(b) PROVE WithDecodeBefore
  BY <1>22, <1>0 DEF ShowsMarker
<1>23. ASSUME NEW b \in Buffers, ShowsBuffer(b) PROVE WithDecodeBefore
  BY <1>23, <1>0 DEF ShowsBuffer, DropThen
<1>24. ASSUME GetDecodeBufferFails PROVE WithDecodeBefore
  BY <1>24, <1>0 DEF GetDecodeBufferFails, Fails
<1>25. ASSUME Mapped PROVE WithDecodeBefore
  BY <1>25, <1>0 DEF Mapped
<1>26. ASSUME NEW b \in Buffers, NEW isReference \in {0, 1}, NEW list \in Seq(Buffers), Bound(b,
              isReference, list)
      PROVE  WithDecodeBefore
  <2>1. ~Decoding(ParseToDecode)'
    BY BindEffect, <1>26 DEF ContextBecomes, Decoding
  <2> QED BY <1>0, <1>26, <2>1 DEF Bound
<1>27. ASSUME NEW b \in Buffers, NEW seen \in SUBSET Frame, Launched(b, seen)
      PROVE  WithDecodeBefore
  BY <1>27
<1>28. ASSUME SendMMEDecodeCommand PROVE WithDecodeBefore
  BY <1>28, <1>0 DEF SendMMEDecodeCommand, Fails
<1>29. ASSUME InputEnd PROVE WithDecodeBefore
  BY <1>29, <1>0 DEF InputEnd
<1>30. ASSUME InputMarkerTake PROVE WithDecodeBefore
  BY <1>30, <1>0 DEF InputMarkerTake
<1>31. ASSUME InputMarkerHold PROVE WithDecodeBefore
  BY <1>31, <1>0 DEF InputMarkerHold
<1>32. ASSUME CallbackFromMME PROVE WithDecodeBefore
  <2>1. context'[ParseToDecode] = context[ParseToDecode]
    BY CallbackEffect, <1>32 DEF ContextBecomes, Workers, ParseToDecode, MME
  <2> QED BY <1>0, <1>32, <2>1 DEF CallbackFromMME, Decoding
<1>33. ASSUME Completed PROVE WithDecodeBefore
  BY <1>33, <1>0 DEF Completed
<1>34. ASSUME NEW discard \in BOOLEAN, NEW switch \in BOOLEAN, DrainStream(discard, switch)
      PROVE  WithDecodeBefore
  BY <1>34, <1>0 DEF DrainStream
<1>35. ASSUME SwitchCodec PROVE WithDecodeBefore
  BY <1>35, <1>0 DEF SwitchCodec
<1>36. ASSUME HaltAndReset PROVE WithDecodeBefore
  BY <1>36, <1>0 DEF HaltAndReset
<1>37. ASSUME UNCHANGED vars PROVE WithDecodeBefore
  BY <1>37, <1>0 DEF vars
<1> HIDE DEF WithDecodeBefore
<1> QED BY <1>1, <1>2, <1>3, <1>4, <1>5, <1>6, <1>7, <1>8, <1>9, <1>10, <1>11, <1>12,
  <1>13, <1>14, <1>15, <1>16, <1>17, <1>18, <1>19, <1>20, <1>21, <1>22, <1>23, <1>24,
  <1>25, <1>26, <1>27, <1>28, <1>29, <1>30, <1>31, <1>32, <1>33, <1>34, <1>35, <1>36, <1>37
  DEF Steps

\* A picture that has launched its decode finds the buffer still the codec's where Input

\* ends, or finds no current buffer.
LEMMA CurrentDecodedStep == ASSUME IInv, Steps PROVE CurrentDecoded'
<1> SUFFICES ASSUME WithDecode', Current' # NULL
             PROVE  /\ InCodec(Current)'
                    /\ BufferState'[Current'].OutputOnDecodesComplete <=> frame'.structure = Frame
  BY DEF CurrentDecoded
<1>0. /\ BufferState \in [Buffers -> BufferStates]
      /\ frame \in [first : BOOLEAN, structure : SUBSET Frame]
  BY DEF IInv, TypeInv, BufferTypes, ThreadTypes
<1>1. ASSUME NEW b \in Buffers, NEW seen \in SUBSET Frame, Launched(b, seen)
      PROVE  /\ InCodec(Current)'
             /\ BufferState'[Current'].OutputOnDecodesComplete <=> frame'.structure = Frame
  <2>1. Current' = b /\ BufferState[b].mapped /\ BufferState[b].DecodesInProgress \in Nat
    BY <1>1, BoundIsOpen, DecodesType DEF Launched, Open, Current
  <2>2. /\ BufferState'[b].OutputOnDecodesComplete <=> seen = Frame
        /\ BufferState'[b].mapped
        /\ BufferState'[b].DecodesInProgress = BufferState[b].DecodesInProgress + 1
    BY <1>0, <1>1, <2>1 DEF Launched, BufferStates
  <2>3. frame'.structure = seen  BY <1>0, <1>1 DEF Launched
  <2>4. BufferState'[b].DecodesInProgress > 0  BY <2>1, <2>2
  <2> QED BY <2>1, <2>2, <2>3, <2>4 DEF InCodec
<1>2. ASSUME ~ \E b \in Buffers, seen \in SUBSET Frame : Launched(b, seen)
      PROVE  /\ InCodec(Current)'
             /\ BufferState'[Current'].OutputOnDecodesComplete <=> frame'.structure = Frame
  <2> DEFINE b == Current
  <2>1. WithDecode /\ frame' = frame
    BY <1>2, WithDecodeBeforeStep DEF WithDecodeBefore
  <2>2. pc[ParseToDecode] \in {"sent", "send", "release"}
    BY <2>1 DEF WithDecode, IInv, DecodesInv, Workers
  <2>3. drain = "none"  BY <2>2 DEF IInv, ModesInv, WithPicture
  <2>4. Current' = Current /\ b \in Buffers /\ b # NULL
    BY <2>2, CurrentStays
  <2>5. InCodec(b) /\ BufferState[b].mapped
        /\ (BufferState[b].OutputOnDecodesComplete <=> frame.structure = Frame)
    BY <2>1, <2>2, <2>4 DEF IInv, OpenInv, WithDecode, InCodec
  <2>6. BufferState'[b].mapped  BY <2>2, <2>4, <2>5, HeldStaysMapped DEF HaltAndReset
  <2>7. Open(b)' <=> Open(b)
    <3>1. ~Mapped  BY <2>2 DEF Mapped
    <3>2. ASSUME NEW t \in {ParseToDecode, Drain}, Seals(t, b) PROVE FALSE
      BY <2>2, <2>3, <3>2 DEF Seals, IInv, ModesInv
    <3>3. b' = b  BY <2>4
    <3>4. \A c \in Buffers : /\ Open(c)' => Open(c) \/ (Mapped /\ c = Current)
                             /\ Open(c) => \/ Open(c)'
                                           \/ \E t \in {ParseToDecode, Drain} : Seals(t, c)
                                           \/ \E seen \in SUBSET Frame : Launched(c, seen)
      BY OpenChange
    <3>5. \A c \in Buffers : c = b => (Open(c)' <=> Open(c))
      BY <1>2, <3>1, <3>2, <3>4
    <3> QED BY <2>4, <3>3, <3>5 DEF Open
  <2>8. BufferState'[b].OutputOnDecodesComplete <=> BufferState[b].OutputOnDecodesComplete
    BY <1>0, <2>4, <2>5, <2>6, <2>7 DEF Open, BufferStates
  <2>9. BufferState[b].OutputOnDecodesComplete => BufferState'[b].DecodesInProgress > 0
    <3> SUFFICES ASSUME BufferState[b].OutputOnDecodesComplete
                 PROVE  BufferState'[b].DecodesInProgress > 0
      OBVIOUS
    <3>0. BufferState[b].DecodesInProgress > 0  BY <2>2, <2>5 DEF InCodec
    <3>1. ASSUME NEW t \in Workers, NEW c \in Buffers, Releases(t, c)
          PROVE  BufferState'[b].DecodesInProgress > 0
      <4>1. CASE c # b
        <5>1. BufferState'[b] = BufferState[b]
          BY <1>0, <2>4, <3>1, <4>1 DEF Releases, ReleasesDecode
        <5> QED BY <3>0, <5>1
      <4>2. CASE c = b
        <5>1. ~ReleasesToDiscard(t, c)
          BY <2>3 DEF ReleasesToDiscard, IInv, CountsInv, TypeInv, NumberTypes
        <5>2. Current' = NULL
          BY <3>1, <4>2, <5>1 DEF Releases, ReleasesToOutput, ReleasesOne, Invalidate, Current
        <5> QED BY <5>2
      <4> QED BY <4>1, <4>2
    <3> QED BY <1>2, <2>4, <3>0, <3>1, DecodesChange
  <2> QED BY <2>1, <2>4, <2>5, <2>6, <2>8, <2>9 DEF InCodec
<1> QED BY <1>1, <1>2

\* The buffer that a picture is to map is obtained just before.
MapBefore ==
  pc'[ParseToDecode] = "map" =>
    \/ pc[ParseToDecode] = "map" /\ ~Mapped
    \/ \E b \in Buffers : GetDecodeBuffer(b)

\* Where the process was before it maps a buffer.
LEMMA MapBeforeStep ==
  ASSUME IInv, Steps
  PROVE  MapBefore
<1>0. PlacesInv /\ ReturnsInv /\ ThreadTypes
  BY DEF IInv, LocalsInv, TypeInv
<1> USE DEF Threads, ParseToDecode, MME, PostManifest, Drain, Workers, Goto, buffer,
  counts, marker, thread, bounds, user, ThreadTypes, PlacesInv, ReturnsInv, Partial,
  MapBefore
<1>1. ASSUME NEW t \in Threads, NEW b \in Buffers, Drops(t, b) PROVE MapBefore
  BY <1>1, <1>0 DEF Drops, Mapped
<1>2. ASSUME NEW t \in Threads, PartialTest(t) PROVE MapBefore
  BY <1>2, <1>0 DEF PartialTest, AfterPartial, Mapped
<1>3. ASSUME NEW t \in Threads, NEW b \in Buffers, Seals(t, b) PROVE MapBefore
  BY <1>3, <1>0 DEF Seals, Open, Mapped
<1>4. ASSUME NEW t \in Threads, PartialEnd(t) PROVE MapBefore
  BY <1>4, <1>0 DEF PartialEnd, AfterPartial, Mapped
<1>5. ASSUME NEW t \in Workers, ReleasesNothing(t) PROVE MapBefore
  BY <1>5, <1>0 DEF ReleasesNothing, Mapped
<1>6. ASSUME NEW t \in Workers, NEW b \in Buffers, ReleasesToDiscard(t, b) PROVE MapBefore
  BY <1>6, <1>0 DEF ReleasesToDiscard, ReleasesDecode, DropThen, Completes, Mapped
<1>7. ASSUME NEW t \in Workers, NEW b \in Buffers, ReleasesToOutput(t, b) PROVE MapBefore
  BY <1>7, <1>0 DEF ReleasesToOutput, ReleasesDecode, Completes, Invalidate, Mapped
<1>8. ASSUME NEW t \in Workers, NEW b \in Buffers, ReleasesOne(t, b) PROVE MapBefore
  BY <1>8, <1>0 DEF ReleasesOne, ReleasesDecode, Completes, Invalidate, Mapped
<1>9. ASSUME NEW t \in Workers, ReleaseRelock(t) PROVE MapBefore
  BY <1>9, <1>0 DEF ReleaseRelock, Invalidate, Mapped
<1>10. ASSUME NEW t \in Workers, ReleaseReference(t) PROVE MapBefore
  BY <1>10, <1>0 DEF ReleaseReference, DropThen, Mapped
<1>11. ASSUME NEW t \in Workers, ReleaseEnd(t) PROVE MapBefore
  BY <1>11, <1>0 DEF ReleaseEnd, Mapped
<1>12. ASSUME NEW t \in Workers, TestMarkerFramePassOn(t) PROVE MapBefore
  BY <1>12, <1>0 DEF TestMarkerFramePassOn, Mapped
<1>13. ASSUME NEW t \in Workers, TakeMarkerBuffer(t) PROVE MapBefore
  BY <1>13, <1>0 DEF TakeMarkerBuffer, Mapped
<1>14. ASSUME NEW t \in Workers, NEW b \in Buffers, Passes(t, b) PROVE MapBefore
  BY <1>14, <1>0 DEF Passes, Mapped
<1>15. ASSUME SendMMEStreamParameters PROVE MapBefore
  BY <1>15, <1>0 DEF SendMMEStreamParameters, MayInput, NewContext, Mapped
<1>16. ASSUME DropPicture PROVE MapBefore
  BY <1>16, <1>0 DEF DropPicture, MayInput
<1>17. ASSUME NEW picture \in Pictures, Input(picture) PROVE MapBefore
  BY <1>17, <1>0 DEF Input, MayInput
<1>18. ASSUME NEW b \in Buffers, GetDecodeBuffer(b) PROVE MapBefore
  BY <1>18
<1>19. ASSUME NEW b \in Buffers, InputMarkerGet(b) PROVE MapBefore
  BY <1>19, <1>0 DEF InputMarkerGet
<1>20. ASSUME NEW b \in Buffers, ReleaseReferenceFrame(b) PROVE MapBefore
  BY <1>20, <1>0 DEF ReleaseReferenceFrame, MayInput, DropThen
<1>21. ASSUME NEW b \in Buffers, ReleaseAll(b) PROVE MapBefore
  BY <1>21, <1>0 DEF ReleaseAll, DropThen
<1>22. ASSUME NEW b \in Buffers, ShowsMarker(b) PROVE MapBefore
  BY <1>22, <1>0 DEF ShowsMarker, Mapped
<1>23. ASSUME NEW b \in Buffers, ShowsBuffer(b) PROVE MapBefore
  BY <1>23, <1>0 DEF ShowsBuffer, DropThen, Mapped
<1>24. ASSUME GetDecodeBufferFails PROVE MapBefore
  BY <1>24, <1>0 DEF GetDecodeBufferFails, Fails
<1>25. ASSUME Mapped PROVE MapBefore
  BY <1>25, <1>0 DEF Mapped
<1>26. ASSUME NEW b \in Buffers, NEW isReference \in {0, 1}, NEW list \in Seq(Buffers), Bound(b,
              isReference, list)
      PROVE  MapBefore
  BY <1>26, <1>0 DEF Bound
<1>27. ASSUME NEW b \in Buffers, NEW seen \in SUBSET Frame, Launched(b, seen) PROVE MapBefore
  BY <1>27, <1>0 DEF Launched
<1>28. ASSUME SendMMEDecodeCommand PROVE MapBefore
  BY <1>28, <1>0 DEF SendMMEDecodeCommand, Fails
<1>29. ASSUME InputEnd PROVE MapBefore
  BY <1>29, <1>0 DEF InputEnd
<1>30. ASSUME InputMarkerTake PROVE MapBefore
  BY <1>30, <1>0 DEF InputMarkerTake
<1>31. ASSUME InputMarkerHold PROVE MapBefore
  BY <1>31, <1>0 DEF InputMarkerHold
<1>32. ASSUME CallbackFromMME PROVE MapBefore
  BY <1>32, <1>0 DEF CallbackFromMME, Mapped
<1>33. ASSUME Completed PROVE MapBefore
  BY <1>33, <1>0 DEF Completed, Mapped
<1>34. ASSUME NEW discard \in BOOLEAN, NEW switch \in BOOLEAN, DrainStream(discard, switch)
      PROVE  MapBefore
  BY <1>34, <1>0 DEF DrainStream, Mapped
<1>35. ASSUME SwitchCodec PROVE MapBefore
  BY <1>35, <1>0 DEF SwitchCodec
<1>36. ASSUME HaltAndReset PROVE MapBefore
  BY <1>36, <1>0 DEF HaltAndReset
<1>37. ASSUME UNCHANGED vars PROVE MapBefore
  BY <1>37, <1>0 DEF vars, Mapped
<1> HIDE DEF MapBefore
<1> QED BY <1>1, <1>2, <1>3, <1>4, <1>5, <1>6, <1>7, <1>8, <1>9, <1>10, <1>11, <1>12,
  <1>13, <1>14, <1>15, <1>16, <1>17, <1>18, <1>19, <1>20, <1>21, <1>22, <1>23, <1>24,
  <1>25, <1>26, <1>27, <1>28, <1>29, <1>30, <1>31, <1>32, <1>33, <1>34, <1>35, <1>36, <1>37
  DEF Steps

MapFresh ==
  pc[ParseToDecode] = "map" =>
    Current # NULL /\ ~BufferState[Current].mapped /\ OwnerCount[Current] = 1

\* The buffer that is to be mapped has been obtained for this picture and nothing else.
LEMMA MapFreshStep == ASSUME IInv, Steps PROVE MapFresh'
<1> SUFFICES ASSUME pc'[ParseToDecode] = "map"
             PROVE  Current' # NULL /\ ~BufferState'[Current'].mapped /\ OwnerCount'[Current'] = 1
  BY DEF MapFresh
<1>1. ASSUME NEW b \in Buffers, GetDecodeBuffer(b)
      PROVE  Current' # NULL /\ ~BufferState'[Current'].mapped /\ OwnerCount'[Current'] = 1
  <2>1. OwnerCount[b] = 0 /\ Current' = b /\ BufferState' = BufferState /\ OwnerCount'[b] = 1
    BY <1>1 DEF GetDecodeBuffer, Current, IInv, TypeInv, BufferTypes
  <2>2. ~BufferState[b].mapped  BY <2>1, FreeIsNowhere
  <2> QED BY <2>1, <2>2, CodecAssumption
<1>2. CASE pc[ParseToDecode] = "map" /\ ~Mapped
  <2> DEFINE b == Current
  <2>1. b \in Buffers /\ b # NULL /\ ~BufferState[b].mapped /\ OwnerCount[b] = 1
    BY <1>2 DEF IInv, OpenInv, TypeInv, BufferTypes, Current
  <2>2. InCodec(b) /\ b \notin MarkerFrames
    BY <1>2, <2>1 DEF InCodec, Current, IInv, MarkersAlone
  <2>3. Current' = b  BY <1>2, <2>1, CurrentChange
  <2>4. ~BufferState'[b].mapped  BY <1>2, <2>1, MappedChange DEF Unused
  <2>5. ASSUME NEW t \in Threads, NEW c \in Buffers, Drops(t, c) PROVE OwnerCount'[b] = 1
    <3>1. c # b
      <4>1. Cardinality(Dropped(b)) = 0  BY <2>1, <2>2, FewHolds
      <4>2. \A u \in Threads : ~(pc[u] = "drop" /\ arg[u] = b)  BY <2>1, <4>1, TermTypes DEF IInv
      <4> QED BY <2>5, <4>2 DEF Drops
    <3> QED BY <2>1, <2>5, <3>1 DEF Drops, IInv, TypeInv, BufferTypes
  <2>6. ASSUME NEW c \in Buffers, ShowsMarker(c) PROVE OwnerCount'[b] = 1
    BY <2>1, <2>2, <2>6 DEF ShowsMarker, IInv, TypeInv, BufferTypes
  <2>7. \A c \in Buffers : ~GetDecodeBuffer(c) /\ ~InputMarkerGet(c)
    BY <1>2 DEF GetDecodeBuffer, InputMarkerGet
  <2>8. ~InputMarkerTake /\ \A c \in Buffers, isReference \in {0, 1}, list \in Seq(Buffers) :
                               ~Bound(c, isReference, list)
    BY <1>2 DEF InputMarkerTake, Bound
  <2>9. OwnerCount'[b] = 1
    BY <2>1, <2>5, <2>6, <2>7, <2>8, Changes DEF ChangesOwners
  <2> QED BY <2>1, <2>3, <2>4, <2>9
<1> QED BY <1>1, <1>2, MapBeforeStep DEF MapBefore

\* The invariant of the current buffer, after every step.
LEMMA OpenInvStep == ASSUME IInv, Steps PROVE OpenInv'
BY OnlyCurrentOpenStep, CurrentIsOpenStep, CurrentDecodedStep, MapFreshStep
   DEF OpenInv, OnlyCurrentOpen, CurrentIsOpen, CurrentDecoded, MapFresh, WithDecode

(***************************************************************************)
(* A step adds to a reference count what it adds to the sum.               *)
(***************************************************************************)
Counted(b) == OwnerCount[b] = Held(b)

\* What a step adds to the count of a buffer, and to each term of the sum.
Adds(b, owner, codec, ring, drops, frames, process, callback, queued) ==
  /\ OwnerCount'[b] = OwnerCount[b] + owner
  /\ InCodecCount(b)' = InCodecCount(b) + codec
  /\ Occurrences(b, OutputRing') = Occurrences(b, OutputRing) + ring
  /\ Cardinality(Dropped(b))' = Cardinality(Dropped(b)) + drops
  /\ BufferState'[b].ReferenceFrameCount = BufferState[b].ReferenceFrameCount + frames
  /\ NamedIn(ParseToDecode, b)' = NamedIn(ParseToDecode, b) + process
  /\ NamedIn(MME, b)' = NamedIn(MME, b) + callback
  /\ Cardinality(NamedInCommands(b))' = Cardinality(NamedInCommands(b)) + queued

\* A step that adds to the reference count what it adds to the sum of the holds leaves them

\* equal.
LEMMA CountedBalance ==
  ASSUME IInv, NEW b \in Buffers \ MarkerFrames,
         NEW n \in Int, NEW c \in Int, NEW r \in Int, NEW d \in Int, NEW f \in Int,
         NEW p \in Int, NEW m \in Int, NEW q \in Int, n = c + r + d + f + p + m + q,
         Adds(b, n, c, r, d, f, p, m, q)
  PROVE  Counted(b)'
<1> DEFINE N == OwnerCount[b]
           C == InCodecCount(b)
           R == Occurrences(b, OutputRing)
           D == Cardinality(Dropped(b))
           F == BufferState[b].ReferenceFrameCount
           P == NamedIn(ParseToDecode, b)
           M == NamedIn(MME, b)
           Q == Cardinality(NamedInCommands(b))
<1>1. N = C + R + D + F + P + M + Q  BY CountIsHeld DEF IInv, Held
<1>2. /\ N \in Int /\ C \in Int /\ R \in Int /\ D \in Int /\ F \in Int /\ P \in Int
      /\ M \in Int /\ Q \in Int
  BY TermTypes DEF IInv, InCodecCount
<1>3. OwnerCount'[b] = N + n  BY DEF Adds
<1>4. Held(b)' = (C + c) + (R + r) + (D + d) + (F + f) + (P + p) + (M + m) + (Q + q)
  BY DEF Adds, Held
<1> HIDE DEF N, C, R, D, F, P, M, Q
<1>5. N + n = (C + c) + (R + r) + (D + d) + (F + f) + (P + p) + (M + m) + (Q + q)
  BY <1>1, <1>2
<1> QED BY <1>3, <1>4, <1>5 DEF Counted

\* The codec's hold stays when what it depends on does.
LEMMA CodecSame ==
  ASSUME NEW b, BufferState'[b].mapped = BufferState[b].mapped,
         BufferState'[b].OutputOnDecodesComplete = BufferState[b].OutputOnDecodesComplete,
         BufferState'[b].DecodesInProgress = BufferState[b].DecodesInProgress,
         pc'[ParseToDecode] = "map" <=> pc[ParseToDecode] = "map",
         pc[ParseToDecode] = "map" => CurrentDecodeBufferIndex' = CurrentDecodeBufferIndex
  PROVE  InCodecCount(b)' = InCodecCount(b)
BY DEF InCodecCount, InCodec

\* The threads that drop a buffer: as before, one more, or one less.
LEMMA DroppedSame ==
  ASSUME NEW b, \A t \in Threads : /\ pc'[t] = "drop" <=> pc[t] = "drop"
                                   /\ pc[t] = "drop" => arg'[t] = arg[t]
  PROVE  Cardinality(Dropped(b))' = Cardinality(Dropped(b))
<1>1. Dropped(b)' = Dropped(b)  BY DEF Dropped
<1> QED BY <1>1

\* A thread that goes to drop a reference holds it from then on,
LEMMA DropBegins ==
  ASSUME TypeInv, NEW b \in Buffers, NEW t \in Threads, NEW c, NEW then,
         pc[t] # "drop", DropThen(t, c, then)
  PROVE  Cardinality(Dropped(b))' = Cardinality(Dropped(b)) + (IF c = b THEN 1 ELSE 0)
<1>1. \A u \in Threads : /\ pc'[u] = IF u = t THEN "drop" ELSE pc[u]
                         /\ arg'[u] = IF u = t THEN c ELSE arg[u]
  BY DEF DropThen, Goto, TypeInv, ThreadTypes
<1>2. IsFiniteSet(Dropped(b)) /\ Cardinality(Dropped(b)) \in Nat  BY TermTypes
<1>3. CASE c = b
  <2>1. Dropped(b)' = Dropped(b) \cup {t} /\ t \notin Dropped(b)
    BY <1>1, <1>3 DEF Dropped
  <2> QED BY <1>2, <1>3, <2>1, FS_AddElement
<1>4. CASE c # b
  <2>1. Dropped(b)' = Dropped(b)  BY <1>1, <1>4 DEF Dropped
  <2> QED BY <1>2, <1>4, <2>1
<1> QED BY <1>3, <1>4

\* and no longer when it has dropped it.
LEMMA DropEnds ==
  ASSUME TypeInv, NEW b \in Buffers, NEW t \in Threads, NEW c \in Buffers, Drops(t, c)
  PROVE  Cardinality(Dropped(b))' = Cardinality(Dropped(b)) - (IF c = b THEN 1 ELSE 0)
<1>1. \A u \in Threads : /\ pc'[u] = "drop" <=> u # t /\ pc[u] = "drop"
                         /\ u # t => arg'[u] = arg[u]
  BY DEF Drops, Goto, TypeInv, ThreadTypes, Returns
<1>2. IsFiniteSet(Dropped(b)) /\ Cardinality(Dropped(b)) \in Nat  BY TermTypes
<1>3. CASE c = b
  <2>1. Dropped(b)' = Dropped(b) \ {t} /\ t \in Dropped(b)
    BY <1>1, <1>3 DEF Dropped, Drops
  <2> QED BY <1>2, <1>3, <2>1, FS_RemoveElement
<1>4. CASE c # b
  <2>1. Dropped(b)' = Dropped(b)  BY <1>1, <1>4 DEF Dropped, Drops
  <2> QED BY <1>2, <1>4, <2>1
<1> QED BY <1>3, <1>4

\* DecrementReferenceCount: one reference less, and one thread less that drops one; the

\* last reference unmaps the buffer, which the codec did not hold any more.
LEMMA CountedDrops ==
  ASSUME IInv, NEW b \in Buffers \ MarkerFrames, NEW t \in Threads, NEW c \in Buffers, Drops(t, c)
  PROVE  Counted(b)'
<1> DEFINE e == IF c = b THEN 0 - 1 ELSE 0
           z == 0
<1>0. /\ BufferState \in [Buffers -> BufferStates] /\ OwnerCount \in [Buffers -> Int]
      /\ pc \in [Threads -> Places] /\ ret \in [Threads -> Returns]
  BY DEF IInv, TypeInv, BufferTypes, ThreadTypes
<1>1. OwnerCount'[b] = OwnerCount[b] + e  BY <1>0 DEF Drops
<1>2. Cardinality(Dropped(b))' = Cardinality(Dropped(b)) + e
  <2>1. Cardinality(Dropped(b)) \in Nat  BY TermTypes DEF IInv
  <2> QED BY <2>1, DropEnds DEF IInv
<1>3. pc'[ParseToDecode] = "map" <=> pc[ParseToDecode] = "map"
  BY <1>0 DEF Drops, Goto, Returns, Threads
<1>4. /\ InCodecCount(b)' = InCodecCount(b)
      /\ BufferState'[b].ReferenceFrameCount = BufferState[b].ReferenceFrameCount
  <2>1. CASE c = b /\ OwnerCount[b] = 1
    <3>1. Cardinality(Dropped(b)) > 0
      <4>1. Cardinality(Dropped(b)) \in Nat /\ Cardinality(Dropped(b)) # 0
        BY <2>1, TermTypes DEF IInv, Drops
      <4> QED BY <4>1
    <3>2. ~InCodec(b) /\ BufferState[b].ReferenceFrameCount = 0  BY <2>1, <3>1, FewHolds
    <3>3. BufferState'[b] = Unused  BY <1>0, <2>1 DEF Drops
    <3>4. ~InCodec(b)'  BY <1>3, <3>2, <3>3 DEF InCodec, Unused, Drops
    <3> QED BY <3>2, <3>3, <3>4 DEF InCodecCount, Unused
  <2>2. CASE ~(c = b /\ OwnerCount[b] = 1)
    <3>1. BufferState'[b] = BufferState[b]  BY <1>0, <2>2 DEF Drops
    <3>2. CurrentDecodeBufferIndex' = CurrentDecodeBufferIndex  BY DEF Drops
    <3> QED BY <1>3, <3>1, <3>2, CodecSame
  <2> QED BY <2>1, <2>2
<1>5. /\ NamedIn(ParseToDecode, b)' = NamedIn(ParseToDecode, b)
      /\ NamedIn(MME, b)' = NamedIn(MME, b)
      /\ Cardinality(NamedInCommands(b))' = Cardinality(NamedInCommands(b))
      /\ Occurrences(b, OutputRing') = Occurrences(b, OutputRing)
  BY DEF Drops, NamedIn, NamedInCommands
<1>6. Adds(b, e, z, z, e, z, z, z, z)
  BY <1>1, <1>2, <1>4, <1>5, TermTypes DEF Adds, IInv, InCodecCount
<1>7. e \in Int /\ z \in Int /\ e = z + z + e + z + z + z + z  OBVIOUS
<1> HIDE DEF e, z
<1> QED BY <1>6, <1>7, CountedBalance

\* Nothing occurs in the empty list.
LEMMA OccurrencesNone == ASSUME NEW b PROVE Occurrences(b, <<>>) = 0
<1>1. <<>> \in Seq(Buffers) /\ \A k \in DOMAIN <<>> : <<>>[k] # b  OBVIOUS
<1> QED BY <1>1, OccurrencesFinite

\* The references that the pictures under way hold, when a step leaves them alone.
LEMMA NamedSame ==
  ASSUME NEW b, \A t \in Workers : /\ context'[t] = NULL <=> context[t] = NULL
                                   /\ context'[t].References = context[t].References
  PROVE  /\ NamedIn(ParseToDecode, b)' = NamedIn(ParseToDecode, b)
         /\ NamedIn(MME, b)' = NamedIn(MME, b)
BY DEF NamedIn, Workers

\* The release of a decode leaves the references where they are.
LEMMA ReleasedNamedSame ==
  ASSUME IInv, NEW b, NEW t \in Workers, NEW c \in Buffers, ReleasesDecode(t, c)
  PROVE  /\ NamedIn(ParseToDecode, b)' = NamedIn(ParseToDecode, b)
         /\ NamedIn(MME, b)' = NamedIn(MME, b)
         /\ Cardinality(NamedInCommands(b))' = Cardinality(NamedInCommands(b))
<1>1. context[t] \in Short
      /\ ContextBecomes(t, context[t].number, c, FALSE, context[t].References)
  BY DecodeEffect
<1>2. \A u \in Workers : /\ context'[u] = NULL <=> context[u] = NULL
                         /\ context'[u].References = context[u].References
  BY <1>1, CodecAssumption DEF ContextBecomes, Short
<1>3. Cardinality(NamedInCommands(b))' = Cardinality(NamedInCommands(b))
  BY DEF ReleasesDecode, NamedInCommands
<1> QED BY <1>2, <1>3, NamedSame

\* A buffer is obtained for a picture, and is the codec's.
LEMMA CountedGet ==
  ASSUME IInv, NEW b \in Buffers \ MarkerFrames, NEW c \in Buffers, GetDecodeBuffer(c)
  PROVE  Counted(b)'
<1> DEFINE e == IF c = b THEN 1 ELSE 0
           z == 0
<1>0. OwnerCount \in [Buffers -> Int] /\ pc \in [Threads -> Places]
  BY DEF IInv, TypeInv, BufferTypes, ThreadTypes
<1>1. OwnerCount'[b] = OwnerCount[b] + e  BY <1>0 DEF GetDecodeBuffer
<1>2. InCodecCount(b)' = InCodecCount(b) + e
  <2>1. pc[ParseToDecode] = "get" /\ pc'[ParseToDecode] = "map"
    BY <1>0 DEF GetDecodeBuffer, Goto, Threads
  <2>2. CurrentDecodeBufferIndex' = c /\ BufferState' = BufferState /\ OwnerCount[c] = 0
    BY DEF GetDecodeBuffer
  <2>3. ~BufferState[c].mapped  BY <2>2, FreeIsNowhere
  <2>4. CASE c = b  BY <2>1, <2>2, <2>3, <2>4 DEF InCodecCount, InCodec
  <2>5. CASE c # b
    <3>1. InCodec(b)' <=> InCodec(b)  BY <2>1, <2>2, <2>5 DEF InCodec
    <3> QED BY <2>5, <3>1 DEF InCodecCount
  <2> QED BY <2>4, <2>5
<1>3. Cardinality(Dropped(b))' = Cardinality(Dropped(b))
  BY <1>0, DroppedSame DEF GetDecodeBuffer, Goto, Threads
<1>4. /\ NamedIn(ParseToDecode, b)' = NamedIn(ParseToDecode, b)
      /\ NamedIn(MME, b)' = NamedIn(MME, b)
      /\ Cardinality(NamedInCommands(b))' = Cardinality(NamedInCommands(b))
      /\ Occurrences(b, OutputRing') = Occurrences(b, OutputRing)
      /\ BufferState'[b].ReferenceFrameCount = BufferState[b].ReferenceFrameCount
  BY DEF GetDecodeBuffer, NamedIn, NamedInCommands
<1>5. Adds(b, e, e, z, z, z, z, z, z)
  BY <1>1, <1>2, <1>3, <1>4, TermTypes DEF Adds, IInv
<1>6. e \in Int /\ z \in Int /\ e = e + z + z + z + z + z + z  OBVIOUS
<1> HIDE DEF e, z
<1> QED BY <1>5, <1>6, CountedBalance

\* The steps of a marker leave the other buffers alone.
LEMMA CountedMarker ==
  ASSUME IInv, NEW b \in Buffers \ MarkerFrames, b \notin MarkerFrames',
         \/ \E c \in Buffers : InputMarkerGet(c) \/ ShowsMarker(c)
         \/ \E t \in Workers, c \in Buffers : Passes(t, c)
         \/ InputMarkerTake
  PROVE  Counted(b)'
<1> DEFINE z == 0
           Same == /\ OwnerCount'[b] = OwnerCount[b]
                   /\ Occurrences(b, OutputRing') = Occurrences(b, OutputRing)
                   /\ \A t \in Threads : /\ pc'[t] = "drop" <=> pc[t] = "drop"
                                         /\ pc[t] = "drop" => arg'[t] = arg[t]
                   /\ pc'[ParseToDecode] = "map" <=> pc[ParseToDecode] = "map"
                   /\ UNCHANGED <<BufferState, CurrentDecodeBufferIndex, commands, context>>
<1>0. /\ OwnerCount \in [Buffers -> Int] /\ pc \in [Threads -> Places]
      /\ MarkerFrames \subseteq Buffers /\ OutputRing \in Seq(Buffers)
      /\ Occurrences(b, OutputRing) \in Nat
  BY TermTypes DEF IInv, TypeInv, BufferTypes, ThreadTypes
<1>1. ASSUME NEW c \in Buffers, InputMarkerGet(c) PROVE Same
  <2>1. c # b  BY <1>0, <1>1 DEF InputMarkerGet
  <2> QED BY <1>0, <1>1, <2>1 DEF InputMarkerGet, Goto, Threads
<1>2. ASSUME NEW c \in Buffers, ShowsMarker(c) PROVE Same
  <2>1. c # b  BY <1>2 DEF ShowsMarker
  <2>2. Occurrences(b, OutputRing') = Occurrences(b, OutputRing)
    BY <1>0, <1>2, <2>1, OccurrencesTail DEF ShowsMarker
  <2> QED BY <1>0, <1>2, <2>1, <2>2 DEF ShowsMarker, thread
<1>3. ASSUME NEW t \in Workers, NEW c \in Buffers, Passes(t, c) PROVE Same
  <2>1. c # b  BY <1>3 DEF Passes
  <2>2. Occurrences(b, OutputRing') = Occurrences(b, OutputRing)
    BY <1>0, <1>3, <2>1, OccurrencesAppend DEF Passes
  <2>3. /\ \A u \in Threads : /\ pc'[u] = "drop" <=> pc[u] = "drop"
                              /\ pc[u] = "drop" => arg'[u] = arg[u]
        /\ pc'[ParseToDecode] = "map" <=> pc[ParseToDecode] = "map"
    BY <1>0, <1>3 DEF Passes, Goto, Threads, Workers
  <2> QED BY <1>3, <2>2, <2>3 DEF Passes, buffer
<1>4. ASSUME InputMarkerTake PROVE Same
  <2>1. MarkerBuffer # NULL => MarkerBuffer \in MarkerFrames  BY DEF IInv, MarkersInv
  <2>2. OwnerCount'[b] = OwnerCount[b]  BY <1>0, <1>4, <2>1 DEF InputMarkerTake
  <2> QED BY <1>0, <1>4, <2>2 DEF InputMarkerTake, Goto, Threads
<1> HIDE DEF Same
<1>5. Same  BY <1>1, <1>2, <1>3, <1>4
<1>6. InCodecCount(b)' = InCodecCount(b)  BY <1>5, CodecSame DEF Same
<1>7. Cardinality(Dropped(b))' = Cardinality(Dropped(b))  BY <1>5, DroppedSame DEF Same
<1>8. /\ NamedIn(ParseToDecode, b)' = NamedIn(ParseToDecode, b)
      /\ NamedIn(MME, b)' = NamedIn(MME, b)
      /\ Cardinality(NamedInCommands(b))' = Cardinality(NamedInCommands(b))
      /\ BufferState'[b].ReferenceFrameCount = BufferState[b].ReferenceFrameCount
  BY <1>5 DEF Same, NamedIn, NamedInCommands
<1>9. Adds(b, z, z, z, z, z, z, z, z)
  BY <1>5, <1>6, <1>7, <1>8, TermTypes DEF Same, Adds, IInv, InCodecCount
<1>10. z \in Int /\ z = z + z + z + z + z + z + z  OBVIOUS
<1> HIDE DEF z
<1> QED BY <1>9, <1>10, CountedBalance

\* The references of a picture are taken when it is bound.
LEMMA CountedBound ==
  ASSUME IInv, NEW b \in Buffers \ MarkerFrames, NEW c \in Buffers, NEW isReference \in {0, 1},
         NEW list \in Seq(Buffers), Bound(c, isReference, list)
  PROVE  Counted(b)'
<1> DEFINE f == IF b = c THEN isReference ELSE 0
           p == Occurrences(b, list)
           z == 0
<1>0. /\ OwnerCount \in [Buffers -> Int] /\ pc \in [Threads -> Places]
      /\ BufferState \in [Buffers -> BufferStates]
  BY DEF IInv, TypeInv, BufferTypes, ThreadTypes
<1>1. p \in Nat /\ f \in Nat  BY OccurrencesFinite
<1>2. OwnerCount'[b] = OwnerCount[b] + p + f  BY DEF Bound
<1>3. BufferState'[b].ReferenceFrameCount = BufferState[b].ReferenceFrameCount + f
      /\ BufferState'[b].mapped = BufferState[b].mapped
      /\ BufferState'[b].OutputOnDecodesComplete = BufferState[b].OutputOnDecodesComplete
      /\ BufferState'[b].DecodesInProgress = BufferState[b].DecodesInProgress
  BY <1>0 DEF Bound, BufferStates
<1>4. InCodecCount(b)' = InCodecCount(b)
  <2>1. pc'[ParseToDecode] = "map" <=> pc[ParseToDecode] = "map"
    BY <1>0 DEF Bound, Goto, Threads
  <2>2. CurrentDecodeBufferIndex' = CurrentDecodeBufferIndex  BY DEF Bound
  <2> QED BY <1>3, <2>1, <2>2, CodecSame
<1>5. Cardinality(Dropped(b))' = Cardinality(Dropped(b))
  BY <1>0, DroppedSame DEF Bound, Goto, Threads
<1>6. NamedIn(ParseToDecode, b) = 0 /\ NamedIn(ParseToDecode, b)' = p
  <2>1. context[ParseToDecode] = NewContext /\ ContextBecomes(ParseToDecode, 0, c, FALSE, list)
    BY BindEffect
  <2>2. Occurrences(b, <<>>) = 0  BY OccurrencesNone
  <2> QED BY <2>1, <2>2, NewContextType DEF NamedIn, ContextBecomes, NewContext, Workers
<1>7. NamedIn(MME, b)' = NamedIn(MME, b)
  <2>1. context'[MME] = context[MME]
    BY BindEffect DEF ContextBecomes, Workers, ParseToDecode, MME
  <2> QED BY <2>1 DEF NamedIn
<1>8. /\ Cardinality(NamedInCommands(b))' = Cardinality(NamedInCommands(b))
      /\ Occurrences(b, OutputRing') = Occurrences(b, OutputRing)
  BY DEF Bound, NamedInCommands
<1> DEFINE n == p + f
<1>9. n \in Int /\ n = z + z + z + f + p + z + z  BY <1>1
<1>10. OwnerCount'[b] = OwnerCount[b] + n
  <2>1. OwnerCount[b] \in Int  BY <1>0
  <2> HIDE DEF p, f
  <2> QED BY <1>1, <1>2, <2>1
<1>11. NamedIn(ParseToDecode, b)' = NamedIn(ParseToDecode, b) + p
  <2> HIDE DEF p
  <2> QED BY <1>1, <1>6
<1> HIDE DEF n, p, f
<1>12. Adds(b, n, z, z, z, f, p, z, z)
  BY <1>3, <1>4, <1>5, <1>7, <1>8, <1>10, <1>11, TermTypes DEF Adds, IInv, InCodecCount
<1>13. z \in Int /\ f \in Int /\ p \in Int  BY <1>1
<1> HIDE DEF z
<1> QED BY <1>9, <1>12, <1>13, CountedBalance

\* The codec's hold on a buffer that it has mapped is one while the buffer is not complete.
LEMMA MappedCodec ==
  ASSUME IInv, NEW b \in Buffers, BufferState[b].mapped
  PROVE  /\ InCodecCount(b) = IF BufferState[b].OutputOnDecodesComplete
                                 /\ BufferState[b].DecodesInProgress = 0 THEN 0 ELSE 1
         /\ ~(pc[ParseToDecode] = "map" /\ CurrentDecodeBufferIndex = b)
<1>1. ~(pc[ParseToDecode] = "map" /\ CurrentDecodeBufferIndex = b)
  BY DEF IInv, OpenInv, Current
<1>2. BufferState[b].DecodesInProgress \in Nat  BY DecodesType
<1> QED BY <1>1, <1>2 DEF InCodecCount, InCodec

\* A buffer with nothing under way into it goes from the codec to the ring.
LEMMA CountedSeals ==
  ASSUME IInv, NEW b \in Buffers \ MarkerFrames, NEW t \in Threads, NEW c \in Buffers, Seals(t, c)
  PROVE  Counted(b)'
<1> DEFINE r == IF c = b /\ BufferState[b].DecodesInProgress = 0 THEN 1 ELSE 0
           e == 0 - r
           z == 0
<1>0. /\ OwnerCount \in [Buffers -> Int] /\ pc \in [Threads -> Places]
      /\ BufferState \in [Buffers -> BufferStates] /\ OutputRing \in Seq(Buffers)
      /\ BufferState[b].DecodesInProgress \in Nat /\ Occurrences(b, OutputRing) \in Nat
  BY DecodesType, TermTypes DEF IInv, TypeInv, BufferTypes, ThreadTypes
<1>1. Occurrences(b, OutputRing') = Occurrences(b, OutputRing) + r
  BY <1>0, OccurrencesAppend DEF Seals
<1>2. /\ pc'[ParseToDecode] = "map" <=> pc[ParseToDecode] = "map"
      /\ CurrentDecodeBufferIndex' = CurrentDecodeBufferIndex
  BY <1>0 DEF Seals, Goto, Threads
<1>3. InCodecCount(b)' = InCodecCount(b) + e
  <2>1. CASE c = b
    <3>1. BufferState[b].mapped /\ ~BufferState[b].OutputOnDecodesComplete
      BY <2>1 DEF Seals, Open
    <3>2. /\ BufferState'[b].mapped /\ BufferState'[b].OutputOnDecodesComplete
          /\ BufferState'[b].DecodesInProgress = BufferState[b].DecodesInProgress
      BY <1>0, <2>1, <3>1 DEF Seals, BufferStates
    <3>3. ~(pc'[ParseToDecode] = "map" /\ CurrentDecodeBufferIndex' = b)
      BY <1>2, <3>1, MappedCodec
    <3>4. InCodecCount(b) = 1  BY <3>1, MappedCodec
    <3>5. InCodec(b)' <=> BufferState[b].DecodesInProgress > 0
      BY <3>2, <3>3 DEF InCodec
    <3> QED BY <1>0, <2>1, <3>4, <3>5 DEF InCodecCount
  <2>2. CASE c # b
    <3>1. BufferState'[b] = BufferState[b]  BY <1>0, <2>2 DEF Seals
    <3>2. InCodecCount(b)' = InCodecCount(b)  BY <1>2, <3>1, CodecSame
    <3> QED BY <2>2, <3>2 DEF InCodecCount
  <2> QED BY <2>1, <2>2
<1>4. Cardinality(Dropped(b))' = Cardinality(Dropped(b))
  BY <1>0, DroppedSame DEF Seals, Goto, Threads
<1>5. /\ NamedIn(ParseToDecode, b)' = NamedIn(ParseToDecode, b)
      /\ NamedIn(MME, b)' = NamedIn(MME, b)
      /\ Cardinality(NamedInCommands(b))' = Cardinality(NamedInCommands(b))
      /\ OwnerCount'[b] = OwnerCount[b]
  BY DEF Seals, NamedIn, NamedInCommands
<1>6. BufferState'[b].ReferenceFrameCount = BufferState[b].ReferenceFrameCount
  BY <1>0 DEF Seals, BufferStates
<1>7. Adds(b, z, e, r, z, z, z, z, z)
  BY <1>1, <1>3, <1>4, <1>5, <1>6, TermTypes DEF Adds, IInv
<1>8. e \in Int /\ r \in Int /\ z \in Int /\ z = e + r + z + z + z + z + z  OBVIOUS
<1> HIDE DEF e, z, r
<1> QED BY <1>7, <1>8, CountedBalance

\* The last decode into a buffer passes it on to the ring, or to be discarded.
LEMMA ReleasedCodec ==
  ASSUME IInv, NEW b \in Buffers, NEW t \in Workers, NEW c \in Buffers, ReleasesDecode(t, c),
         pc'[ParseToDecode] = "map" <=> pc[ParseToDecode] = "map",
         pc[ParseToDecode] = "map" => CurrentDecodeBufferIndex' = CurrentDecodeBufferIndex
  PROVE  InCodecCount(b)' = InCodecCount(b) + (IF c = b /\ Completes(c) THEN 0 - 1 ELSE 0)
<1>0. /\ BufferState \in [Buffers -> BufferStates] /\ BufferState[b].DecodesInProgress \in Nat
      /\ InCodecCount(b) \in Int
  BY DecodesType DEF IInv, TypeInv, BufferTypes, InCodecCount
<1>1. CASE c = b
  <2>1. BufferState[b].mapped /\ BufferState[b].DecodesInProgress > 0
    BY <1>1 DEF ReleasesDecode
  <2>2. /\ BufferState'[b].mapped
        /\ BufferState'[b].OutputOnDecodesComplete = BufferState[b].OutputOnDecodesComplete
        /\ BufferState'[b].DecodesInProgress = BufferState[b].DecodesInProgress - 1
    BY <1>0, <1>1, <2>1 DEF ReleasesDecode, BufferStates
  <2>3. ~(pc'[ParseToDecode] = "map" /\ CurrentDecodeBufferIndex' = b)
    BY <2>1, MappedCodec
  <2>4. InCodecCount(b) = 1  BY <2>1, MappedCodec
  <2>5. InCodec(b)' <=> ~Completes(b)
    BY <1>0, <2>1, <2>2, <2>3 DEF InCodec, Completes
  <2> QED BY <1>1, <2>4, <2>5 DEF InCodecCount
<1>2. CASE c # b
  <2>1. BufferState'[b] = BufferState[b]  BY <1>0, <1>2 DEF ReleasesDecode
  <2>2. InCodecCount(b)' = InCodecCount(b)  BY <2>1, CodecSame
  <2> QED BY <1>0, <1>2, <2>2
<1> QED BY <1>1, <1>2

\* ReleaseDecodeContext: the codec's hold on a complete buffer goes to the ring, or to the

\* thread that discards it; a buffer that is not complete stays the codec's.
LEMMA CountedReleases ==
  ASSUME IInv, NEW b \in Buffers \ MarkerFrames, NEW t \in Workers, NEW c \in Buffers,
         Releases(t, c)
  PROVE  Counted(b)'
<1> DEFINE r == IF c = b /\ ReleasesToOutput(t, c) THEN 1 ELSE 0
           d == IF c = b /\ ReleasesToDiscard(t, c) THEN 1 ELSE 0
           e == IF c = b /\ Completes(c) THEN 0 - 1 ELSE 0
           z == 0
<1>0. /\ OwnerCount \in [Buffers -> Int] /\ pc \in [Threads -> Places]
      /\ BufferState \in [Buffers -> BufferStates] /\ OutputRing \in Seq(Buffers)
      /\ Occurrences(b, OutputRing) \in Nat /\ Cardinality(Dropped(b)) \in Nat
      /\ ReleasesDecode(t, c) /\ pc[t] = "release" /\ t \in Threads
  BY TermTypes DEF IInv, TypeInv, BufferTypes, ThreadTypes, Releases, ReleasesDecode, Threads,
     Workers
<1>x. ReleasesToDiscard(t, c) => ~ReleasesToOutput(t, c)
  BY <1>0 DEF ReleasesToDiscard, ReleasesToOutput, DropThen, Goto
<1>1. Occurrences(b, OutputRing') = Occurrences(b, OutputRing) + r
  <2>1. CASE ReleasesToOutput(t, c)
    BY <1>0, <2>1, OccurrencesAppend DEF ReleasesToOutput
  <2>2. CASE ~ReleasesToOutput(t, c)
    BY <1>0, <2>2 DEF Releases, ReleasesToDiscard, ReleasesOne
  <2> QED BY <2>1, <2>2
<1>2. Cardinality(Dropped(b))' = Cardinality(Dropped(b)) + d
  <2>1. CASE ReleasesToDiscard(t, c)
    BY <1>0, <2>1, DropBegins DEF ReleasesToDiscard, IInv
  <2>2. CASE ~ReleasesToDiscard(t, c)
    <3>1. Goto(t, "unreference") /\ arg' = arg
      BY <2>2 DEF Releases, ReleasesToOutput, ReleasesOne
    <3>2. Cardinality(Dropped(b))' = Cardinality(Dropped(b))
      BY <1>0, <3>1, DroppedSame DEF Goto
    <3> QED BY <1>0, <2>2, <3>2
  <2> QED BY <2>1, <2>2
<1>3. pc'[ParseToDecode] = "map" <=> pc[ParseToDecode] = "map"
  BY <1>0 DEF Releases, ReleasesToDiscard, ReleasesToOutput, ReleasesOne, DropThen, Goto, Threads
<1>4. pc[ParseToDecode] = "map" => CurrentDecodeBufferIndex' = CurrentDecodeBufferIndex
  <2>1. pc[ParseToDecode] = "map" => CurrentDecodeBufferIndex # c
    BY <1>0 DEF ReleasesDecode, IInv, OpenInv, Current
  <2> QED BY <2>1 DEF Releases, ReleasesToDiscard, ReleasesToOutput, ReleasesOne, Invalidate
<1>5. InCodecCount(b)' = InCodecCount(b) + e  BY <1>0, <1>3, <1>4, ReleasedCodec
<1>6. /\ NamedIn(ParseToDecode, b)' = NamedIn(ParseToDecode, b)
      /\ NamedIn(MME, b)' = NamedIn(MME, b)
      /\ Cardinality(NamedInCommands(b))' = Cardinality(NamedInCommands(b))
  BY <1>0, ReleasedNamedSame
<1>7. /\ OwnerCount'[b] = OwnerCount[b]
      /\ BufferState'[b].ReferenceFrameCount = BufferState[b].ReferenceFrameCount
  BY <1>0 DEF ReleasesDecode, BufferStates
<1>8. Adds(b, z, e, r, d, z, z, z, z)
  <2> HIDE DEF e, r, d
  <2> QED BY <1>1, <1>2, <1>5, <1>6, <1>7, TermTypes DEF Adds, IInv
<1>9. z = e + r + d + z + z + z + z
  <2>1. Completes(c) <=> ReleasesToOutput(t, c) \/ ReleasesToDiscard(t, c)
    BY DEF Releases, ReleasesToOutput, ReleasesToDiscard, ReleasesOne
  <2> QED BY <1>x, <2>1
<1>10. e \in Int /\ r \in Int /\ d \in Int /\ z \in Int  OBVIOUS
<1> HIDE DEF e, z, r, d
<1> QED BY <1>8, <1>9, <1>10, CountedBalance

\* The process behind the manifestor takes a buffer out of the ring to drop it.
LEMMA CountedShows ==
  ASSUME IInv, NEW b \in Buffers \ MarkerFrames, NEW c \in Buffers, ShowsBuffer(c)
  PROVE  Counted(b)'
<1> DEFINE d == IF c = b THEN 1 ELSE 0
           r == 0 - d
           z == 0
<1>0. /\ pc \in [Threads -> Places] /\ OutputRing \in Seq(Buffers)
      /\ Occurrences(b, OutputRing) \in Nat
  BY TermTypes DEF IInv, TypeInv, BufferTypes, ThreadTypes
<1>1. Occurrences(b, OutputRing') = Occurrences(b, OutputRing) + r
  BY <1>0, OccurrencesTail DEF ShowsBuffer
<1>2. Cardinality(Dropped(b))' = Cardinality(Dropped(b)) + d
  BY DropBegins DEF ShowsBuffer, IInv, Threads
<1>3. InCodecCount(b)' = InCodecCount(b)
  BY <1>0, CodecSame DEF ShowsBuffer, DropThen, Goto, Threads
<1>4. /\ NamedIn(ParseToDecode, b)' = NamedIn(ParseToDecode, b)
      /\ NamedIn(MME, b)' = NamedIn(MME, b)
      /\ Cardinality(NamedInCommands(b))' = Cardinality(NamedInCommands(b))
      /\ OwnerCount'[b] = OwnerCount[b]
      /\ BufferState'[b].ReferenceFrameCount = BufferState[b].ReferenceFrameCount
  BY DEF ShowsBuffer, NamedIn, NamedInCommands
<1>5. Adds(b, z, z, r, d, z, z, z, z)
  BY <1>1, <1>2, <1>3, <1>4, TermTypes DEF Adds, IInv, InCodecCount
<1>6. z \in Int /\ r \in Int /\ d \in Int /\ z = z + r + d + z + z + z + z  OBVIOUS
<1> HIDE DEF d, r, z
<1> QED BY <1>5, <1>6, CountedBalance

\* A reference of a picture that is done with is dropped.
LEMMA CountedReference ==
  ASSUME IInv, NEW b \in Buffers \ MarkerFrames, NEW t \in Workers, ReleaseReference(t)
  PROVE  Counted(b)'
<1> DEFINE c == Head(context[t].References)
           d == IF c = b THEN 1 ELSE 0
           e == 0 - d
           p == IF t = ParseToDecode THEN e ELSE 0
           m == IF t = MME THEN e ELSE 0
           z == 0
<1>0. /\ pc \in [Threads -> Places] /\ t \in Threads /\ TypeInv
      /\ BufferState \in [Buffers -> BufferStates]
  BY DEF IInv, TypeInv, BufferTypes, ThreadTypes, Threads, Workers
<1>1. Cardinality(Dropped(b))' = Cardinality(Dropped(b)) + d
  BY <1>0, DropBegins DEF ReleaseReference
<1>2. InCodecCount(b)' = InCodecCount(b)
  BY <1>0, CodecSame DEF ReleaseReference, DropThen, Goto, Threads, buffer
<1>3. /\ context[t] \in Short /\ context[t].References # <<>>
      /\ ContextBecomes(t, context[t].number, context[t].BufferIndex,
                        context[t].DecodeInProgress, Tail(context[t].References))
  BY ReferenceEffect
<1>4. NamedIn(t, b)' = NamedIn(t, b) + e
  <2>1. context[t].References \in Seq(Buffers)  BY <1>3 DEF Short, DecodeContext
  <2>2. Occurrences(b, Tail(context[t].References)) = Occurrences(b, context[t].References) + e
    <3> DEFINE s == context[t].References
    <3>1. s \in Seq(Buffers) /\ s # <<>>  BY <1>3, <2>1
    <3>2. Occurrences(b, s) \in Nat
          /\ Occurrences(b, Tail(s)) = Occurrences(b, s) - (IF Head(s) = b THEN 1 ELSE 0)
      BY <3>1, OccurrencesTail, OccurrencesFinite
    <3> QED BY <3>2
  <2>3. context[t] # NULL /\ context'[t] # NULL
        /\ context'[t].References = Tail(context[t].References)
    BY <1>3, CodecAssumption DEF ContextBecomes, Short
  <2> QED BY <2>2, <2>3 DEF NamedIn
<1>5. \A u \in Workers : u # t => NamedIn(u, b)' = NamedIn(u, b)
  BY <1>3 DEF ContextBecomes, NamedIn
<1>6. /\ NamedIn(ParseToDecode, b)' = NamedIn(ParseToDecode, b) + p
      /\ NamedIn(MME, b)' = NamedIn(MME, b) + m
  <2>1. /\ NamedIn(ParseToDecode, b) \in Nat /\ NamedIn(MME, b) \in Nat
        /\ ParseToDecode \in Workers /\ MME \in Workers
    BY <1>0, TermTypes DEF Workers
  <2> HIDE DEF e
  <2> QED BY <1>4, <1>5, <2>1
<1>7. /\ Cardinality(NamedInCommands(b))' = Cardinality(NamedInCommands(b))
      /\ Occurrences(b, OutputRing') = Occurrences(b, OutputRing)
      /\ OwnerCount'[b] = OwnerCount[b]
      /\ BufferState'[b].ReferenceFrameCount = BufferState[b].ReferenceFrameCount
  BY DEF ReleaseReference, NamedInCommands, buffer
<1>8. Adds(b, z, z, z, d, z, p, m, z)
  <2> HIDE DEF d, p, m, e
  <2> QED BY <1>1, <1>2, <1>6, <1>7, TermTypes DEF Adds, IInv, InCodecCount
<1>9. /\ z \in Int /\ d \in Int /\ p \in Int /\ m \in Int
      /\ z = z + z + d + z + p + m + z
  BY DEF Workers, ParseToDecode, MME
<1> HIDE DEF d, e, p, m, z
<1> QED BY <1>8, <1>9, CountedBalance

\* A reference frame is released, by its number or with all others.
LEMMA CountedFrame ==
  ASSUME IInv, NEW b \in Buffers \ MarkerFrames, NEW c \in Buffers,
         ReleaseReferenceFrame(c) \/ ReleaseAll(c)
  PROVE  Counted(b)'
<1> DEFINE d == IF c = b THEN 1 ELSE 0
           f == 0 - d
           z == 0
<1>0. /\ pc \in [Threads -> Places] /\ BufferState \in [Buffers -> BufferStates]
      /\ ParseToDecode \in Threads
  BY DEF IInv, TypeInv, BufferTypes, ThreadTypes, Threads
<1>1. /\ BufferState' = [BufferState EXCEPT ![c].ReferenceFrameCount = @ - 1]
      /\ \E then : DropThen(ParseToDecode, c, then)
      /\ pc[ParseToDecode] \notin {"drop", "map"}
      /\ UNCHANGED <<OwnerCount, CurrentDecodeBufferIndex, OutputRing, commands, context>>
  BY DEF ReleaseReferenceFrame, ReleaseAll, MayInput
<1>2. Cardinality(Dropped(b))' = Cardinality(Dropped(b)) + d
  BY <1>0, <1>1, DropBegins DEF IInv
<1>3. /\ BufferState'[b].ReferenceFrameCount = BufferState[b].ReferenceFrameCount + f
      /\ BufferState'[b].mapped = BufferState[b].mapped
      /\ BufferState'[b].OutputOnDecodesComplete = BufferState[b].OutputOnDecodesComplete
      /\ BufferState'[b].DecodesInProgress = BufferState[b].DecodesInProgress
  BY <1>0, <1>1 DEF BufferStates
<1>4. InCodecCount(b)' = InCodecCount(b)
  <2>1. pc'[ParseToDecode] = "drop"  BY <1>0, <1>1 DEF DropThen, Goto
  <2> QED BY <1>1, <1>3, <2>1, CodecSame
<1>5. /\ NamedIn(ParseToDecode, b)' = NamedIn(ParseToDecode, b)
      /\ NamedIn(MME, b)' = NamedIn(MME, b)
      /\ Cardinality(NamedInCommands(b))' = Cardinality(NamedInCommands(b))
      /\ OwnerCount'[b] = OwnerCount[b]
      /\ Occurrences(b, OutputRing') = Occurrences(b, OutputRing)
  BY <1>1 DEF NamedIn, NamedInCommands
<1>6. Adds(b, z, z, z, d, f, z, z, z)
  BY <1>2, <1>3, <1>4, <1>5, TermTypes DEF Adds, IInv, InCodecCount
<1>7. z \in Int /\ d \in Int /\ f \in Int /\ z = z + z + d + f + z + z + z  OBVIOUS
<1> HIDE DEF d, f, z
<1> QED BY <1>6, <1>7, CountedBalance

\* What the steps of the commands leave alone.
CommandStep ==
  /\ UNCHANGED <<BufferState, OwnerCount, CurrentDecodeBufferIndex, OutputRing>>
  /\ \A t \in Threads : /\ pc'[t] = "drop" <=> pc[t] = "drop"
                        /\ pc[t] = "drop" => arg'[t] = arg[t]
  /\ pc'[ParseToDecode] = "map" <=> pc[ParseToDecode] = "map"

\* Sending a command and taking it back move references between contexts and commands.
LEMMA CountedCommands ==
  ASSUME IInv, NEW b \in Buffers \ MarkerFrames, CommandStep,
         NEW p \in Int, NEW m \in Int, NEW q \in Int, 0 = p + m + q,
         NamedIn(ParseToDecode, b)' = NamedIn(ParseToDecode, b) + p,
         NamedIn(MME, b)' = NamedIn(MME, b) + m,
         Cardinality(NamedInCommands(b))' = Cardinality(NamedInCommands(b)) + q
  PROVE  Counted(b)'
<1> DEFINE z == 0
<1>1. InCodecCount(b)' = InCodecCount(b)  BY CodecSame DEF CommandStep
<1>2. Cardinality(Dropped(b))' = Cardinality(Dropped(b))  BY DroppedSame DEF CommandStep
<1>3. Adds(b, z, z, z, z, z, p, m, q)
  BY <1>1, <1>2, TermTypes DEF CommandStep, Adds, IInv, InCodecCount
<1>4. z \in Int /\ z = z + z + z + z + p + m + q  OBVIOUS
<1> HIDE DEF z
<1> QED BY <1>3, <1>4, CountedBalance

\* How often the commands name a buffer, with one more and with one less.
LEMMA QueuedAppend ==
  ASSUME TypeInv, NEW b, NEW c \in Short, commands' = Append(commands, c)
  PROVE  Cardinality(NamedInCommands(b))' =
           Cardinality(NamedInCommands(b)) + Occurrences(b, c.References)
<1>1. NamedInCommands(b)' = Named(commands', b)  BY DEF NamedInCommands, Named
<1>2. commands \in Seq(Short)  BY DEF TypeInv, CommandTypes
<1> QED BY <1>1, <1>2, NamedCommands, NamedAppend

\* A command that is taken takes its references with it.
LEMMA QueuedTail ==
  ASSUME TypeInv, NEW b, commands # <<>>, commands' = Tail(commands)
  PROVE  Cardinality(NamedInCommands(b)) =
           Cardinality(NamedInCommands(b))' + Occurrences(b, Head(commands).References)
<1>1. NamedInCommands(b)' = Named(commands', b)  BY DEF NamedInCommands, Named
<1>2. commands \in Seq(Short)  BY DEF TypeInv, CommandTypes
<1> QED BY <1>1, <1>2, NamedCommands, NamedTail

\* The references of a picture go with its command.
LEMMA CountedSend ==
  ASSUME IInv, NEW b \in Buffers \ MarkerFrames, SendMMEDecodeCommand
  PROVE  Counted(b)'
<1> DEFINE c == context[ParseToDecode]
           n == MMECommandPreparedCount + 1
           d == [c EXCEPT !.number = n]
           z == 0
<1>0. /\ pc \in [Threads -> Places] /\ ParseToDecode \in Threads /\ ParseToDecode \in Workers
      /\ TypeInv /\ context \in [Workers -> Short \cup {NULL}] /\ n \in Nat
      /\ c \in Short /\ c # NULL /\ MME \in Workers /\ MME # ParseToDecode
  BY DEF SendMMEDecodeCommand, IInv, TypeInv, CommandTypes, NumberTypes, ThreadTypes, Threads,
     Workers, LocalsInv, HasContext, ParseToDecode, MME
<1>1. CommandStep
  BY <1>0 DEF SendMMEDecodeCommand, Fails, CommandStep, Goto, buffer
<1>2. /\ NamedIn(ParseToDecode, b) \in Nat /\ NamedIn(MME, b) \in Nat
      /\ Cardinality(NamedInCommands(b)) \in Nat
  BY <1>0, TermTypes
<1>3. z \in Int /\ 0 = z + z + z  OBVIOUS
<1>4. CASE UNCHANGED <<commands, context>>
  <2>1. /\ NamedIn(ParseToDecode, b)' = NamedIn(ParseToDecode, b) + z
        /\ NamedIn(MME, b)' = NamedIn(MME, b) + z
        /\ Cardinality(NamedInCommands(b))' = Cardinality(NamedInCommands(b)) + z
    BY <1>2, <1>4 DEF NamedIn, NamedInCommands
  <2> HIDE DEF z
  <2> QED BY <1>1, <1>3, <2>1, CountedCommands
<1>5. CASE commands' = Append(commands, d) /\ context' = [context EXCEPT ![ParseToDecode] = NULL]
  <2> DEFINE q == Occurrences(b, c.References)
             p == 0 - q
  <2>1. d \in Short /\ d.References = c.References
    <3>1. c \in DecodeContext  BY <1>0 DEF Short
    <3>2. d \in Short  BY <1>0, Numbered
    <3> QED BY <3>1, <3>2 DEF DecodeContext
  <2>2. q \in Nat
    <3>1. c.References \in Seq(Buffers)  BY <1>0 DEF Short, DecodeContext
    <3> QED BY <3>1, OccurrencesFinite
  <2>3. Cardinality(NamedInCommands(b))' = Cardinality(NamedInCommands(b)) + q
    <3> HIDE DEF d
    <3> QED BY <1>0, <1>5, <2>1, QueuedAppend
  <2>4. NamedIn(ParseToDecode, b) = q /\ NamedIn(ParseToDecode, b)' = 0
    BY <1>0, <1>5 DEF NamedIn
  <2>5. NamedIn(MME, b)' = NamedIn(MME, b) + z  BY <1>0, <1>2, <1>5 DEF NamedIn
  <2>6. p \in Int /\ q \in Int /\ z \in Int /\ 0 = p + z + q /\ 0 = q + p  BY <2>2
  <2>7. NamedIn(ParseToDecode, b)' = NamedIn(ParseToDecode, b) + p
    <3> HIDE DEF q, p
    <3> QED BY <2>4, <2>6
  <2> HIDE DEF q, p, z
  <2> QED BY <1>1, <1>3, <2>2, <2>3, <2>5, <2>6, <2>7, CountedCommands
<1> QED BY <1>4, <1>5 DEF SendMMEDecodeCommand

\* CallbackFromMME: the references of a command become those of the callback's context.
LEMMA CountedCallback ==
  ASSUME IInv, NEW b \in Buffers \ MarkerFrames, CallbackFromMME
  PROVE  Counted(b)'
<1> DEFINE c == Head(commands)
           m == Occurrences(b, c.References)
           q == 0 - m
           z == 0
<1>0. /\ pc \in [Threads -> Places] /\ ParseToDecode \in Threads /\ MME \in Threads
      /\ TypeInv /\ ParseToDecode \in Workers /\ MME \in Workers /\ MME # ParseToDecode
      /\ pc[MME] = "idle" /\ commands # <<>> /\ commands' = Tail(commands)
      /\ 1 \in DOMAIN commands /\ c = commands[1] /\ c \in Short
  BY DEF CallbackFromMME, IInv, TypeInv, CommandTypes, ThreadTypes, Threads,
     Workers, ParseToDecode, MME
<1>1. CommandStep
  BY <1>0 DEF CallbackFromMME, CommandStep, Goto, buffer
<1>2. m \in Nat
  <2>1. c.References \in Seq(Buffers)  BY <1>0 DEF Short, DecodeContext
  <2> QED BY <2>1, OccurrencesFinite
<1>3. /\ NamedIn(ParseToDecode, b) \in Nat /\ NamedIn(MME, b) \in Nat
      /\ Cardinality(NamedInCommands(b)) \in Nat
  BY <1>0, TermTypes
<1>4. Cardinality(NamedInCommands(b))' = Cardinality(NamedInCommands(b)) + q
  <2>1. Cardinality(NamedInCommands(b)) = Cardinality(NamedInCommands(b))' + m
    BY <1>0, QueuedTail
  <2>2. commands' \in Seq(Short)  BY <1>0 DEF TypeInv, CommandTypes
  <2>3. Cardinality(NamedInCommands(b))' \in Nat
    <3>1. NamedInCommands(b)' = Named(commands', b)  BY DEF NamedInCommands, Named
    <3> QED BY <2>2, <3>1, NamedFinite
  <2> HIDE DEF m
  <2> QED BY <1>2, <2>1, <2>3
<1>5. NamedIn(ParseToDecode, b)' = NamedIn(ParseToDecode, b) + z
  BY <1>0, <1>3, CallbackEffect DEF ContextBecomes, NamedIn
<1>6. NamedIn(MME, b)' = NamedIn(MME, b) + m
  <2>1. context[MME] = NULL /\ NamedIn(MME, b) = 0  BY CallbackEffect DEF NamedIn
  <2>2. CASE c.BufferIndex = NULL
    <3>1. c.References = <<>>  BY <1>0, <2>2 DEF IInv, ParametersInv
    <3>2. m = 0  BY <3>1, OccurrencesNone
    <3> QED BY <2>1, <2>2, <3>2, CallbackEffect DEF NamedIn
  <2>3. CASE c.BufferIndex # NULL
    <3>1. context'[MME] # NULL /\ context'[MME].References = c.References
      BY <2>3, CallbackEffect DEF ContextBecomes
    <3>2. NamedIn(MME, b)' = m  BY <3>1 DEF NamedIn
    <3> HIDE DEF m
    <3> QED BY <1>2, <2>1, <3>2
  <2> QED BY <2>2, <2>3
<1>7. q \in Int /\ m \in Int /\ z \in Int /\ 0 = z + m + q  BY <1>2
<1> HIDE DEF c, m, q, z
<1> QED BY <1>1, <1>2, <1>4, <1>5, <1>6, <1>7, CountedCommands

\* SendMMEStreamParameters: the command names no buffer.
LEMMA CountedParameters ==
  ASSUME IInv, NEW b \in Buffers \ MarkerFrames, SendMMEStreamParameters
  PROVE  Counted(b)'
<1> DEFINE c == [NewContext EXCEPT !.number = MMECommandPreparedCount + 1]
           z == 0
<1>0. TypeInv /\ MMECommandPreparedCount + 1 \in Nat
  BY DEF IInv, TypeInv, NumberTypes
<1>1. c \in Short /\ c.References = <<>>
  <2>1. c \in Short  BY <1>0, NewContextType, Numbered
  <2> QED BY <2>1 DEF NewContext
<1>2. commands' = Append(commands, c)  BY DEF SendMMEStreamParameters
<1>3. Cardinality(NamedInCommands(b))' = Cardinality(NamedInCommands(b)) + 0
  <2> HIDE DEF c
  <2> QED BY <1>0, <1>1, <1>2, QueuedAppend, OccurrencesNone
<1>4. /\ NamedIn(ParseToDecode, b)' = NamedIn(ParseToDecode, b) + z
      /\ NamedIn(MME, b)' = NamedIn(MME, b) + z
  BY <1>0, TermTypes DEF SendMMEStreamParameters, NamedIn
<1>5. CommandStep  BY DEF SendMMEStreamParameters, CommandStep, buffer, thread
<1>6. /\ z \in Int /\ 0 = z + z + z
      /\ Cardinality(NamedInCommands(b))' = Cardinality(NamedInCommands(b)) + z
  BY <1>3
<1> HIDE DEF z
<1> QED BY <1>4, <1>5, <1>6, CountedCommands

\* A context that holds no reference comes or goes.
LEMMA CountedEmpty ==
  ASSUME IInv, NEW b \in Buffers \ MarkerFrames,
         \/ \E picture \in Pictures : Input(picture)
         \/ \E t \in Workers : ReleaseEnd(t)
  PROVE  Counted(b)'
<1> DEFINE z == 0
<1>0. /\ pc \in [Threads -> Places] /\ context \in [Workers -> Short \cup {NULL}] /\ TypeInv
  BY DEF IInv, TypeInv, CommandTypes, ThreadTypes
<1> DEFINE Same == /\ CommandStep /\ UNCHANGED commands
                   /\ NamedIn(ParseToDecode, b)' = NamedIn(ParseToDecode, b)
                   /\ NamedIn(MME, b)' = NamedIn(MME, b)
<1>1. ASSUME NEW picture \in Pictures, Input(picture) PROVE Same
  <2>1. CommandStep /\ UNCHANGED commands
    BY <1>0, <1>1 DEF Input, MayInput, CommandStep, Goto, Threads, buffer
  <2>2. NamedIn(ParseToDecode, b)' = NamedIn(ParseToDecode, b)
        /\ NamedIn(MME, b)' = NamedIn(MME, b)
    BY <1>1, InputEffect, OccurrencesNone DEF NamedIn, NewContext
  <2> QED BY <2>1, <2>2
<1>2. ASSUME NEW t \in Workers, ReleaseEnd(t) PROVE Same
  <2>2. CommandStep /\ UNCHANGED commands
    BY <1>0, <1>2 DEF ReleaseEnd, CommandStep, Goto, Threads, Workers, buffer
  <2>3. context[t].References = <<>> /\ context' = [context EXCEPT ![t] = NULL]
    BY <1>2 DEF ReleaseEnd
  <2>4. \A u \in Workers : NamedIn(u, b)' = NamedIn(u, b)
    BY <1>0, <2>3, OccurrencesNone DEF NamedIn
  <2> QED BY <2>2, <2>4 DEF Workers
<1>3. /\ CommandStep
      /\ NamedIn(ParseToDecode, b)' = NamedIn(ParseToDecode, b) + z
      /\ NamedIn(MME, b)' = NamedIn(MME, b) + z
      /\ Cardinality(NamedInCommands(b))' = Cardinality(NamedInCommands(b)) + z
  <2> HIDE DEF Same
  <2>1. Same  BY <1>1, <1>2
  <2>2. Cardinality(NamedInCommands(b))' = Cardinality(NamedInCommands(b))
    BY <2>1 DEF Same, NamedInCommands
  <2> QED BY <1>0, <2>1, <2>2, TermTypes DEF Same
<1>4. z \in Int /\ 0 = z + z + z  OBVIOUS
<1> HIDE DEF z
<1> QED BY <1>3, <1>4, CountedCommands

\* A step that adds nothing to any term.
Steady(b) ==
  /\ InCodecCount(b)' = InCodecCount(b)
  /\ BufferState'[b].ReferenceFrameCount = BufferState[b].ReferenceFrameCount
  /\ \A t \in Threads : /\ pc'[t] = "drop" <=> pc[t] = "drop"
                        /\ pc[t] = "drop" => arg'[t] = arg[t]
  /\ NamedIn(ParseToDecode, b)' = NamedIn(ParseToDecode, b)
  /\ NamedIn(MME, b)' = NamedIn(MME, b)
  /\ UNCHANGED <<OwnerCount, OutputRing, commands>>

\* A steady step leaves the count right.
LEMMA CountedSteady ==
  ASSUME IInv, NEW b \in Buffers \ MarkerFrames, Steady(b)
  PROVE  Counted(b)'
<1> DEFINE z == 0
<1>1. Cardinality(Dropped(b))' = Cardinality(Dropped(b))  BY DroppedSame DEF Steady
<1>2. Cardinality(NamedInCommands(b))' = Cardinality(NamedInCommands(b))
  BY DEF Steady, NamedInCommands
<1>3. Adds(b, z, z, z, z, z, z, z, z)
  BY <1>1, <1>2, TermTypes DEF Steady, Adds, IInv, InCodecCount
<1>4. z \in Int /\ z = z + z + z + z + z + z + z  OBVIOUS
<1> HIDE DEF z
<1> QED BY <1>3, <1>4, CountedBalance

\* The buffer of a picture is the codec's when it is mapped as it was before, and

\* when a decode is launched into it.
LEMMA CountedMapped ==
  ASSUME IInv, NEW b \in Buffers \ MarkerFrames, Mapped
  PROVE  Counted(b)'
<1>0. /\ pc \in [Threads -> Places] /\ BufferState \in [Buffers -> BufferStates]
  BY DEF IInv, TypeInv, BufferTypes, ThreadTypes
<1>1. pc[ParseToDecode] = "map" /\ pc'[ParseToDecode] = "bind"
  BY <1>0 DEF Mapped, Goto, Threads
<1>2. /\ InCodecCount(b)' = InCodecCount(b)
      /\ BufferState'[b].ReferenceFrameCount = BufferState[b].ReferenceFrameCount
  <2>1. CASE b = Current
    <3>1. BufferState[b] = Unused /\ InCodec(b)
      BY <1>1, <2>1, MappedIsFresh DEF InCodec, Current, IInv, BuffersInv
    <3>2. BufferState'[b] = [Unused EXCEPT !.mapped = TRUE]
      BY <1>0, <2>1 DEF Mapped
    <3>3. InCodec(b)'  BY <3>2 DEF InCodec, Unused
    <3> QED BY <3>1, <3>2, <3>3 DEF InCodecCount, Unused
  <2>2. CASE b # Current
    <3>1. BufferState'[b] = BufferState[b]  BY <1>0, <2>2 DEF Mapped
    <3>2. InCodec(b)' <=> InCodec(b)  BY <1>1, <2>2, <3>1 DEF InCodec, Current
    <3> QED BY <3>1, <3>2 DEF InCodecCount
  <2> QED BY <2>1, <2>2
<1>3. Steady(b)  BY <1>0, <1>2 DEF Mapped, Steady, Goto, Threads, NamedIn
<1> QED BY <1>3, CountedSteady

\* Launch: the buffer was the codec's as an open one, and is as one with a decode under

\* way.
LEMMA CountedLaunched ==
  ASSUME IInv, NEW b \in Buffers \ MarkerFrames, NEW c \in Buffers, NEW seen \in SUBSET Frame,
         Launched(c, seen)
  PROVE  Counted(b)'
<1>0. /\ pc \in [Threads -> Places] /\ BufferState \in [Buffers -> BufferStates]
  BY DEF IInv, TypeInv, BufferTypes, ThreadTypes
<1>1. pc[ParseToDecode] = "launch" /\ pc'[ParseToDecode] = "send" /\ c = Current
  BY <1>0 DEF Launched, Goto, Threads
<1>2. InCodecCount(b)' = InCodecCount(b)
  <2>1. CASE b = c
    <3>1. Open(b) /\ BufferState[b].DecodesInProgress \in Nat
      BY <1>1, <2>1, BoundIsOpen, DecodesType
    <3>2. /\ BufferState'[b].mapped
          /\ BufferState'[b].DecodesInProgress = BufferState[b].DecodesInProgress + 1
      BY <1>0, <2>1, <3>1 DEF Launched, BufferStates, Open
    <3>3. InCodec(b)' /\ InCodec(b)  BY <3>1, <3>2 DEF InCodec, Open
    <3> QED BY <3>3 DEF InCodecCount
  <2>2. CASE b # c
    <3>1. BufferState'[b] = BufferState[b]  BY <1>0, <2>2 DEF Launched
    <3> QED BY <1>1, <3>1, CodecSame
  <2> QED BY <2>1, <2>2
<1>3. BufferState'[b].ReferenceFrameCount = BufferState[b].ReferenceFrameCount
  BY <1>0 DEF Launched, BufferStates
<1>4. NamedIn(ParseToDecode, b)' = NamedIn(ParseToDecode, b)
      /\ NamedIn(MME, b)' = NamedIn(MME, b)
  <2>1. \A u \in Workers : /\ context'[u] = NULL <=> context[u] = NULL
                           /\ context'[u].References = context[u].References
    <3>1. context[ParseToDecode] # NULL  BY LaunchEffect, CodecAssumption DEF Short
    <3> QED BY <3>1, LaunchEffect DEF ContextBecomes
  <2> QED BY <2>1, NamedSame
<1>5. Steady(b)  BY <1>0, <1>2, <1>3, <1>4 DEF Launched, Steady, Goto, Threads
<1> QED BY <1>5, CountedSteady

\* With the codec drained and its reference frames released, it holds no buffer.
LEMMA CountedReset ==
  ASSUME IInv, NEW b \in Buffers \ MarkerFrames, HaltAndReset
  PROVE  Counted(b)'
<1>0. /\ pc \in [Threads -> Places] /\ BufferState \in [Buffers -> BufferStates]
  BY DEF IInv, TypeInv, BufferTypes, ThreadTypes
<1>1. /\ pc[ParseToDecode] = "all" /\ pc'[ParseToDecode] = "idle"
      /\ BufferState'[b] = Unused /\ BufferState[b].ReferenceFrameCount = 0
  BY <1>0 DEF HaltAndReset, Goto, Threads
<1>2. BufferState[b].DecodesInProgress = 0
  <2>1. commands = <<>> /\ context[MME] = NULL /\ context[ParseToDecode] = NULL
    BY DEF HaltAndReset, IInv, ModesInv, InSwitch, Settled, CallbackBusy, LocalsInv,
           PlacesInv, HasContext, Partial, Workers
  <2>2. Cardinality(CommandsFor(b)) = 0  BY <2>1, FS_EmptySet DEF CommandsFor
  <2>3. DecodesOf(ParseToDecode, b) = 0 /\ DecodesOf(MME, b) = 0
    BY <2>1 DEF DecodesOf, Decoding
  <2> QED BY <2>2, <2>3 DEF IInv, DecodesInv
<1>3. Current = NULL  BY <1>1 DEF IInv, CurrentInv, InSwitch
<1>4. ~Open(b)  BY <1>3, CodecAssumption DEF IInv, OpenInv
<1>5. ~InCodec(b)  BY <1>1, <1>2, <1>4 DEF InCodec, Open
<1>6. ~InCodec(b)'  BY <1>1 DEF InCodec, Unused
<1>7. Steady(b)
  BY <1>0, <1>1, <1>5, <1>6 DEF HaltAndReset, Steady, Goto, Threads, InCodecCount, Unused, NamedIn
<1> QED BY <1>7, CountedSteady

\* A move starts or ends no drop, and leaves the buffer that is to be mapped.
LEMMA MovesKeepPlaces ==
  ASSUME IInv, Moves
  PROVE  /\ \A t \in Threads : /\ pc'[t] = "drop" <=> pc[t] = "drop"
                               /\ pc[t] = "drop" => arg'[t] = arg[t]
         /\ pc'[ParseToDecode] = "map" <=> pc[ParseToDecode] = "map"
         /\ pc[ParseToDecode] = "map" => Current' = Current
<1> DEFINE Same == /\ \A t \in Threads : /\ pc'[t] = "drop" <=> pc[t] = "drop"
                                         /\ pc[t] = "drop" => arg'[t] = arg[t]
                   /\ pc'[ParseToDecode] = "map" <=> pc[ParseToDecode] = "map"
<1>0. PlacesInv /\ ReturnsInv /\ ThreadTypes
  BY DEF IInv, LocalsInv, TypeInv
<1> USE DEF ThreadTypes, ReturnsInv, Partial, Threads, Workers, Goto, ParseToDecode, MME,
            PostManifest,
            Drain
<1>1. ASSUME NEW t \in Threads, PartialTest(t) PROVE Same
  BY <1>0, <1>1 DEF PartialTest, AfterPartial
<1>2. ASSUME NEW t \in Threads, PartialEnd(t) PROVE Same
  BY <1>0, <1>2 DEF PartialEnd, AfterPartial
<1>3. ASSUME NEW t \in Workers, ReleasesNothing(t) PROVE Same
  BY <1>0, <1>3 DEF ReleasesNothing
<1>4. ASSUME NEW t \in Workers, ReleaseRelock(t) PROVE Same
  BY <1>0, <1>4 DEF ReleaseRelock
<1>5. ASSUME NEW t \in Workers, TestMarkerFramePassOn(t) PROVE Same
  BY <1>0, <1>5 DEF TestMarkerFramePassOn
<1>6. ASSUME NEW t \in Workers, TakeMarkerBuffer(t) PROVE Same
  BY <1>0, <1>6 DEF TakeMarkerBuffer
<1>7. ASSUME DropPicture \/ GetDecodeBufferFails PROVE Same
  BY <1>0, <1>7 DEF DropPicture, MayInput, GetDecodeBufferFails, Fails
<1>8. ASSUME InputEnd \/ InputMarkerHold \/ Completed \/ SwitchCodec PROVE Same
  BY <1>0, <1>8 DEF InputEnd, InputMarkerHold, Completed, SwitchCodec
<1>9. ASSUME NEW discard \in BOOLEAN, NEW switch \in BOOLEAN, DrainStream(discard, switch)
      PROVE  Same
  BY <1>0, <1>9 DEF DrainStream
<1>10. ASSUME UNCHANGED vars PROVE Same  BY <1>10 DEF vars, thread
<1> HIDE DEF Same
<1>11. Same
  BY <1>1, <1>2, <1>3, <1>4, <1>5, <1>6, <1>7, <1>8, <1>9, <1>10 DEF Moves
<1>12. pc[ParseToDecode] = "map" => Current' = Current
  <2>1. Moves => Steps  BY DEF Moves, Steps
  <2>2. pc[ParseToDecode] = "map" => Current # NULL /\ \A b \in Buffers : ~GetDecodeBuffer(b)
    BY DEF IInv, OpenInv, GetDecodeBuffer
  <2> QED BY <2>1, <2>2, CurrentChange
<1> QED BY <1>11, <1>12 DEF Same

\* The steps that move a thread only.
LEMMA CountedMoves ==
  ASSUME IInv, NEW b \in Buffers \ MarkerFrames, Moves
  PROVE  Counted(b)'
<1>1. UNCHANGED <<BufferState, OwnerCount, OutputRing, commands, context>>
  BY MovesChangeNothing DEF buffer
<1>2. InCodecCount(b)' = InCodecCount(b)
  BY <1>1, MovesKeepPlaces, CodecSame DEF Current
<1>3. NamedIn(ParseToDecode, b)' = NamedIn(ParseToDecode, b)
      /\ NamedIn(MME, b)' = NamedIn(MME, b)
  BY <1>1 DEF NamedIn
<1>4. Steady(b)  BY <1>1, <1>2, <1>3, MovesKeepPlaces DEF Steady
<1> QED BY <1>4, CountedSteady

\* A marker has no hold but its own, in the ring or on the way to it; when it is

\* given back nobody has it.
LEMMA MarkerHeld ==
  ASSUME IInv, NEW b \in MarkerFrames
  PROVE  /\ b \in Buffers /\ OwnerCount[b] = 1 /\ BufferState[b] = Unused
         /\ InCodecCount(b) = 0 /\ CurrentDecodeBufferIndex # b /\ Cardinality(Dropped(b)) = 0
         /\ NamedIn(ParseToDecode, b) = 0 /\ NamedIn(MME, b) = 0
         /\ Cardinality(NamedInCommands(b)) = 0
<1>0. /\ b \in Buffers /\ TypeInv /\ commands \in Seq(Short)
      /\ context \in [Workers -> Short \cup {NULL}]
  BY DEF IInv, TypeInv, BufferTypes, CommandTypes
<1>1. /\ OwnerCount[b] = 1 /\ ~BufferState[b].mapped /\ CurrentDecodeBufferIndex # b
      /\ \A t \in Threads : pc[t] = "drop" => arg[t] # b
  BY DEF IInv, MarkersAlone
<1>2. BufferState[b] = Unused  BY <1>0, <1>1 DEF IInv, BuffersInv
<1>3. InCodecCount(b) = 0  BY <1>1 DEF InCodecCount, InCodec
<1>4. Cardinality(Dropped(b)) = 0  BY <1>0, <1>1, TermTypes
<1>5. ASSUME NEW t \in Workers PROVE NamedIn(t, b) = 0
  <2>1. CASE context[t] # NULL
    <3>1. context[t].References \in Seq(Buffers)
      BY <1>0, <2>1 DEF Short, DecodeContext
    <3>2. \A k \in DOMAIN context[t].References : context[t].References[k] # b
      BY <1>1, <2>1 DEF IInv, BuffersInv
    <3> QED BY <2>1, <3>1, <3>2, OccurrencesFinite DEF NamedIn
  <2> QED BY <2>1 DEF NamedIn
<1>6. Cardinality(NamedInCommands(b)) = 0
  <2>1. \A n \in DOMAIN commands : \A k \in DOMAIN commands[n].References :
          commands[n].References[k] # b
    BY <1>1 DEF IInv, BuffersInv
  <2>2. NamedInCommands(b) = {}  BY <2>1 DEF NamedInCommands
  <2> QED BY <2>2, FS_EmptySet
<1> QED BY <1>0, <1>1, <1>2, <1>3, <1>4, <1>5, <1>6 DEF Workers

\* A marker that has been given back is a free buffer like any other.
LEMMA CountedReturned ==
  ASSUME IInv, NEW b \in MarkerFrames, b \notin MarkerFrames',
         InputMarkerTake \/ \E c \in Buffers : ShowsMarker(c)
  PROVE  Counted(b)'
<1>0. /\ TypeInv /\ b \in Buffers /\ OwnerCount[b] = 1 /\ pc \in [Threads -> Places]
      /\ OwnerCount \in [Buffers -> Int] /\ OutputRing \in Seq(Buffers)
  BY MarkerHeld DEF IInv, TypeInv, BufferTypes, ThreadTypes
<1> DEFINE Same == /\ OwnerCount'[b] = 0 /\ Occurrences(b, OutputRing') = 0
                   /\ \A t \in Threads : /\ pc'[t] = "drop" <=> pc[t] = "drop"
                                         /\ pc[t] = "drop" => arg'[t] = arg[t]
                   /\ UNCHANGED <<BufferState, CurrentDecodeBufferIndex, commands, context>>
<1>1. ASSUME InputMarkerTake PROVE Same
  <2>1. MarkerBuffer = b
    BY <1>1 DEF InputMarkerTake
  <2>2. ~MarkerInRing  BY <2>1, <1>0, CodecAssumption DEF IInv, MarkersInv
  <2>3. Occurrences(b, OutputRing) = 0
    BY <1>0, <2>2, OccurrencesFinite DEF MarkerInRing
  <2> QED BY <1>0, <1>1, <2>1, <2>3, CodecAssumption DEF InputMarkerTake, Goto, Threads
<1>2. ASSUME NEW c \in Buffers, ShowsMarker(c) PROVE Same
  <2>1. c = b  BY <1>2 DEF ShowsMarker
  <2>2. OutputRing # <<>> /\ Head(OutputRing) = b /\ OutputRing' = Tail(OutputRing)
    BY <1>2, <2>1 DEF ShowsMarker
  <2>3. \A k \in DOMAIN OutputRing' :
          k + 1 \in DOMAIN OutputRing /\ OutputRing'[k] = OutputRing[k + 1] /\ k + 1 # 1
    BY <1>0, <2>2
  <2>4. 1 \in DOMAIN OutputRing /\ OutputRing[1] = b  BY <1>0, <2>2
  <2>5. \A k \in DOMAIN OutputRing' : OutputRing'[k] # b
    BY <2>3, <2>4 DEF IInv, MarkersInv, OneMarkerInRing
  <2>6. OutputRing' \in Seq(Buffers)  BY <1>0, <2>2
  <2>7. Occurrences(b, OutputRing') = 0  BY <2>5, <2>6, OccurrencesFinite
  <2> QED BY <1>0, <1>2, <2>1, <2>7 DEF ShowsMarker, thread
<1> HIDE DEF Same
<1>3. Same  BY <1>1, <1>2
<1>4. InCodecCount(b)' = 0
  BY <1>3, MarkerHeld DEF Same, InCodecCount, InCodec, Unused
<1>5. Cardinality(Dropped(b))' = 0  BY <1>3, DroppedSame, MarkerHeld DEF Same
<1>6. NamedIn(ParseToDecode, b)' = 0 /\ NamedIn(MME, b)' = 0
      /\ Cardinality(NamedInCommands(b))' = 0
  BY <1>3, MarkerHeld DEF Same, NamedIn, NamedInCommands
<1>7. BufferState'[b].ReferenceFrameCount = 0  BY <1>3, MarkerHeld DEF Same, Unused
<1> QED BY <1>3, <1>4, <1>5, <1>6, <1>7 DEF Same, Counted, Held

\* Every reference is accounted for after every step, whichever of the four threads takes

\* it.
LEMMA ReferencesCountedStep == ASSUME IInv, Steps PROVE ReferencesCounted'
<1> SUFFICES ASSUME NEW b \in Buffers, b \notin MarkerFrames' PROVE Counted(b)'
  BY DEF ReferencesCounted, Counted, Held, InCodecCount
<1>1. CASE b \in MarkerFrames
  <2>1. InputMarkerTake \/ \E c \in Buffers : ShowsMarker(c)
    BY <1>1, Changes DEF ChangesOwners, Drops, GetDecodeBuffer, InputMarkerGet, Bound
  <2> QED BY <1>1, <2>1, CountedReturned
<1>2. CASE b \notin MarkerFrames
  <2>1. b \in Buffers \ MarkerFrames  BY <1>2
  <2>2. ASSUME NEW t \in Workers, NEW c \in Buffers,
               ReleasesToDiscard(t, c) \/ ReleasesToOutput(t, c) \/ ReleasesOne(t, c)
        PROVE  Releases(t, c)
    BY <2>2 DEF Releases, ReleasesToDiscard, ReleasesToOutput, ReleasesOne
  <2> QED
    BY <2>1, <2>2, CountedDrops, CountedGet, CountedMarker, CountedBound, CountedSeals,
       CountedReleases, CountedShows, CountedReference, CountedFrame, CountedSend,
       CountedCallback, CountedParameters, CountedEmpty, CountedMapped, CountedLaunched,
       CountedReset, CountedMoves
       DEF Steps, Moves
<1> QED BY <1>1, <1>2

\* The command that sets the parameters of the stream is appended with no reference, that

\* of a decode with the buffer of its picture.
LEMMA ParametersStep == ASSUME IInv, Steps PROVE ParametersInv'
<1> DEFINE Fine(c) == c.BufferIndex = NULL => c.References = <<>>
<1>0. \A n \in DOMAIN commands : Fine(commands[n])  BY DEF IInv, ParametersInv
<1>t. commands \in Seq(Short) /\ MMECommandPreparedCount + 1 \in Nat
  BY DEF IInv, TypeInv, CommandTypes, NumberTypes
<1> SUFFICES ASSUME NEW n \in DOMAIN commands' PROVE Fine(commands'[n])
  BY DEF ParametersInv
<1> HIDE DEF Fine
<1>1. ASSUME NEW c \in Short, commands' = Append(commands, c), Fine(c)
      PROVE  Fine(commands'[n])
  <2>1. (n \in DOMAIN commands /\ commands'[n] = commands[n]) \/ commands'[n] = c
    BY <1>1, <1>t, AppendProperties
  <2> QED BY <1>0, <1>1, <2>1
<1>2. CASE SendMMEStreamParameters
  <2> DEFINE c == [NewContext EXCEPT !.number = MMECommandPreparedCount + 1]
  <2>1. c \in Short  BY <1>t, NewContextType, Numbered
  <2>2. commands' = Append(commands, c)  BY <1>2 DEF SendMMEStreamParameters
  <2>3. Fine(c)  BY DEF NewContext, Fine
  <2> HIDE DEF c
  <2> QED BY <1>1, <2>1, <2>2, <2>3
<1>3. CASE SendMMEDecodeCommand
  <2> DEFINE d == context[ParseToDecode]
             c == [d EXCEPT !.number = MMECommandPreparedCount + 1]
  <2>1. d \in Short /\ d # NULL /\ ParseToDecode \in Workers /\ pc[ParseToDecode] = "send"
    BY <1>3 DEF SendMMEDecodeCommand, IInv, LocalsInv, HasContext, Workers, TypeInv, CommandTypes
  <2>2. c \in Short  BY <1>t, <2>1, Numbered
  <2>3. Decoding(ParseToDecode)  BY <2>1 DEF IInv, PictureInv, Decoding
  <2>4. d.BufferIndex # NULL  BY <2>1, <2>3 DEF IInv, DecodesInv
  <2>5. c.BufferIndex = d.BufferIndex  BY <2>1 DEF Short, DecodeContext
  <2>6. Fine(c)  BY <2>4, <2>5 DEF Fine
  <2>7. commands' = Append(commands, c) \/ UNCHANGED commands
    BY <1>3 DEF SendMMEDecodeCommand
  <2> HIDE DEF c, d
  <2> QED BY <1>0, <1>1, <2>2, <2>6, <2>7
<1>4. CASE CallbackFromMME
  <2>1. commands # <<>> /\ commands' = Tail(commands)  BY <1>4 DEF CallbackFromMME
  <2>2. n + 1 \in DOMAIN commands /\ commands'[n] = commands[n + 1]  BY <1>t, <2>1
  <2> QED BY <1>0, <2>2
<1>5. CASE UNCHANGED commands  BY <1>0, <1>5
<1> QED BY <1>2, <1>3, <1>4, <1>5, Changes DEF ChangesCommands

(***************************************************************************)
(* The invariant, and what the runs check of the codec.                    *)
(***************************************************************************)

\* Nothing is referred to, decoded or on its way when the codec is made.
LEMMA InitInv == Init => IInv
<1> SUFFICES ASSUME Init PROVE IInv  OBVIOUS
<1> USE DEF Init
<1>1. /\ commands = <<>> /\ OutputRing = <<>> /\ DOMAIN commands = {} /\ DOMAIN OutputRing = {}
      /\ \A t \in Workers : context[t] = NULL
      /\ \A t \in Threads : pc[t] = "idle" /\ ret[t] = "idle"
      /\ ParseToDecode \in Threads /\ MME \in Threads /\ PostManifest \in Threads
      /\ Drain \in Threads /\ ParseToDecode \in Workers /\ MME \in Workers
      /\ Workers \subseteq Threads
  BY DEF Workers, Threads
<1>2. Unused \in BufferStates  BY DEF Unused, BufferStates
<1>3. TypeInv
  <2>1. BufferTypes  BY <1>2 DEF BufferTypes
  <2>2. CommandTypes  BY DEF CommandTypes, Workers
  <2>3. NumberTypes  BY DEF NumberTypes
  <2>4. ThreadTypes  BY DEF ThreadTypes, Places, Returns, NoPicture
  <2> QED BY <2>1, <2>2, <2>3, <2>4 DEF TypeInv
<1>4. LocalsInv  BY <1>1 DEF LocalsInv, PlacesInv, ReturnsInv, HasContext, Partial
<1>5. ModesInv
  BY <1>1 DEF ModesInv, WithPicture, InSwitch, Settled, CallbackBusy, Discarding
<1>6. CountsInv  BY <1>1 DEF CountsInv, Busy, CallbackBusy
<1>7. MarkersAlone  BY DEF MarkersAlone
<1>8. MarkersInv  BY <1>1 DEF MarkersInv, MarkerInRing, OneMarkerInRing
<1>9. DecodesInv
  <2>1. \A b \in Buffers : CommandsFor(b) = {}  BY <1>1 DEF CommandsFor
  <2>2. \A t \in Workers : ~Decoding(t)  BY <1>1 DEF Decoding
  <2>3. \A b \in Buffers, t \in Workers : DecodesOf(t, b) = 0  BY <2>2 DEF DecodesOf
  <2>4. \A b \in Buffers : BufferState[b].DecodesInProgress = 0  BY DEF Unused
  <2>5. \A b \in Buffers : Cardinality(CommandsFor(b)) = 0  BY <2>1, FS_EmptySet
  <2> QED BY <1>1, <2>2, <2>3, <2>4, <2>5 DEF DecodesInv
<1>10. BuffersInv  BY <1>1 DEF BuffersInv, Unused
<1>11. OpenInv  BY <1>1 DEF OpenInv, Open, Unused, Current, Decoding
<1>12. CurrentInv
  BY <1>1 DEF CurrentInv, InSwitch, Decoding, Discarding, Current
<1>13. PictureInv /\ ParametersInv  BY <1>1 DEF PictureInv, ParametersInv
<1>14. ReferencesCounted
  <2> SUFFICES ASSUME NEW b \in Buffers PROVE OwnerCount[b] = Held(b)  BY CountIsHeld
  <2>1. ~InCodec(b)  BY <1>1 DEF InCodec, Unused
  <2>2. Dropped(b) = {} /\ NamedInCommands(b) = {}  BY <1>1 DEF Dropped, NamedInCommands
  <2>3. Occurrences(b, OutputRing) = 0  BY OccurrencesNone
  <2>4. NamedIn(ParseToDecode, b) = 0 /\ NamedIn(MME, b) = 0  BY <1>1 DEF NamedIn
  <2>5. OwnerCount[b] = 0 /\ BufferState[b].ReferenceFrameCount = 0  BY DEF Unused
  <2>6. Cardinality({}) = 0  BY FS_EmptySet
  <2>7. Cardinality(Dropped(b)) = 0 /\ Cardinality(NamedInCommands(b)) = 0
    BY <2>2, <2>6
  <2> QED BY <2>1, <2>3, <2>4, <2>5, <2>7 DEF Held, InCodecCount
<1> QED
  BY <1>3, <1>4, <1>5, <1>6, <1>7, <1>8, <1>9, <1>10, <1>11, <1>12, <1>13, <1>14 DEF IInv

\* Every step keeps the invariant. QuietDrain is needed for the modes and the markers.
LEMMA StepInv == ASSUME IInv, QuietDrain, [Next]_vars PROVE IInv'
<1>0. Steps  BY StepsCover
<1>1. PlacesInv' /\ ReturnsInv' /\ ModesInv' /\ CountsInv' /\ NumberTypes'
  BY <1>0, ControlStep
<1>2. TypeInv'
  <2>1. BufferTypes' /\ ThreadTypes'  BY <1>0, BufferTypesStep, ThreadTypesStep
  <2>2. commands' \in Seq(Short) /\ context' \in [Workers -> Short \cup {NULL}]
    BY <1>0, CommandsType, ContextsType
  <2> QED BY <1>1, <2>1, <2>2 DEF TypeInv, CommandTypes
<1>3. LocalsInv'  BY <1>0, <1>1, ContextsKeptStep DEF LocalsInv, ContextsKept
<1>4. MarkersAlone' /\ MarkersInv'  BY <1>0, MarkersAloneStep, MarkersStep
<1>5. DecodesInv' /\ BuffersInv'  BY <1>0, DecodesInvStep, BuffersInvStep
<1>6. OpenInv' /\ CurrentInv' /\ PictureInv' /\ ParametersInv'
  BY <1>0, OpenInvStep, CurrentInvStep, PictureInvStep, ParametersStep
<1>7. ReferencesCounted'  BY <1>0, ReferencesCountedStep
<1> QED BY <1>1, <1>2, <1>3, <1>4, <1>5, <1>6, <1>7 DEF IInv

\* The invariant holds in every state of the codec, for any number of buffers, contexts,

\* references, pictures, failures, drains and switches, when drains are quiet.
THEOREM InvariantHolds == ASSUME QuietDrain PROVE Spec => []IInv
BY InitInv, StepInv, PTL DEF Spec

\* TypeOK: counts are not negative, no more commands are completed than prepared, and Input

\* never uses an index that the callback or a drain has made invalid.
THEOREM TypesHold == ASSUME QuietDrain PROVE Spec => []TypeOK
<1>1. IInv => TypeOK
  <2> SUFFICES ASSUME IInv PROVE TypeOK  OBVIOUS
  <2>1. TypeInv /\ LocalsInv /\ CountsInv /\ MarkersInv  BY DEF IInv
  <2>2. \A b \in Buffers : BufferState[b].DecodesInProgress \in Nat
    BY DecodesType
  <2>3. BufferState \in [Buffers ->
       [mapped : BOOLEAN, OutputOnDecodesComplete : BOOLEAN, DecodesInProgress : Nat,
        ReferenceFrameCount : Nat, PictureStructure : SUBSET Frame]]
    BY <2>1, <2>2 DEF TypeInv, BufferTypes, BufferStates
  <2>4. OwnerCount \in [Buffers -> Nat]
    <3>1. \A b \in Buffers : OwnerCount[b] \in Nat
      <4> SUFFICES ASSUME NEW b \in Buffers PROVE OwnerCount[b] \in Nat  OBVIOUS
      <4>1. CASE b \in MarkerFrames  BY <4>1 DEF IInv, MarkersAlone
      <4>2. CASE b \notin MarkerFrames  BY <4>2, FewHolds
      <4> QED BY <4>1, <4>2
    <3> QED BY <2>1, <3>1 DEF TypeInv, BufferTypes
  <2>5. MMECommandCompletedCount \in 0 .. MMECommandPreparedCount
    <3>1. Len(commands) \in Nat /\ Busy \in Nat
      BY <2>1 DEF TypeInv, CommandTypes, Busy
    <3>2. /\ MMECommandCompletedCount + Len(commands) + Busy <= MMECommandPreparedCount
          /\ MMECommandCompletedCount \in Nat /\ MMECommandPreparedCount \in Nat
      BY <2>1 DEF CountsInv, TypeInv, NumberTypes
    <3> QED BY <3>1, <3>2
  <2>6. MarkerBuffer \in MarkerFrames \cup {NULL} /\ pc[ParseToDecode] # "wild"
    BY <2>1 DEF MarkersInv, LocalsInv, PlacesInv
  <2> QED BY <2>1, <2>3, <2>4, <2>5, <2>6 DEF TypeOK, TypeInv, BufferTypes
<1> QED BY <1>1, InvariantHolds, PTL

\* ReferencesCounted: the count of every decode buffer is the number of those that hold it,

\* so that none is given back twice or kept for ever.
THEOREM ReferencesHold == ASSUME QuietDrain PROVE Spec => []ReferencesCounted
<1>1. IInv => ReferencesCounted  BY DEF IInv
<1> QED BY <1>1, InvariantHolds, PTL

\* CompleteWhenOutput: what is in the output ring has no decode under way into it, in a

\* command or in a context.
THEOREM OutputIsComplete == ASSUME QuietDrain PROVE Spec => []CompleteWhenOutput
<1>1. IInv => CompleteWhenOutput
  <2> SUFFICES ASSUME IInv, NEW k \in DOMAIN OutputRing
               PROVE  LET b == OutputRing[k] IN
                      /\ b \notin MarkerFrames => BufferState[b].DecodesInProgress = 0
                      /\ ~ \E c \in DOMAIN commands : commands[c].BufferIndex = b
                      /\ ~ \E t \in Live : context[t].DecodeInProgress /\ context[t].BufferIndex = b
    BY DEF CompleteWhenOutput
  <2> DEFINE b == OutputRing[k]
  <2>1. b \in Buffers /\ commands \in Seq(Short)
    BY DEF IInv, TypeInv, BufferTypes, CommandTypes
  <2>2. BufferState[b].DecodesInProgress = 0
    <3>1. CASE BufferState[b].mapped  BY <3>1 DEF IInv, BuffersInv
    <3>2. CASE ~BufferState[b].mapped  BY <2>1, <3>2 DEF IInv, BuffersInv, Unused
    <3> QED BY <3>1, <3>2
  <2> HIDE DEF b
  <2>3. /\ Cardinality(CommandsFor(b)) \in Nat
        /\ DecodesOf(ParseToDecode, b) \in {0, 1} /\ DecodesOf(MME, b) \in {0, 1}
        /\ 0 = Cardinality(CommandsFor(b)) + DecodesOf(ParseToDecode, b) + DecodesOf(MME, b)
    BY <2>1, <2>2, DecodesType DEF Decodes, Workers
  <2>4. /\ Cardinality(CommandsFor(b)) = 0
        /\ DecodesOf(ParseToDecode, b) = 0 /\ DecodesOf(MME, b) = 0
    BY <2>3
  <2>5. CommandsFor(b) = {}
    <3>1. IsFiniteSet(CommandsFor(b))
      <4>1. CommandsFor(b) \subseteq 1 .. Len(commands)  BY <2>1 DEF CommandsFor
      <4>2. IsFiniteSet(1 .. Len(commands))  BY <2>1, FS_Interval
      <4> QED BY <4>1, <4>2, FS_Subset
    <3> QED BY <2>4, <3>1, FS_EmptySet
  <2>6. \A t \in Live : ~(context[t].DecodeInProgress /\ context[t].BufferIndex = b)
    BY <2>4 DEF DecodesOf, Decoding, Live
  <2>7. /\ b \notin MarkerFrames => BufferState[b].DecodesInProgress = 0
        /\ ~ \E c \in DOMAIN commands : commands[c].BufferIndex = b
        /\ ~ \E t \in Live : context[t].DecodeInProgress /\ context[t].BufferIndex = b
    BY <2>2, <2>5, <2>6 DEF CommandsFor
  <2> QED BY <2>7 DEF b
<1> QED BY <1>1, InvariantHolds, PTL

\* MarkerNotKept: when nothing is left to complete, and nobody is on the way to the test,

\* the codec holds a marker only for a command that was counted and could not be sent.
THEOREM MarkerIsNotKept == ASSUME QuietDrain PROVE Spec => []MarkerNotKept
<1>1. IInv => MarkerNotKept
  <2> SUFFICES ASSUME IInv, MarkerBuffer # NULL, pc[MME] = "idle", pc[ParseToDecode] = "idle"
               PROVE  MMECommandCompletedCount < MMECommandPreparedCount
    BY DEF MarkerNotKept
  <2> QED BY DEF IInv, MarkersInv
<1> QED BY <1>1, InvariantHolds, PTL

\* MarkerLast: a marker goes into the ring when nothing that was sent before it is still to

\* be completed.
THEOREM MarkerIsLast == ASSUME QuietDrain PROVE Spec => MarkerLast
<1>1. ASSUME IInv, [Next]_vars
      PROVE  [\A b \in MarkerFrames :
                Occurrences(b, OutputRing') > Occurrences(b, OutputRing) =>
                  ~Pending(sentBefore)]_vars
  <2>0. Steps /\ OutputRing \in Seq(Buffers) /\ commands \in Seq(Short)
    BY <1>1, StepsCover DEF IInv, TypeInv, BufferTypes, CommandTypes
  <2> SUFFICES ASSUME NEW b \in MarkerFrames,
                      Occurrences(b, OutputRing') > Occurrences(b, OutputRing)
               PROVE  ~Pending(sentBefore)
    OBVIOUS
  <2>b. b \in Buffers  BY <1>1 DEF IInv, TypeInv, BufferTypes
  <2>1. PICK t \in Workers : Passes(t, b)
    <3>1. ASSUME NEW c \in Buffers, OutputRing' = Append(OutputRing, c) PROVE c = b
      BY <2>0, <2>b, <3>1, OccurrencesAppend, OccurrencesFinite
    <3>2. ASSUME NEW t \in Threads, NEW c \in Buffers, Seals(t, c) PROVE FALSE
      <4>1. c # b  BY <1>1, <3>2 DEF Seals, Open, IInv, MarkersAlone
      <4>2. OutputRing' = Append(OutputRing, c) \/ OutputRing' = OutputRing
        BY <3>2 DEF Seals
      <4> QED BY <2>0, <2>b, <3>1, <4>1, <4>2, OccurrencesFinite
    <3>3. ASSUME NEW t \in Workers, NEW c \in Buffers, ReleasesToOutput(t, c) PROVE FALSE
      <4>1. c # b  BY <1>1, <3>3 DEF ReleasesToOutput, ReleasesDecode, IInv, MarkersAlone
      <4> QED BY <3>1, <3>3, <4>1 DEF ReleasesToOutput
    <3>4. ASSUME NEW c \in Buffers, ShowsMarker(c) \/ ShowsBuffer(c) PROVE FALSE
      <4>1. OutputRing # <<>> /\ OutputRing' = Tail(OutputRing)
        BY <3>4 DEF ShowsMarker, ShowsBuffer
      <4> QED BY <2>0, <2>b, <4>1, OccurrencesTail, OccurrencesFinite
    <3>5. ASSUME NEW t \in Workers, NEW c \in Buffers, Passes(t, c) PROVE Passes(t, b)
      BY <3>1, <3>5 DEF Passes, IInv, TypeInv, BufferTypes
    <3>6. ~UNCHANGED OutputRing  BY <2>0, <2>b, OccurrencesFinite
    <3>7. ChangesRing  BY <2>0, <3>6, Changes
    <3> QED BY <3>2, <3>3, <3>4, <3>5, <3>7 DEF ChangesRing
  <2>2. AllCompleted /\ pc[t] = "insert"
    BY <1>1, <2>1 DEF Passes, IInv, MarkersInv
  <2>3. commands = <<>> /\ ~CallbackBusy
    <3>1. /\ MMECommandCompletedCount + Len(commands) + Busy <= MMECommandPreparedCount
          /\ MMECommandCompletedCount \in Nat /\ MMECommandPreparedCount \in Nat
          /\ MMECommandCompletedCount >= MMECommandPreparedCount
          /\ Len(commands) \in Nat /\ Busy \in {0, 1}
      BY <1>1, <2>0, <2>2 DEF AllCompleted, IInv, CountsInv, TypeInv, NumberTypes, Busy
    <3>2. Len(commands) = 0 /\ Busy = 0  BY <3>1
    <3> QED BY <2>0, <3>2 DEF Busy
  <2>4. context[MME] = NULL
    <3>1. ~HasContext(MME)
      BY <1>1, <2>3 DEF CallbackBusy, HasContext, IInv, LocalsInv, PlacesInv, Partial
    <3> QED BY <1>1, <3>1 DEF IInv, LocalsInv, Workers
  <2> QED BY <2>3, <2>4 DEF Pending
<1> QED BY <1>1, InvariantHolds, PTL DEF Spec, MarkerLast

\* SealedMeansLast: once SetOutputOnDecodesComplete has been called for a buffer, no

\* further decode goes into it while it is mapped.
THEOREM SealedIsLast == ASSUME QuietDrain PROVE Spec => SealedMeansLast
<1>1. ASSUME IInv, [Next]_vars
      PROVE  [\A b \in Buffers :
                LET before == BufferState[b]
                    after  == BufferState'[b]
                IN before.OutputOnDecodesComplete /\ before.mapped /\ after.mapped =>
                     /\ after.OutputOnDecodesComplete
                     /\ after.DecodesInProgress <= before.DecodesInProgress]_vars
  <2>0. Steps /\ BufferState \in [Buffers -> BufferStates]
    BY <1>1, StepsCover DEF IInv, TypeInv, BufferTypes
  <2> SUFFICES ASSUME NEW b \in Buffers, BufferState[b].OutputOnDecodesComplete,
                      BufferState[b].mapped, BufferState'[b].mapped
               PROVE  /\ BufferState'[b].OutputOnDecodesComplete
                      /\ BufferState'[b].DecodesInProgress <= BufferState[b].DecodesInProgress
    OBVIOUS
  <2> DEFINE Kept == /\ BufferState'[b].OutputOnDecodesComplete
                     /\ BufferState'[b].DecodesInProgress <= BufferState[b].DecodesInProgress
  <2>n. BufferState[b].DecodesInProgress \in Int  BY <2>0 DEF BufferStates
  <2>s. ASSUME BufferState'[b] = BufferState[b] PROVE Kept  BY <2>n, <2>s
  <2>1. ASSUME NEW t \in Threads, NEW c \in Buffers, Drops(t, c) PROVE Kept
    BY <2>0, <2>s, <2>1 DEF Drops, Unused
  <2>2. ASSUME NEW t \in Threads, NEW c \in Buffers, Seals(t, c) PROVE Kept
    BY <2>0, <2>n, <2>2 DEF Seals, BufferStates
  <2>3. ASSUME NEW t \in Workers, NEW c \in Buffers, Releases(t, c) PROVE Kept
    BY <2>0, <2>n, <2>3 DEF Releases, ReleasesDecode, BufferStates
  <2>4. ASSUME Mapped PROVE Kept
    <3>1. Current # b  BY <1>1, <2>4 DEF Mapped, IInv, OpenInv
    <3> QED BY <2>0, <2>s, <2>4, <3>1 DEF Mapped
  <2>5. ASSUME NEW c \in Buffers, NEW isReference \in {0, 1}, NEW list \in Seq(Buffers),
               Bound(c, isReference, list)
        PROVE  Kept
    BY <2>0, <2>n, <2>5 DEF Bound, BufferStates
  <2>6. ASSUME NEW c \in Buffers, NEW seen \in SUBSET Frame, Launched(c, seen) PROVE Kept
    <3>1. c # b  BY <1>1, <2>6, BoundIsOpen DEF Launched, Open
    <3> QED BY <2>0, <2>s, <2>6, <3>1 DEF Launched
  <2>7. ASSUME NEW c \in Buffers, ReleaseReferenceFrame(c) \/ ReleaseAll(c) PROVE Kept
    BY <2>0, <2>n, <2>7 DEF ReleaseReferenceFrame, ReleaseAll, BufferStates
  <2>8. ASSUME HaltAndReset PROVE Kept  BY <2>8 DEF HaltAndReset, Unused
  <2>9. ASSUME UNCHANGED BufferState PROVE Kept  BY <2>s, <2>9
  <2> HIDE DEF Kept
  <2>10. Kept
    BY <2>0, <2>1, <2>2, <2>3, <2>4, <2>5, <2>6, <2>7, <2>8, <2>9, Changes DEF ChangesStates
  <2> QED BY <2>10 DEF Kept
<1> QED BY <1>1, InvariantHolds, PTL DEF Spec, SealedMeansLast
=============================================================================
