------------------------------ MODULE CodecMme ------------------------------
(***************************************************************************)
(* Codec_MmeBase_c and Codec_MmeVideo_c: the decode buffers of a stream,   *)
(* from the frame that asks for one to the release of its last reference.  *)
(* Four threads use the codec: the process that parses and decodes (frames,*)
(* markers, releases of reference frames), the callback of the MME         *)
(* transformer, the process behind the manifestor, which gives buffers     *)
(* back, and the user's thread that drains the stream.                     *)
(*                                                                         *)
(* The sections under the codec's Lock that call nothing are one action    *)
(* each.  The transformer completes its commands in the order they were    *)
(* sent.  OutputRing stands for all between the codec and the release of a *)
(* frame, which are in order.  One reference list and one slice per        *)
(* picture; the field that comes first is the top one.                     *)
(***************************************************************************)
EXTENDS Integers, Sequences, FiniteSets, SequencesExt

CONSTANTS
  Buffers, NULL,
  DecodeContextCount,
  MaxReferences,    \* entries in the reference list of a picture
  MaxInputs,        \* bounds: pictures and stream parameters,
  MaxFailures,      \* requests and commands that fail,
  MaxDrains,        \* drains, each of which may be the one of a SwitchStream
  QuietDrain        \* the user drains between two frames, waits for the end of it, and
                    \* finds no callback still at the marker of the drain before

\* A decode context, and the command sent with it; the command that sets the
\* parameters of the stream has no buffer.
DecodeContext == [number : Nat, BufferIndex : Buffers \cup {NULL}, DecodeInProgress : BOOLEAN,
                  References : Seq(Buffers)]

ASSUME CodecAssumption ==
  /\ NULL \notin Buffers \cup DecodeContext /\ QuietDrain \in BOOLEAN
  /\ {DecodeContextCount, MaxReferences, MaxInputs, MaxFailures, MaxDrains} \subseteq Nat

ParseToDecode == "ParseToDecode"
MME           == "MME"
PostManifest  == "PostManifest"
Drain         == "Drain"
Threads       == {ParseToDecode, MME, PostManifest, Drain}

VARIABLES
  BufferState,              \* of a decode buffer, what the codec knows of it
  OwnerCount,               \*   ... and its reference count; 0 for a free one
  MarkerFrames,             \* the decode buffers obtained for markers
  CurrentDecodeBufferIndex,
  OutputRing,
  commands,                 \* what the transformer has to do
  MMECommandPreparedCount, MMECommandCompletedCount, DiscardDecodesUntil,
  MarkerBuffer, PassOnMarkerBufferAt,
  sentBefore,               \* history: the commands prepared when the last marker came in
  frame,                    \* the picture in Input
  context,                  \* the decode context that a thread fills out or releases
  pc, arg, found, ret,      \* of a thread: where it is, the buffer it is at, whether it
                            \* is mapped, and where the thread goes when it is released
  drain, switching,         \* how far the drain under way has come, and whether the
                            \* stream is then switched to another codec
  inputs, failures, drains

buffer == <<BufferState, OwnerCount, MarkerFrames>>
counts == <<MMECommandPreparedCount, MMECommandCompletedCount>>
marker == <<MarkerBuffer, PassOnMarkerBufferAt, sentBefore>>
thread == <<pc, arg, found, ret>>
bounds == <<inputs, failures, drains>>
user   == <<drain, switching>>
vars   == <<buffer, CurrentDecodeBufferIndex, OutputRing, commands, counts, DiscardDecodesUntil,
            marker, frame, context, thread, user, bounds>>

Frame    == {"top", "bottom"}       \* StructureFrame
Pictures == {[first |-> TRUE, structure |-> Frame],
             [first |-> TRUE, structure |-> {"top"}],
             [first |-> FALSE, structure |-> {"bottom"}]}

Unused   == [mapped |-> FALSE, OutputOnDecodesComplete |-> FALSE, DecodesInProgress |-> 0,
             ReferenceFrameCount |-> 0, PictureStructure |-> {}]
NoPicture == [first |-> FALSE, structure |-> {}]
NewContext == [number |-> 0, BufferIndex |-> NULL, DecodeInProgress |-> FALSE,
               References |-> <<>>]

Init ==
  /\ BufferState = [b \in Buffers |-> Unused] /\ OwnerCount = [b \in Buffers |-> 0]
  /\ MarkerFrames = {} /\ CurrentDecodeBufferIndex = NULL
  /\ OutputRing = <<>> /\ commands = <<>>
  /\ MMECommandPreparedCount = 0 /\ MMECommandCompletedCount = 0 /\ DiscardDecodesUntil = 0
  /\ MarkerBuffer = NULL /\ PassOnMarkerBufferAt = 0 /\ sentBefore = 0
  /\ frame = NoPicture
  /\ context = [t \in {ParseToDecode, MME} |-> NULL]
  /\ pc = [t \in Threads |-> "idle"] /\ arg = [t \in Threads |-> NULL]
  /\ found = [t \in Threads |-> FALSE] /\ ret = [t \in Threads |-> "idle"]
  /\ drain = "none" /\ switching = FALSE
  /\ inputs = 0 /\ failures = 0 /\ drains = 0

Goto(t, place) == pc' = [pc EXCEPT ![t] = place]

(***************************************************************************)
(* DecrementReferenceCount(b), after which the thread goes to then.  The   *)
(* Buffer of the entry is read before the Lock is taken.                   *)
(***************************************************************************)
DropThen(t, b, then) ==
  /\ Goto(t, "drop") /\ arg' = [arg EXCEPT ![t] = b] /\ ret' = [ret EXCEPT ![t] = then]
  /\ found' = [found EXCEPT ![t] = BufferState[b].mapped]

\* Mutant of InReleaseDecodeBuffer: an unmapped buffer is not released.
NeverReleased(t) == FALSE

\* "If the mapping was no longer extant, then we just release the buffer."
InReleaseDecodeBuffer(t) == t = PostManifest \/ ret[t] = "discarded"

DropReference(t) ==
  /\ pc[t] = "drop"
  /\ LET b == arg[t] IN
     /\ BufferState' = [BufferState EXCEPT ![b] =
          IF found[t] /\ OwnerCount[b] = 1 THEN Unused ELSE @]
     /\ OwnerCount' = [OwnerCount EXCEPT ![b] =
          IF found[t] \/ InReleaseDecodeBuffer(t) THEN @ - 1 ELSE @]
  /\ Goto(t, ret[t])
  /\ arg' = [arg EXCEPT ![t] = NULL] /\ ret' = [ret EXCEPT ![t] = "idle"]
  /\ found' = [found EXCEPT ![t] = FALSE]
  /\ UNCHANGED <<MarkerFrames, CurrentDecodeBufferIndex, OutputRing, commands, counts,
                 DiscardDecodesUntil, marker, frame, context, bounds, user>>

(***************************************************************************)
(* OutputPartialDecodeBuffers, called by the drain on the user's thread,   *)
(* and by Input for a picture that starts on a half decoded buffer.        *)
(***************************************************************************)
\* The thread goes where ret says; a picture that the codec refused is done with.
AfterPartial(t) ==
  /\ Goto(t, ret[t]) /\ ret' = [ret EXCEPT ![t] = "idle"]
  /\ frame' = IF t = ParseToDecode /\ ret[t] = "idle" THEN NoPicture ELSE frame

PartialTest(t) ==
  /\ pc[t] = "partial"
  /\ arg' = [arg EXCEPT ![t] = CurrentDecodeBufferIndex]
  /\ IF CurrentDecodeBufferIndex # NULL
     THEN Goto(t, "seal") /\ UNCHANGED <<frame, ret>>
     ELSE AfterPartial(t)
  /\ UNCHANGED <<buffer, CurrentDecodeBufferIndex, OutputRing, commands, counts,
                 DiscardDecodesUntil, marker, context, found, bounds, user>>

\* Mutant of SetOutputOnDecodesComplete: whatever is under way into the buffer, it is put out.
SetOutputAtOnce(t) ==
  /\ pc[t] = "seal"
  /\ BufferState' = [BufferState EXCEPT ![arg[t]].OutputOnDecodesComplete = TRUE]
  /\ OutputRing' = Append(OutputRing, arg[t])
  /\ Goto(t, "sealed") /\ arg' = [arg EXCEPT ![t] = NULL]
  /\ UNCHANGED <<OwnerCount, MarkerFrames, CurrentDecodeBufferIndex, commands, counts,
                 DiscardDecodesUntil, marker, frame, context, found, ret, bounds, user>>

SetOutputOnDecodesComplete(t) ==
  /\ pc[t] = "seal"
  /\ BufferState' = [BufferState EXCEPT ![arg[t]].OutputOnDecodesComplete = TRUE]
  /\ OutputRing' = IF BufferState[arg[t]].DecodesInProgress = 0
                   THEN Append(OutputRing, arg[t]) ELSE OutputRing
  /\ Goto(t, "sealed") /\ arg' = [arg EXCEPT ![t] = NULL]
  /\ UNCHANGED <<OwnerCount, MarkerFrames, CurrentDecodeBufferIndex, commands, counts,
                 DiscardDecodesUntil, marker, frame, context, found, ret, bounds, user>>

PartialEnd(t) ==
  /\ pc[t] = "sealed"
  /\ CurrentDecodeBufferIndex' = NULL
  /\ AfterPartial(t)
  /\ UNCHANGED <<buffer, OutputRing, commands, counts, DiscardDecodesUntil, marker, context,
                 arg, found, bounds, user>>

(***************************************************************************)
(* Input, for a picture.                                                   *)
(***************************************************************************)
Contexts == Cardinality({t \in {ParseToDecode, MME} : context[t] # NULL})
            + Len(SelectSeq(commands, LAMBDA c : c.BufferIndex # NULL))

\* The stream's process takes the next picture from its ring.
MayInput ==
  /\ pc[ParseToDecode] = "idle" /\ frame = NoPicture
  /\ inputs < MaxInputs
  /\ QuietDrain => drain = "none"
  /\ switching => drain = "asked"

\* Mutant of SendMMEStreamParameters: the command does not count.
SendParametersUncounted ==
  /\ MayInput /\ inputs' = inputs + 1
  /\ commands' = Append(commands, [NewContext EXCEPT !.number = MMECommandPreparedCount])
  /\ UNCHANGED <<buffer, CurrentDecodeBufferIndex, OutputRing, counts,
                 DiscardDecodesUntil, marker, frame, context, thread, failures, drains, user>>

\* SendMMEStreamParameters, when the picture has new ones: a command that counts.
SendMMEStreamParameters ==
  /\ MayInput /\ inputs' = inputs + 1
  /\ MMECommandPreparedCount' = MMECommandPreparedCount + 1
  /\ commands' = Append(commands, [NewContext EXCEPT !.number = MMECommandPreparedCount'])
  /\ UNCHANGED <<buffer, CurrentDecodeBufferIndex, OutputRing, MMECommandCompletedCount,
                 DiscardDecodesUntil, marker, frame, context, thread, failures, drains, user>>

Input(picture) ==
  /\ MayInput /\ inputs' = inputs + 1
  /\ Contexts < DecodeContextCount
  /\ frame' = picture
  /\ context' = [context EXCEPT ![ParseToDecode] = NewContext]
  /\ \/ /\ CurrentDecodeBufferIndex = NULL
        /\ Goto(ParseToDecode, "get") /\ UNCHANGED ret
     \/ /\ CurrentDecodeBufferIndex # NULL /\ ~picture.first
        /\ Goto(ParseToDecode, "bind") /\ UNCHANGED ret
     \/ /\ CurrentDecodeBufferIndex # NULL /\ picture.first
        /\ Goto(ParseToDecode, "partial") /\ ret' = [ret EXCEPT ![ParseToDecode] = "get"]
  /\ UNCHANGED <<buffer, CurrentDecodeBufferIndex, OutputRing, commands, counts,
                 DiscardDecodesUntil, marker, arg, found, failures, drains, user>>

\* A picture that the process drops before the codec: only what it completes is put out.
DropPicture ==
  /\ MayInput /\ CurrentDecodeBufferIndex # NULL
  /\ Goto(ParseToDecode, "partial")
  /\ UNCHANGED <<buffer, CurrentDecodeBufferIndex, OutputRing, commands, counts,
                 DiscardDecodesUntil, marker, frame, context, arg, found, ret, bounds, user>>

\* A request or a command fails: the context is released and Input returns an error.
Fails ==
  /\ failures < MaxFailures /\ failures' = failures + 1
  /\ Goto(ParseToDecode, "release")
  /\ UNCHANGED <<inputs, drains, arg, found, ret>>

\* The index is INVALID_INDEX where Input uses it: the end of what is modelled.
Wild == Goto(ParseToDecode, "wild") /\ UNCHANGED <<arg, found, ret, bounds>>

GetDecodeBuffer(b) ==
  /\ pc[ParseToDecode] = "get" /\ OwnerCount[b] = 0
  /\ OwnerCount' = [OwnerCount EXCEPT ![b] = 1]
  /\ CurrentDecodeBufferIndex' = b
  /\ Goto(ParseToDecode, "map")
  /\ UNCHANGED <<BufferState, MarkerFrames, OutputRing, commands, counts, DiscardDecodesUntil,
                 marker, frame, context, arg, found, ret, bounds, user>>

GetDecodeBufferFails ==
  /\ pc[ParseToDecode] = "get" /\ Fails
  /\ UNCHANGED <<buffer, CurrentDecodeBufferIndex, OutputRing, commands, counts,
                 DiscardDecodesUntil, marker, frame, context, user>>

MapDecodeBuffer ==
  /\ pc[ParseToDecode] = "map"
  /\ IF CurrentDecodeBufferIndex = NULL
     THEN Wild /\ UNCHANGED BufferState
     ELSE /\ BufferState' = [BufferState EXCEPT
               ![CurrentDecodeBufferIndex] = [Unused EXCEPT !.mapped = TRUE]]
          /\ Goto(ParseToDecode, "bind")
          /\ UNCHANGED <<arg, found, ret, bounds>>
  /\ UNCHANGED <<OwnerCount, MarkerFrames, CurrentDecodeBufferIndex, OutputRing, commands,
                 counts, DiscardDecodesUntil, marker, frame, context, user>>

Occurrences(b, s) == Cardinality({k \in DOMAIN s : s[k] = b})

\* What a picture may name: the reference frames the codec has, and, for one it
\* has never seen, the buffer of the picture itself.
ReferenceLists ==
  LET known == {b \in Buffers : BufferState[b].ReferenceFrameCount > 0}
  IN BoundedSeq(known \cup {CurrentDecodeBufferIndex}, MaxReferences)

\* TranslateReferenceFrameLists, then FillOutDecodeCommand, which may fail.
TranslateReferenceFrameLists ==
  /\ pc[ParseToDecode] = "bind"
  /\ LET b == CurrentDecodeBufferIndex IN
     IF b = NULL
     THEN Wild /\ UNCHANGED <<BufferState, OwnerCount, context>>
     ELSE \E isReference \in {0, 1}, list \in ReferenceLists :
       /\ BufferState' = [BufferState EXCEPT ![b].ReferenceFrameCount = @ + isReference]
       /\ OwnerCount' = [c \in Buffers |->
            OwnerCount[c] + Occurrences(c, list) + (IF c = b THEN isReference ELSE 0)]
       /\ context' = [context EXCEPT ![ParseToDecode].BufferIndex = b,
                                     ![ParseToDecode].References = list]
       /\ \/ Goto(ParseToDecode, "launch") /\ UNCHANGED <<arg, found, ret, bounds>>
          \/ Fails
  /\ UNCHANGED <<MarkerFrames, CurrentDecodeBufferIndex, OutputRing, commands, counts,
                 DiscardDecodesUntil, marker, frame, user>>

\* "Update ongoing decode count, and completion flags", under the Lock.
Launch ==
  /\ pc[ParseToDecode] = "launch"
  /\ LET b == CurrentDecodeBufferIndex
         seen == BufferState[b].PictureStructure \cup frame.structure
     IN IF b = NULL
        THEN Wild /\ UNCHANGED <<BufferState, context, frame>>
        ELSE /\ BufferState' = [BufferState EXCEPT
                  ![b].PictureStructure = seen, ![b].DecodesInProgress = @ + 1,
                  ![b].OutputOnDecodesComplete = seen = Frame]
             /\ context' = [context EXCEPT ![ParseToDecode].DecodeInProgress = TRUE]
             /\ frame' = [frame EXCEPT !.structure = seen]
             /\ Goto(ParseToDecode, "send") /\ UNCHANGED <<arg, found, ret, bounds>>
  /\ UNCHANGED <<OwnerCount, MarkerFrames, CurrentDecodeBufferIndex, OutputRing, commands,
                 counts, DiscardDecodesUntil, marker, user>>

\* SendMMEDecodeCommand.  The command is prepared, and counted, before it can fail.
SendMMEDecodeCommand ==
  /\ pc[ParseToDecode] = "send"
  /\ MMECommandPreparedCount' = MMECommandPreparedCount + 1
  /\ \/ /\ commands' = Append(commands,
             [context[ParseToDecode] EXCEPT !.number = MMECommandPreparedCount'])
        /\ context' = [context EXCEPT ![ParseToDecode] = NULL]
        /\ Goto(ParseToDecode, "sent") /\ UNCHANGED <<arg, found, ret, bounds>>
     \/ Fails /\ UNCHANGED <<commands, context>>
  /\ UNCHANGED <<buffer, CurrentDecodeBufferIndex, OutputRing, MMECommandCompletedCount,
                 DiscardDecodesUntil, marker, frame, user>>

\* Mutant of InputEnd: the index of a complete buffer is kept.
InputKeepsIndex ==
  /\ pc[ParseToDecode] = "sent"
  /\ Goto(ParseToDecode, "idle") /\ frame' = NoPicture
  /\ UNCHANGED <<buffer, CurrentDecodeBufferIndex, OutputRing, commands, counts, DiscardDecodesUntil, marker, context,
                 arg, found, ret, bounds, user>>

InputEnd ==
  /\ pc[ParseToDecode] = "sent"
  /\ CurrentDecodeBufferIndex' =
       IF frame.structure = Frame THEN NULL ELSE CurrentDecodeBufferIndex
  /\ Goto(ParseToDecode, "idle") /\ frame' = NoPicture
  /\ UNCHANGED <<buffer, OutputRing, commands, counts, DiscardDecodesUntil, marker, context,
                 arg, found, ret, bounds, user>>

(***************************************************************************)
(* ReleaseDecodeContext, by the callback and by an Input that failed.      *)
(***************************************************************************)
\* "it is possible this can result in invalidation of the current decode index"
Invalidate(b) ==
  CurrentDecodeBufferIndex' =
    IF b = CurrentDecodeBufferIndex THEN NULL ELSE CurrentDecodeBufferIndex

ReleaseDecodeContext(t) ==
  /\ pc[t] = "release"
  /\ LET b == context[t].BufferIndex
         left == BufferState[b].DecodesInProgress - 1
         complete == BufferState[b].OutputOnDecodesComplete /\ left = 0
     IN IF ~context[t].DecodeInProgress
        THEN /\ Goto(t, "unreference")
             /\ UNCHANGED <<BufferState, context, CurrentDecodeBufferIndex, OutputRing,
                            arg, found, ret>>
        ELSE /\ context' = [context EXCEPT ![t].DecodeInProgress = FALSE]
             /\ BufferState' = [BufferState EXCEPT ![b].DecodesInProgress = left]
             /\ IF complete /\ MMECommandCompletedCount < DiscardDecodesUntil
                THEN /\ DropThen(t, b, "discarded")
                     /\ UNCHANGED <<CurrentDecodeBufferIndex, OutputRing>>
                ELSE /\ OutputRing' = IF complete THEN Append(OutputRing, b) ELSE OutputRing
                     /\ IF BufferState[b].OutputOnDecodesComplete
                        THEN Invalidate(b) ELSE UNCHANGED CurrentDecodeBufferIndex
                     /\ Goto(t, "unreference") /\ UNCHANGED <<arg, found, ret>>
  /\ UNCHANGED <<OwnerCount, MarkerFrames, commands, counts, DiscardDecodesUntil, marker,
                 frame, bounds, user>>

\* A buffer to discard is released without the Lock, which is then taken again.
ReleaseRelock(t) ==
  /\ pc[t] = "discarded"
  /\ Invalidate(context[t].BufferIndex)
  /\ Goto(t, "unreference")
  /\ UNCHANGED <<buffer, OutputRing, commands, counts, DiscardDecodesUntil, marker, frame,
                 context, arg, found, ret, bounds, user>>

ReleaseReference(t) ==
  /\ pc[t] = "unreference" /\ context[t].References # <<>>
  /\ DropThen(t, Head(context[t].References), "unreference")
  /\ context' = [context EXCEPT ![t].References = Tail(@)]
  /\ UNCHANGED <<buffer, CurrentDecodeBufferIndex, OutputRing, commands, counts,
                 DiscardDecodesUntil, marker, frame, bounds, user>>

\* The context goes back to its pool.  The process puts out what a first picture
\* would have completed when Input returns an error.
ReleaseEnd(t) ==
  /\ pc[t] = "unreference" /\ context[t].References = <<>>
  /\ IF t = MME
     THEN Goto(t, "completed") /\ UNCHANGED frame
     ELSE IF frame.first
          THEN Goto(t, "partial") /\ UNCHANGED frame
          ELSE Goto(t, "idle") /\ frame' = NoPicture
  /\ context' = [context EXCEPT ![t] = NULL]
  /\ UNCHANGED <<buffer, CurrentDecodeBufferIndex, OutputRing, commands, counts,
                 DiscardDecodesUntil, marker, arg, found, ret, bounds, user>>

(***************************************************************************)
(* CallbackFromMME, and the marker, which it passes on after the commands  *)
(* that were prepared before it.                                           *)
(***************************************************************************)
CallbackFromMME ==
  /\ pc[MME] = "idle" /\ commands # <<>>
  /\ commands' = Tail(commands)
  /\ IF Head(commands).BufferIndex # NULL
     THEN context' = [context EXCEPT ![MME] = Head(commands)] /\ Goto(MME, "release")
     ELSE UNCHANGED context /\ Goto(MME, "completed")
  /\ UNCHANGED <<buffer, CurrentDecodeBufferIndex, OutputRing, counts, DiscardDecodesUntil,
                 marker, frame, arg, found, ret, bounds, user>>

\* Mutant of Completed: a marker that waits for it is not looked for.
CompletedUntested ==
  /\ pc[MME] = "completed"
  /\ MMECommandCompletedCount' = MMECommandCompletedCount + 1
  /\ Goto(MME, "idle")
  /\ UNCHANGED <<buffer, CurrentDecodeBufferIndex, OutputRing, commands,
                 MMECommandPreparedCount, DiscardDecodesUntil, marker, frame, context, arg,
                 found, ret, bounds, user>>

Completed ==
  /\ pc[MME] = "completed"
  /\ MMECommandCompletedCount' = MMECommandCompletedCount + 1
  /\ Goto(MME, "test")
  /\ UNCHANGED <<buffer, CurrentDecodeBufferIndex, OutputRing, commands,
                 MMECommandPreparedCount, DiscardDecodesUntil, marker, frame, context, arg,
                 found, ret, bounds, user>>

\* A marker held already is given up.
InputMarkerTake ==
  /\ pc[ParseToDecode] = "idle" /\ frame = NoPicture /\ drain = "asked" /\ pc[Drain] = "idle"
  /\ IF MarkerBuffer = NULL
     THEN UNCHANGED <<OwnerCount, MarkerFrames>>
     ELSE /\ OwnerCount' = [OwnerCount EXCEPT ![MarkerBuffer] = @ - 1]
          /\ MarkerFrames' = MarkerFrames \ {MarkerBuffer}
  /\ MarkerBuffer' = NULL /\ sentBefore' = MMECommandPreparedCount
  /\ drain' = "given" /\ UNCHANGED switching
  /\ Goto(ParseToDecode, "marker")
  /\ UNCHANGED <<BufferState, CurrentDecodeBufferIndex, OutputRing, commands, counts,
                 DiscardDecodesUntil, PassOnMarkerBufferAt, frame, context, arg, found, ret,
                 bounds>>

\* Mutant of InputMarkerGet: it is to be passed on after the commands completed by now.
InputMarkerTooEarly(b) ==
  /\ pc[ParseToDecode] = "marker" /\ OwnerCount[b] = 0
  /\ OwnerCount' = [OwnerCount EXCEPT ![b] = 1]
  /\ MarkerFrames' = MarkerFrames \cup {b}
  /\ PassOnMarkerBufferAt' = MMECommandCompletedCount
  /\ Goto(ParseToDecode, "hold") /\ arg' = [arg EXCEPT ![ParseToDecode] = b]
  /\ UNCHANGED <<BufferState, CurrentDecodeBufferIndex, OutputRing, commands, counts,
                 DiscardDecodesUntil, MarkerBuffer, sentBefore, frame, context, found, ret, bounds,
                 user>>

InputMarkerGet(b) ==
  /\ pc[ParseToDecode] = "marker" /\ OwnerCount[b] = 0
  /\ OwnerCount' = [OwnerCount EXCEPT ![b] = 1]
  /\ MarkerFrames' = MarkerFrames \cup {b}
  /\ PassOnMarkerBufferAt' = MMECommandPreparedCount
  /\ Goto(ParseToDecode, "hold") /\ arg' = [arg EXCEPT ![ParseToDecode] = b]
  /\ UNCHANGED <<BufferState, CurrentDecodeBufferIndex, OutputRing, commands, counts,
                 DiscardDecodesUntil, MarkerBuffer, sentBefore, frame, context, found, ret, bounds,
                 user>>

InputMarkerHold ==
  /\ pc[ParseToDecode] = "hold"
  /\ MarkerBuffer' = arg[ParseToDecode] /\ arg' = [arg EXCEPT ![ParseToDecode] = NULL]
  /\ Goto(ParseToDecode, "test")
  /\ UNCHANGED <<buffer, CurrentDecodeBufferIndex, OutputRing, commands, counts,
                 DiscardDecodesUntil, PassOnMarkerBufferAt, sentBefore, frame, context, found,
                 ret, bounds, user>>

TestMarkerFramePassOn(t) ==
  /\ pc[t] = "test"
  /\ Goto(t, IF MarkerBuffer # NULL /\ MMECommandCompletedCount >= PassOnMarkerBufferAt
             THEN "take" ELSE "idle")
  /\ UNCHANGED <<buffer, CurrentDecodeBufferIndex, OutputRing, commands, counts,
                 DiscardDecodesUntil, marker, frame, context, arg, found, ret, bounds, user>>

TakeMarkerBuffer(t) ==
  /\ pc[t] = "take"
  /\ MarkerBuffer' = NULL /\ arg' = [arg EXCEPT ![t] = MarkerBuffer]
  /\ Goto(t, IF MarkerBuffer = NULL THEN "idle" ELSE "insert")
  /\ UNCHANGED <<buffer, CurrentDecodeBufferIndex, OutputRing, commands, counts,
                 DiscardDecodesUntil, PassOnMarkerBufferAt, sentBefore, frame, context, found,
                 ret, bounds, user>>

PassOnMarker(t) ==
  /\ pc[t] = "insert"
  /\ OutputRing' = Append(OutputRing, arg[t]) /\ arg' = [arg EXCEPT ![t] = NULL]
  /\ Goto(t, "idle")
  /\ UNCHANGED <<buffer, CurrentDecodeBufferIndex, commands, counts, DiscardDecodesUntil,
                 marker, frame, context, found, ret, bounds, user>>

(***************************************************************************)
(* What the frame parser and the player ask of the codec.                  *)
(***************************************************************************)
\* ReleaseReferenceFrame, for a picture the frame parser names.
ReleaseReferenceFrame(b) ==
  /\ MayInput /\ BufferState[b].ReferenceFrameCount > 0
  /\ BufferState' = [BufferState EXCEPT ![b].ReferenceFrameCount = @ - 1]
  /\ DropThen(ParseToDecode, b, "idle")
  /\ UNCHANGED <<OwnerCount, MarkerFrames, CurrentDecodeBufferIndex, OutputRing, commands,
                 counts, DiscardDecodesUntil, marker, frame, context, bounds, user>>

\* The process behind the manifestor: a marker ends its drain, a frame is given back.
Show ==
  /\ pc[PostManifest] = "idle" /\ OutputRing # <<>>
  /\ OutputRing' = Tail(OutputRing)
  /\ LET b == Head(OutputRing) IN
     IF b \in MarkerFrames
     THEN /\ OwnerCount' = [OwnerCount EXCEPT ![b] = @ - 1]
          /\ MarkerFrames' = MarkerFrames \ {b}
          /\ drain' = "none" /\ UNCHANGED <<thread, switching>>
     ELSE /\ DropThen(PostManifest, b, "idle")
          /\ UNCHANGED <<OwnerCount, MarkerFrames, user>>
  /\ UNCHANGED <<BufferState, CurrentDecodeBufferIndex, commands, counts,
                 DiscardDecodesUntil, marker, frame, context, bounds>>

\* InternalDrainStream, for which the marker is then on its way; when it discards,
\* DiscardQueuedDecodes and OutputPartialDecodeBuffers come first.
DrainStream(discard, switch) ==
  /\ pc[Drain] = "idle" /\ drain = "none" /\ ~switching /\ drains < MaxDrains
  /\ QuietDrain => pc[ParseToDecode] = "idle" /\ frame = NoPicture /\ pc[MME] # "take"
  /\ drains' = drains + 1 /\ drain' = "asked" /\ switching' = switch
  /\ IF discard
     THEN DiscardDecodesUntil' = MMECommandPreparedCount /\ Goto(Drain, "partial")
     ELSE UNCHANGED <<DiscardDecodesUntil, pc>>
  /\ UNCHANGED <<buffer, CurrentDecodeBufferIndex, OutputRing, commands, counts, marker,
                 frame, context, arg, found, ret, inputs, failures>>

(***************************************************************************)
(* SwitchCodec, which the process calls after the marker has gone in, once *)
(* the marker has come out of the codec or has failed to.                  *)
(***************************************************************************)
\* Nothing the transformer or its callback still has to do.
TransformerDone == commands = <<>> /\ pc[MME] = "idle"

SwitchCodec ==
  /\ pc[ParseToDecode] = "idle" /\ frame = NoPicture
  /\ switching /\ drain # "asked"
  /\ drain = "given" => TransformerDone \/ \E b \in MarkerFrames : Contains(OutputRing, b)
  /\ Goto(ParseToDecode, "partial") /\ ret' = [ret EXCEPT ![ParseToDecode] = "all"]
  /\ UNCHANGED <<buffer, CurrentDecodeBufferIndex, OutputRing, commands, counts,
                 DiscardDecodesUntil, marker, frame, context, arg, found, bounds, user>>

\* ReleaseReferenceFrame of CODEC_RELEASE_ALL.
ReleaseAll(b) ==
  /\ pc[ParseToDecode] = "all" /\ BufferState[b].ReferenceFrameCount > 0
  /\ BufferState' = [BufferState EXCEPT ![b].ReferenceFrameCount = @ - 1]
  /\ DropThen(ParseToDecode, b, "all")
  /\ UNCHANGED <<OwnerCount, MarkerFrames, CurrentDecodeBufferIndex, OutputRing, commands,
                 counts, DiscardDecodesUntil, marker, frame, context, bounds, user>>

\* Halt waits for the commands, or for as long as they may take; then Reset forgets
\* the buffers, a marker is lost, and the codec that takes over starts from nothing.
HaltAndReset ==
  /\ pc[ParseToDecode] = "all" /\ \A b \in Buffers : BufferState[b].ReferenceFrameCount = 0
  /\ MMECommandPreparedCount = MMECommandCompletedCount \/ TransformerDone
  /\ BufferState' = [b \in Buffers |-> Unused] /\ CurrentDecodeBufferIndex' = NULL
  /\ MMECommandPreparedCount' = 0 /\ MMECommandCompletedCount' = 0
  /\ DiscardDecodesUntil' = 0 /\ MarkerBuffer' = NULL /\ PassOnMarkerBufferAt' = 0
  /\ sentBefore' = 0
  /\ Goto(ParseToDecode, "idle") /\ switching' = FALSE
  /\ UNCHANGED <<OwnerCount, MarkerFrames, OutputRing, commands, frame, context, arg, found,
                 ret, bounds, drain>>

Next ==
  \/ \E t \in Threads :
       DropReference(t) \/ PartialTest(t) \/ SetOutputOnDecodesComplete(t) \/ PartialEnd(t)
  \/ \E t \in {ParseToDecode, MME} :
       \/ ReleaseDecodeContext(t) \/ ReleaseRelock(t) \/ ReleaseReference(t) \/ ReleaseEnd(t)
       \/ TestMarkerFramePassOn(t) \/ TakeMarkerBuffer(t) \/ PassOnMarker(t)
  \/ SendMMEStreamParameters \/ DropPicture \/ \E picture \in Pictures : Input(picture)
  \/ \E b \in Buffers : GetDecodeBuffer(b) \/ InputMarkerGet(b) \/ ReleaseReferenceFrame(b)
                         \/ ReleaseAll(b)
  \/ GetDecodeBufferFails \/ MapDecodeBuffer \/ TranslateReferenceFrameLists \/ Launch
  \/ SendMMEDecodeCommand \/ InputEnd
  \/ InputMarkerTake \/ InputMarkerHold
  \/ CallbackFromMME \/ Completed \/ Show
  \/ \E discard, switch \in BOOLEAN : DrainStream(discard, switch)
  \/ SwitchCodec \/ HaltAndReset

Spec == Init /\ [][Next]_vars

-----------------------------------------------------------------------------
TypeOK ==
  /\ BufferState \in [Buffers ->
       [mapped : BOOLEAN, OutputOnDecodesComplete : BOOLEAN, DecodesInProgress : Nat,
        ReferenceFrameCount : Nat, PictureStructure : SUBSET Frame]]
  /\ OwnerCount \in [Buffers -> Nat] /\ MarkerFrames \subseteq Buffers
  /\ OutputRing \in Seq(Buffers)
  /\ MMECommandCompletedCount \in 0 .. MMECommandPreparedCount
  /\ CurrentDecodeBufferIndex \in Buffers \cup {NULL}
  /\ MarkerBuffer \in MarkerFrames \cup {NULL}
  /\ pc[ParseToDecode] # "wild"

Live    == {t \in {ParseToDecode, MME} : context[t] # NULL}
Dropped(b) == {t \in Threads : pc[t] = "drop" /\ arg[t] = b}

\* The codec's own hold on a buffer: until the buffer is complete and passed on.
InCodec(b) ==
  \/ pc[ParseToDecode] = "map" /\ CurrentDecodeBufferIndex = b
  \/ /\ BufferState[b].mapped
     /\ BufferState[b].OutputOnDecodesComplete => BufferState[b].DecodesInProgress > 0

\* The references to it that the pictures under way hold: in the context of a
\* thread, and in the commands.
NamedIn(t, b) == IF context[t] = NULL THEN 0 ELSE Occurrences(b, context[t].References)
NamedInCommands(b) ==
  {p \in (DOMAIN commands) \X (1 .. MaxReferences) :
     LET list == commands[p[1]].References
     IN p[2] \in DOMAIN list /\ list[p[2]] = b}

\* Every reference is accounted for, and the hold that goes from the codec to the
\* ring to the process behind the manifestor is in one place: no buffer is given
\* back twice, to be decoded into while it is shown, and none is kept for ever.
ReferencesCounted ==
  \A b \in Buffers \ MarkerFrames :
    OwnerCount[b] =
      (IF InCodec(b) THEN 1 ELSE 0) + Occurrences(b, OutputRing) + Cardinality(Dropped(b))
      + BufferState[b].ReferenceFrameCount
      + NamedIn(ParseToDecode, b) + NamedIn(MME, b) + Cardinality(NamedInCommands(b))

\* A buffer in the output ring has no decode under way into it.
CompleteWhenOutput ==
  \A k \in DOMAIN OutputRing :
    LET b == OutputRing[k] IN
    /\ b \notin MarkerFrames => BufferState[b].DecodesInProgress = 0
    /\ ~ \E c \in DOMAIN commands : commands[c].BufferIndex = b
    /\ ~ \E t \in Live : context[t].DecodeInProgress /\ context[t].BufferIndex = b

\* The commands not completed: those the transformer has and the callback's.
Pending(n) ==
  \/ \E c \in DOMAIN commands : commands[c].number <= n
  \/ context[MME] # NULL /\ context[MME].number <= n

\* A marker is passed on after all that was sent before it: no frame that the drain
\* is to wait for comes out behind it.
MarkerLast ==
  [][\A b \in MarkerFrames :
       Occurrences(b, OutputRing') > Occurrences(b, OutputRing) =>
         ~Pending(sentBefore)]_vars

\* Nor is it forgotten: with nothing left to complete, nobody on the way to the
\* test, and every command sent, the codec holds no marker.
MarkerNotKept ==
  /\ MarkerBuffer # NULL
  /\ commands = <<>> /\ pc[MME] = "idle" /\ pc[ParseToDecode] = "idle"
  => MMECommandCompletedCount < MMECommandPreparedCount

\* codec_mme_base.cpp:962, "sets the flag indicating there will be no further decodes
\* into this buffer": while the buffer is mapped, the flag stays and nothing more is
\* decoded into it.
SealedMeansLast ==
  [][\A b \in Buffers :
       LET before == BufferState[b]
           after  == BufferState'[b]
       IN before.OutputOnDecodesComplete /\ before.mapped /\ after.mapped =>
            /\ after.OutputOnDecodesComplete
            /\ after.DecodesInProgress <= before.DecodesInProgress]_vars
=============================================================================
