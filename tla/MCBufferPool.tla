---------------------------- MODULE MCBufferPool ----------------------------
(***************************************************************************)
(* Small pools for BufferPool, after the ones of a video stream: a coded   *)
(* frame, taken by the collator, to which the frame parser attaches a      *)
(* stream parameters and a frame parameters buffer.                        *)
(***************************************************************************)
EXTENDS BufferPool, TLC

CONSTANTS coded, stream, frame, c, sp, fp, t1, t2

VideoOf   == (c :> coded) @@ (sp :> stream) @@ (fp :> frame)
VideoOnto == {<<c, sp>>, <<c, fp>>}
VideoGot  == {<<t1, coded>>, <<t2, stream>>, <<t2, frame>>}
=============================================================================
