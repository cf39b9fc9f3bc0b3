----------------------------- MODULE MCCodecMme -----------------------------
(***************************************************************************)
(* CodecMme with decode buffers that are all alike.  The runs check safety *)
(* only, for which the symmetry is sound.                                  *)
(***************************************************************************)
EXTENDS CodecMme, TLC

Alike == Permutations(Buffers)
=============================================================================
