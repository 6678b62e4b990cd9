------------------------------- MODULE Channel -------------------------------
(* What a device queue promises its two ends: a bounded, lossless, ordered  *)
(* channel.  in is everything put into it, out everything taken out.        *)
EXTENDS Naturals, Sequences, SequencesExt
CONSTANT Capacity
VARIABLES in, out

ChInit == in = <<>> /\ out = <<>>

\* Either end may move any number of bytes, but bytes neither vanish nor change
\* nor overtake each other, and at most Capacity of them are on the way.
ChNext ==
  /\ IsPrefix(in, in') /\ IsPrefix(out, out') /\ IsPrefix(out', in')
  /\ Len(in') - Len(out') <= Capacity

ChSpec == ChInit /\ [][ChNext]_<<in, out>>
=============================================================================
