----------------------------- MODULE MCDisplay -----------------------------
(* Model checking of Display: three buffers, two angles, three frames.        *)
EXTENDS Display, TLC

CONSTANTS b1, b2, b3

MCBuffers == {b1, b2, b3}
MCRotations == {0, 90}
MCMaxFrame == 3

Symmetry == Permutations(MCBuffers)
=============================================================================
