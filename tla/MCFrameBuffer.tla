--------------------------- MODULE MCFrameBuffer ---------------------------
(* Model checking of FrameBuffer with two render threads.                  *)
EXTENDS FrameBuffer, TLC

CONSTANTS t1, t2, x1, x2, w1, b1, b2

MCThreads == {t1, t2}
MCContexts == {x1, x2}
MCWindows == {w1}
MCBuffers == {b1, b2}
MCSizes == {<<1, 1>>, <<2, 1>>, <<0, 1>>, <<0, 0>>}

Symmetry == Permutations(MCThreads) \cup Permutations(MCContexts)
              \cup Permutations(MCBuffers)
=============================================================================
