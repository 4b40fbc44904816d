----------------------------- MODULE MCGuestEgl -----------------------------
(* Model checking of GuestEgl: two threads of a guest process.              *)
EXTENDS GuestEgl, TLC

CONSTANTS t1, t2, x1, w1, w2, b1, b2, p1, p2

MCThreads == {t1, t2}
MCContexts == {x1}
MCWindows == {w1, w2}
MCBuffers == {b1, b2}
MCAddrs == {p1, p2}
MCSizes == {<<1, 1>>}
NoRules == {}
AllButSurface == AllGuestRules \ {"surface"}

\* bound: once the first attachment of a surface has come too late, no context is
\* made current with different surfaces to draw on and to read from
OneSurfaceOnceAstray == astray = {} \/ \A t \in Threads : call[t].draw = call[t].read

Symmetry == Permutations(MCThreads) \cup Permutations(MCWindows) \cup Permutations(MCBuffers)
              \cup Permutations(MCAddrs)
=============================================================================
