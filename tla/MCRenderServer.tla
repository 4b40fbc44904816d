-------------------------- MODULE MCRenderServer --------------------------
(* Model checking of RenderServer on small sets of connections.            *)
EXTENDS RenderServer, TLC

CONSTANTS c1, c2, c3, a1, a2

MCConns == {c1, c2}
MCConns3 == {c1, c2, c3}
MCAddrs == {a1, a2}
MCMaxInits == 2

Symmetry == Permutations(MCConns3) \cup Permutations(MCAddrs)
=============================================================================
