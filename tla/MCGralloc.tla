----------------------------- MODULE MCGralloc -----------------------------
(* Model checking of Gralloc: an allocating process and a client process,   *)
(* with one thread each.                                                    *)
EXTENDS Gralloc, TLC

CONSTANTS a1, c1, server, client

MCThreads == {a1, c1}
MCProcs == {server, client}
MCProcOf == (a1 :> server) @@ (c1 :> client)
=============================================================================
