-------------------------- MODULE MCHandleTables --------------------------
(* Model checking of HandleTables: two usable handles and up to four        *)
(* objects, so that s_nextHandle wraps while objects are alive.             *)
EXTENDS HandleTables

MCHandleMod == 3
MCMaxSerial == 4
MCMaxRefs == 3
=============================================================================
