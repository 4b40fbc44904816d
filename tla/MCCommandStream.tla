-------------------------- MODULE MCCommandStream --------------------------
(* Model checking of CommandStream: a header of two bytes, a buffer of      *)
(* three, packets that do not fit before it has grown, and unknown opcodes  *)
(* behind which the buffer grows until realloc fails.                       *)
EXTENDS CommandStream

MCHeaderLen == 2
MCLengths == {2, 5}
MCBufSize == 3
MCAllocLimit == 12
MCSizeMod == 32
MCIntMax == 15
MCMaxCommands == 3
=============================================================================
