--------------------------- MODULE CommandStream ---------------------------
(***************************************************************************)
(* One connection: the byte stream a client writes, the ReadBuffer of the  *)
(* render thread (ReadBuffer.cpp), its loop (RenderThread::Main) and the   *)
(* decode() that emugen generates for each of the three protocols          *)
(* (ApiGen.cpp).                                                           *)
(*                                                                         *)
(* A byte of the stream is identified by its position in it, so the buffer *)
(* holds positions and what the decoder sees at an address is the command, *)
(* if any, that starts there.  A command is its protocol and the position  *)
(* where it ends; its arguments are left out, and so are the replies.      *)
(***************************************************************************)
EXTENDS Integers, Sequences

CONSTANTS
    HeaderLen,   \* opcode and packet length: 8 bytes
    Lengths,     \* the packet lengths clients use
    BufSize,     \* STREAM_BUFFER_SIZE, the initial m_size
    AllocLimit,  \* the largest realloc that succeeds
    SizeMod,     \* size_t counts modulo this
    IntMax,      \* INT_MAX
    MaxCommands  \* bound on the commands a client sends

\* A client puts the packet's length, header included, into the header.  The
\* memory of the process is less than half of what a size_t can count.
ASSUME LengthsAssumption ==
    /\ HeaderLen \in Nat \ {0}
    /\ Lengths \subseteq Nat /\ \A n \in Lengths : n >= HeaderLen
ASSUME SizesAssumption ==
    /\ BufSize \in Nat \ {0} /\ AllocLimit \in Nat /\ BufSize <= AllocLimit
    /\ SizeMod \in Nat /\ 2 * AllocLimit < SizeMod /\ IntMax \in Nat
ASSUME MaxCommandsAssumption == MaxCommands \in Nat

\* the decoders in the order RenderThread::Main tries them; "other" stands for
\* an opcode none of them knows
Decoders == {"gl", "gl2", "rc"}
Protocols == Decoders \cup {"other"}

Commands == [dec : Protocols, end : Nat]
Garbage == -1

VARIABLES
    sent,      \* the commands the client has written
    limit,     \* bytes of them that reach the host
    closed,    \* the client has closed the connection
    got,       \* bytes the host has read
    buf,       \* m_buf: the stream position of the byte at each address
    size,      \* m_size
    off,       \* m_readPtr - m_buf
    valid,     \* m_validData
    pc,        \* "get", the decoder that runs, or "ended"
    pos,       \* pos in decode()
    progress,  \* progress in RenderThread::Main
    executed   \* the positions in sent of the commands executed

bufVars == <<buf, size, off, valid, got>>
clientVars == <<sent, limit, closed>>
vars == <<clientVars, bufVars, pc, pos, progress, executed>>

Start(j) == IF j = 1 THEN 0 ELSE sent[j - 1].end
Total == IF sent = <<>> THEN 0 ELSE sent[Len(sent)].end

Init ==
    /\ sent = <<>> /\ limit = 0 /\ closed = FALSE
    /\ got = 0 /\ buf = [i \in 0 .. BufSize - 1 |-> Garbage]
    /\ size = BufSize /\ off = 0 /\ valid = 0
    /\ pc = "get" /\ pos = 0 /\ progress = FALSE /\ executed = <<>>

-----------------------------------------------------------------------------
(* The client *)

Send(d, n) ==
    /\ ~closed /\ Len(sent) < MaxCommands
    /\ sent' = Append(sent, [dec |-> d, end |-> Total + n])
    /\ limit' = Total + n
    /\ UNCHANGED <<closed, bufVars, pc, pos, progress, executed>>

\* the connection ends; the bytes after position m never arrive
Close(m) ==
    /\ ~closed /\ m \in got .. limit
    /\ closed' = TRUE /\ limit' = m
    /\ UNCHANGED <<sent, bufVars, pc, pos, progress, executed>>

-----------------------------------------------------------------------------
(* ReadBuffer *)

\* mutant: no memmove
NotMoved == buf

\* m_buf after the memmove: only done when there is something to move
Moved == IF valid > 0 /\ off > 0
         THEN [i \in 0 .. size - 1 |-> IF i < valid THEN buf[off + i] ELSE buf[i]]
         ELSE buf

\* the size asked of realloc when the buffer is full
Doubled == LET d == (2 * size) % SizeMod IN IF d < size THEN IntMax ELSE d

\* the size with which getData() reads
NewSize == IF size = valid THEN Doubled ELSE size

\* mutant: a full buffer is an error
FullFails == size = valid

AllocFails == size = valid /\ Doubled > AllocLimit

\* realloc keeps the bytes; read() stores n new ones after the valid ones
Filled(n) == [i \in 0 .. NewSize - 1 |->
                 IF i \in valid .. valid + n - 1 THEN got + i - valid
                 ELSE IF i < size THEN Moved[i] ELSE Garbage]

\* mutant: m_size is not updated after realloc
GetDataKeepsSize(n) ==
    /\ pc = "get" /\ ~AllocFails
    /\ n <= limit - got /\ n <= NewSize - valid
    /\ buf' = Filled(n) /\ off' = 0
    /\ valid' = valid + n /\ got' = got + n
    /\ pc' = "gl" /\ progress' = FALSE
    /\ UNCHANGED <<clientVars, size, pos, executed>>

\* getData() returns n > 0: Main enters its decoding loop
GetData(n) ==
    /\ pc = "get" /\ ~AllocFails
    /\ n <= limit - got /\ n <= NewSize - valid
    /\ buf' = Filled(n)
    /\ size' = NewSize /\ off' = 0
    /\ valid' = valid + n /\ got' = got + n
    /\ pc' = "gl" /\ progress' = FALSE
    /\ UNCHANGED <<clientVars, pos, executed>>

\* getData() returns -1 or 0: realloc failed or the stream ended, and Main
\* leaves its loop; a member that is not assigned on one of the two paths is
\* not used again
GetDataFails ==
    /\ pc = "get"
    /\ AllocFails \/ (closed /\ got = limit)
    /\ pc' = "ended"
    /\ UNCHANGED <<clientVars, bufVars, pos, progress, executed>>

-----------------------------------------------------------------------------
(* decode(), called with len = m_validData, and the loop around it *)

\* the command whose header is at ptr, a set of at most one
AtPtr == {j \in 1 .. Len(sent) :
             /\ valid - pos >= HeaderLen
             /\ \A i \in 0 .. HeaderLen - 1 : buf[off + pos + i] = Start(j) + i}

Decodable(d) == {j \in AtPtr : /\ valid - pos >= sent[j].end - Start(j)
                               /\ sent[j].dec = d}

\* one iteration of decode()'s loop: the command is executed
DecodeCommand(d) ==
    /\ pc = d
    /\ \E j \in Decodable(d) :
          /\ executed' = Append(executed, j)
          /\ pos' = pos + (sent[j].end - Start(j))
    /\ UNCHANGED <<clientVars, bufVars, pc, progress>>

\* mutant: the decoders are tried once
AfterOnce(d, moved) == CASE d = "gl" -> "gl2" [] d = "gl2" -> "rc" [] d = "rc" -> "get"

\* what Main does after the decoder d returned
After(d, moved) == CASE d = "gl" -> "gl2"
                     [] d = "gl2" -> "rc"
                     [] d = "rc" -> IF moved THEN "gl" ELSE "get"

\* mutant: consume() does not advance m_readPtr
ReturnsUnconsumed(d) ==
    /\ pc = d /\ Decodable(d) = {}
    /\ valid' = valid - pos /\ pos' = 0
    /\ pc' = After(d, progress \/ pos > 0)
    /\ progress' = (d # "rc" /\ (progress \/ pos > 0))
    /\ UNCHANGED <<clientVars, buf, size, off, got, executed>>

\* no header, an incomplete packet or an unknown opcode: decode() returns pos,
\* which is consumed; after the last decoder the loop starts over if there was
\* progress, and getData() is called if not
DecodeReturns(d) ==
    /\ pc = d /\ Decodable(d) = {}
    /\ valid' = valid - pos /\ off' = off + pos /\ pos' = 0
    /\ pc' = After(d, progress \/ pos > 0)
    /\ progress' = (d # "rc" /\ (progress \/ pos > 0))
    /\ UNCHANGED <<clientVars, buf, size, got, executed>>

Thread == \/ \E n \in 1 .. AllocLimit : GetData(n)
          \/ GetDataFails
          \/ \E d \in Decoders : DecodeCommand(d) \/ DecodeReturns(d)

Next == \/ \E d \in Protocols, n \in Lengths : Send(d, n)
        \/ \E m \in 0 .. limit : Close(m)
        \/ Thread

\* The operating system schedules the render thread; a client need not act.
Spec == Init /\ [][Next]_vars /\ WF_vars(Thread)

-----------------------------------------------------------------------------
TypeOK ==
    /\ sent \in Seq(Commands) /\ executed \in Seq(Nat)
    /\ limit \in Nat /\ closed \in BOOLEAN /\ got \in Nat
    /\ size \in Nat /\ off \in Nat /\ valid \in Nat /\ pos \in Nat
    /\ buf \in [0 .. size - 1 -> Nat \cup {Garbage}]
    /\ pc \in Decoders \cup {"get", "ended"} /\ progress \in BOOLEAN

\* The bytes between m_readPtr and m_readPtr + m_validData are, through every
\* memmove, realloc and short read, inside m_buf and the next ones of the
\* stream: what the decoders see is what the client wrote, unbroken; and
\* "assert(amount <= m_validData)" (ReadBuffer.cpp:70) holds.
BufferIsStream ==
    /\ pos <= valid /\ off + valid <= size
    /\ \A i \in 0 .. valid - 1 : buf[off + i] = got - valid + i

\* Main goes back to the blocking read only when the three decoders have left
\* nothing they could execute, and ends the same way: a command that has
\* arrived never waits for bytes the client will only send after its reply.
NoCommandStuck ==
    pc \in {"get", "ended"} =>
        LET j == Len(executed) + 1 IN
        j <= Len(sent) /\ sent[j].dec # "other" => sent[j].end > got

\* The connection is a FIFO of commands: each executed at most once, in the
\* order sent, none skipped, however the three decoders hand over.
Fifo == INSTANCE CommandFifo
ImplementsFifo == Fifo!Spec

\* the first j commands arrive whole, have known opcodes and fit in memory
Executable(j) ==
    /\ j <= Len(sent) /\ sent[j].end <= limit
    /\ \A i \in 1 .. j : /\ sent[i].dec # "other"
                         /\ 2 * (sent[i].end - Start(i)) <= AllocLimit

\* A command that arrives whole, fits in the memory the process can get and
\* has no unknown opcode before it is executed, also when the client closes
\* the connection right after sending it.
CommandsAreExecuted ==
    \A j \in 1 .. MaxCommands : Executable(j) ~> (Len(executed) >= j \/ ~Executable(j))
=============================================================================
