------------------------ MODULE CommandStream_proofs ------------------------
(***************************************************************************)
(* Proofs about CommandStream: the buffer always holds the next bytes of   *)
(* the stream, no complete command is left behind, and the connection is a *)
(* FIFO of commands, for all packet lengths and buffer sizes.              *)
(*                                                                         *)
(* The inductive invariant adds to the three properties what ties them     *)
(* together: commands occupy consecutive, disjoint ranges of the stream,   *)
(* the first byte not yet decoded is the first byte of the first command   *)
(* not yet executed, and the buffer never outgrew the memory.              *)
(***************************************************************************)
EXTENDS CommandStream, TLAPS

\* every command follows the one before it and has room for its header
Consecutive ==
    \A i \in 1 .. Len(sent) :
        /\ sent[i].end >= HeaderLen
        /\ \A j \in 1 .. Len(sent) : i < j => sent[i].end + HeaderLen <= sent[j].end

Arrival == got <= limit /\ limit <= Total

Sizes == size > 0 /\ size <= AllocLimit /\ valid <= got

\* the decoder stands at the first command that was not executed
InStep ==
    /\ Len(executed) <= Len(sent)
    /\ \A i \in 1 .. Len(executed) : executed[i] = i
    /\ got - valid + pos = Start(Len(executed) + 1)
    /\ pc \in {"get", "ended"} => pos = 0

\* the next command is none that a decoder of D could execute now
Blocked(D) ==
    LET j == Len(executed) + 1 IN
    j <= Len(sent) /\ sent[j].dec \in D => sent[j].end > got

\* what the decoders tried since the last progress have found
Tried ==
    /\ pc = "gl2" /\ ~progress /\ pos = 0 => Blocked({"gl"})
    /\ pc = "rc" /\ ~progress /\ pos = 0 => Blocked({"gl", "gl2"})
    /\ pc \in {"get", "ended"} => Blocked(Decoders)

IInv == /\ TypeOK /\ BufferIsStream /\ Consecutive /\ Arrival /\ Sizes
        /\ InStep /\ Tried

-----------------------------------------------------------------------------
\* Where commands start: the ranges of two commands in the stream are disjoint,
\* so a position is the start of at most one (Start, Total).
LEMMA StartFacts ==
    ASSUME TypeOK, Consecutive
    PROVE  /\ Total \in Nat
           /\ Start(Len(sent) + 1) = Total
           /\ \A j \in 1 .. Len(sent) + 1 : Start(j) \in Nat
           /\ \A j \in 1 .. Len(sent) :
                 /\ sent[j].end \in Nat /\ sent[j].dec \in Protocols
                 /\ sent[j].end >= Start(j) + HeaderLen
                 /\ sent[j].end <= Total
                 /\ Start(j + 1) = sent[j].end
           /\ \A i, j \in 1 .. Len(sent) + 1 : i < j => Start(i) < Start(j)
  <1>1. Len(sent) \in Nat /\ \A j \in 1 .. Len(sent) : sent[j] \in Commands
    BY DEF TypeOK
  <1>2. \A j \in 1 .. Len(sent) : sent[j].end \in Nat /\ sent[j].dec \in Protocols
    BY <1>1 DEF Commands
  <1>3. HeaderLen \in Nat /\ HeaderLen > 0
    BY LengthsAssumption
  <1>4. sent = <<>> <=> Len(sent) = 0
    BY DEF TypeOK
  <1>5. Total \in Nat /\ Start(Len(sent) + 1) = Total
    BY <1>1, <1>2, <1>4 DEF Total, Start
  <1>6. \A j \in 1 .. Len(sent) + 1 : Start(j) \in Nat
    BY <1>1, <1>2 DEF Start
  <1>7. \A j \in 1 .. Len(sent) : sent[j].end >= Start(j) + HeaderLen
    BY <1>1, <1>2, <1>3 DEF Start, Consecutive
  <1>8. \A j \in 1 .. Len(sent) : sent[j].end <= Total /\ Start(j + 1) = sent[j].end
    <2> SUFFICES ASSUME NEW j \in 1 .. Len(sent)
                 PROVE  sent[j].end <= Total /\ Start(j + 1) = sent[j].end
      OBVIOUS
    <2>1. Start(j + 1) = sent[j].end
      BY <1>1 DEF Start
    <2>2. sent[j].end <= Total
      BY <1>1, <1>2, <1>3, <1>4 DEF Total, Consecutive
    <2> QED BY <2>1, <2>2
  <1>9. \A i, j \in 1 .. Len(sent) + 1 : i < j => Start(i) < Start(j)
    <2> SUFFICES ASSUME NEW i \in 1 .. Len(sent) + 1, NEW j \in 1 .. Len(sent) + 1, i < j
                 PROVE  Start(i) < Start(j)
      OBVIOUS
    <2>1. j - 1 \in 1 .. Len(sent) /\ Start(j) = sent[j - 1].end
      BY <1>1 DEF Start
    <2>2. CASE i = 1
      BY <2>1, <2>2, <1>2, <1>3 DEF Start, Consecutive
    <2>3. CASE i > 1
      <3>1. i - 1 \in 1 .. Len(sent) /\ i - 1 < j - 1 /\ Start(i) = sent[i - 1].end
        BY <2>3, <1>1 DEF Start
      <3> QED BY <3>1, <2>1, <1>2, <1>3 DEF Consecutive
    <2> QED BY <2>2, <2>3, <1>1
  <1> QED BY <1>2, <1>5, <1>6, <1>7, <1>8, <1>9

\* With less memory than half of what size_t counts, the "overflow check" of
\* getData() is never taken and the buffer doubles (ReadBuffer.cpp:42-48).
LEMMA DoubledFact ==
    ASSUME size \in Nat, size <= AllocLimit
    PROVE  Doubled = 2 * size
  <1>1. 2 * size \in Nat /\ 2 * size < SizeMod /\ SizeMod \in Nat
    BY SizesAssumption
  <1>2. (2 * size) % SizeMod = 2 * size
    BY <1>1
  <1> QED BY <1>1, <1>2 DEF Doubled

\* The first command of the stream that was not executed is the only one a
\* decoder can find at its read pointer (AtPtr).
LEMMA AtPtrFact ==
    ASSUME IInv, NEW j \in AtPtr
    PROVE  /\ j = Len(executed) + 1 /\ j \in 1 .. Len(sent)
           /\ got - valid + pos = Start(j)
  <1>1. j \in 1 .. Len(sent) /\ valid - pos >= HeaderLen /\ HeaderLen > 0 /\ HeaderLen \in Nat
    BY LengthsAssumption DEF AtPtr
  <1>2. buf[off + pos + 0] = Start(j) + 0
    BY <1>1 DEF AtPtr
  <1>3. pos \in 0 .. valid - 1 /\ pos \in Nat /\ valid \in Nat /\ off \in Nat /\ got \in Nat
    BY <1>1 DEF IInv, TypeOK, BufferIsStream
  <1>4. buf[off + pos] = got - valid + pos
    BY <1>3 DEF IInv, BufferIsStream
  <1>5. /\ Start(j) \in Nat /\ Start(Len(executed) + 1) \in Nat
        /\ \A i, k \in 1 .. Len(sent) + 1 : i < k => Start(i) < Start(k)
    <2>1. TypeOK /\ Consecutive
      BY DEF IInv
    <2>2. /\ \A i \in 1 .. Len(sent) + 1 : Start(i) \in Nat
          /\ \A i, k \in 1 .. Len(sent) + 1 : i < k => Start(i) < Start(k)
      BY <2>1, StartFacts
    <2>3. Len(executed) \in Nat /\ Len(sent) \in Nat /\ Len(executed) <= Len(sent)
      BY DEF IInv, InStep, TypeOK
    <2>4. j \in 1 .. Len(sent) + 1 /\ Len(executed) + 1 \in 1 .. Len(sent) + 1
      BY <2>3, <1>1
    <2> QED BY <2>2, <2>4
  <1>6. off + pos + 0 = off + pos /\ Start(j) + 0 = Start(j)
    BY <1>3, <1>5
  <1>7. Start(j) = Start(Len(executed) + 1)
    BY <1>2, <1>4, <1>6 DEF IInv, InStep
  <1>8. Len(executed) \in Nat /\ Len(sent) \in Nat /\ Len(executed) + 1 <= Len(sent) + 1
    BY DEF IInv, InStep, TypeOK
  <1>9. j = Len(executed) + 1
    BY <1>1, <1>5, <1>7, <1>8
  <1> QED BY <1>1, <1>9 DEF IInv, InStep

-----------------------------------------------------------------------------
\* The client sends a command: it starts where the stream ended, after every
\* byte the host can have read.
LEMMA SendPreserves ==
    ASSUME IInv, NEW d \in Protocols, NEW n \in Lengths, Send(d, n)
    PROVE  IInv'
  <1>1. /\ Len(sent) \in Nat /\ n \in Nat /\ n >= HeaderLen /\ HeaderLen > 0 /\ HeaderLen \in Nat
        /\ Len(executed) \in Nat /\ Len(executed) <= Len(sent)
    BY LengthsAssumption DEF IInv, TypeOK, InStep
  <1>2. /\ Total \in Nat
        /\ Start(Len(sent) + 1) = Total
        /\ \A j \in 1 .. Len(sent) : sent[j].end \in Nat /\ sent[j].end <= Total
    BY StartFacts DEF IInv
  <1> DEFINE new == [dec |-> d, end |-> Total + n]
  <1>3. new \in Commands
    BY <1>1, <1>2 DEF Commands
  <1>4. /\ sent' = Append(sent, new) /\ sent' \in Seq(Commands)
        /\ Len(sent') = Len(sent) + 1
        /\ \A j \in 1 .. Len(sent) : sent'[j] = sent[j]
        /\ sent'[Len(sent) + 1] = new
    BY <1>3 DEF Send, IInv, TypeOK
  <1>5. TypeOK'
    BY <1>1, <1>2, <1>4 DEF IInv, TypeOK, Send, bufVars
  <1>6. BufferIsStream'
    BY DEF IInv, BufferIsStream, Send, bufVars
  <1>7. Consecutive'
    <2> SUFFICES ASSUME NEW i \in 1 .. Len(sent')
                 PROVE  /\ sent'[i].end >= HeaderLen
                        /\ \A j \in 1 .. Len(sent') :
                              i < j => sent'[i].end + HeaderLen <= sent'[j].end
      BY DEF Consecutive
    <2>1. CASE i \in 1 .. Len(sent)
      <3>1. sent'[i] = sent[i] /\ sent[i].end >= HeaderLen
        BY <2>1, <1>4 DEF IInv, Consecutive
      <3>2. ASSUME NEW j \in 1 .. Len(sent'), i < j
            PROVE  sent'[i].end + HeaderLen <= sent'[j].end
        <4>1. CASE j \in 1 .. Len(sent)
          BY <2>1, <3>2, <4>1, <1>4 DEF IInv, Consecutive
        <4>2. CASE j = Len(sent) + 1
          BY <2>1, <4>2, <1>1, <1>2, <1>4
        <4> QED BY <1>1, <1>4, <4>1, <4>2
      <3> QED BY <3>1, <3>2
    <2>2. CASE i = Len(sent) + 1
      BY <2>2, <1>1, <1>2, <1>4
    <2> QED BY <1>1, <1>4, <2>1, <2>2
  <1>8. Total' = Total + n
    BY <1>1, <1>4 DEF Total
  <1>9. Arrival'
    BY <1>1, <1>2, <1>8 DEF IInv, Arrival, TypeOK, Send, bufVars
  <1>10. Sizes'
    BY DEF IInv, Sizes, Send, bufVars
  <1>11. Start(Len(executed) + 1)' = Start(Len(executed) + 1)
    BY <1>1, <1>4 DEF Start, Send
  <1>12. InStep'
    BY <1>1, <1>4, <1>11 DEF IInv, InStep, Send, bufVars
  <1>13. \A D \in SUBSET Decoders : Blocked(D) => Blocked(D)'
    <2>1. got \in Nat /\ got <= Total
      BY <1>2 DEF IInv, Arrival, TypeOK
    <2>2. executed' = executed /\ got' = got
      BY DEF Send, bufVars
    <2> QED BY <1>1, <1>2, <1>4, <2>1, <2>2 DEF Blocked
  <1>14. Tried'
    <2>1. pc' = pc /\ progress' = progress /\ pos' = pos
      BY DEF Send
    <2> QED BY <1>13, <2>1 DEF IInv, Tried, Decoders
  <1> QED BY <1>5, <1>6, <1>7, <1>9, <1>10, <1>12, <1>14 DEF IInv

\* The connection is closed, and perhaps cut short, by the client.
LEMMA ClosePreserves ==
    ASSUME IInv, NEW m \in 0 .. limit, Close(m)
    PROVE  IInv'
  <1>1. limit' \in Nat /\ got <= limit' /\ limit' <= limit
    BY DEF Close, IInv, TypeOK, Arrival
  <1>2. UNCHANGED <<sent, buf, size, off, valid, got, pc, pos, progress, executed>>
    BY DEF Close, bufVars
  <1>3. TypeOK'
    BY <1>1, <1>2 DEF IInv, TypeOK, Close
  <1>4. Total' = Total /\ Total \in Nat /\ Start(Len(executed) + 1)' = Start(Len(executed) + 1)
    BY <1>2, StartFacts DEF Total, Start, IInv
  <1>5. Arrival'
    BY <1>1, <1>2, <1>4 DEF IInv, Arrival, TypeOK
  <1>6. InStep'
    BY <1>2, <1>4 DEF IInv, InStep
  <1>7. BufferIsStream' /\ Consecutive' /\ Sizes'
    BY <1>2 DEF IInv, BufferIsStream, Consecutive, Sizes
  <1>8. Tried'
    BY <1>2 DEF IInv, Tried, Blocked
  <1> QED BY <1>3, <1>5, <1>6, <1>7, <1>8 DEF IInv

\* getData(): the bytes that were valid stay, moved to the front and copied by
\* realloc, and the new ones follow them.
LEMMA GetDataPreserves ==
    ASSUME IInv, NEW n \in 1 .. AllocLimit, GetData(n)
    PROVE  IInv'
  <1>1. /\ size \in Nat /\ off \in Nat /\ valid \in Nat /\ got \in Nat /\ pos \in Nat
        /\ off + valid <= size /\ valid <= got /\ size <= AllocLimit /\ size > 0
        /\ AllocLimit \in Nat /\ n \in Nat /\ n > 0
    BY SizesAssumption DEF IInv, TypeOK, BufferIsStream, Sizes
  <1>2. Doubled = 2 * size
    BY <1>1, DoubledFact
  <1>3. /\ NewSize \in Nat /\ NewSize >= size /\ NewSize <= AllocLimit
        /\ n <= NewSize - valid
    BY <1>1, <1>2 DEF NewSize, GetData, AllocFails
  <1>4. /\ buf' = Filled(n) /\ size' = NewSize /\ off' = 0 /\ valid' = valid + n
        /\ got' = got + n /\ pos' = pos /\ pc' = "gl" /\ progress' = FALSE
        /\ UNCHANGED <<sent, limit, closed, executed>>
    BY DEF GetData, clientVars
  <1>5. pos = 0
    BY DEF GetData, IInv, InStep
  <1>6. Moved \in [0 .. size - 1 -> Nat \cup {Garbage}]
    BY <1>1 DEF Moved, IInv, TypeOK
  <1>7. \A i \in 0 .. valid - 1 : Moved[i] = got - valid + i
    <2>1. CASE valid > 0 /\ off > 0
      BY <2>1, <1>1 DEF Moved, IInv, BufferIsStream
    <2>2. CASE ~(valid > 0 /\ off > 0)
      BY <2>2, <1>1 DEF Moved, IInv, BufferIsStream
    <2> QED BY <2>1, <2>2
  <1>8. TypeOK'
    <2>1. Filled(n) \in [0 .. NewSize - 1 -> Nat \cup {Garbage}]
      BY <1>1, <1>3, <1>6 DEF Filled
    <2> QED BY <2>1, <1>1, <1>3, <1>4 DEF IInv, TypeOK, Decoders
  <1>9. BufferIsStream'
    <2>1. \A i \in 0 .. valid + n - 1 : Filled(n)[i] = got - valid + i
      BY <1>1, <1>3, <1>7 DEF Filled
    <2> QED BY <2>1, <1>1, <1>3, <1>4, <1>5 DEF BufferIsStream
  <1>10. Consecutive' /\ Total' = Total /\ Start(Len(executed) + 1)' = Start(Len(executed) + 1)
    BY <1>4 DEF IInv, Consecutive, Total, Start
  <1>11. Arrival'
    BY <1>1, <1>4, <1>10 DEF IInv, Arrival, TypeOK, GetData
  <1>12. Sizes'
    BY <1>1, <1>3, <1>4 DEF Sizes
  <1>13. InStep'
    BY <1>1, <1>4, <1>10 DEF IInv, InStep
  <1>14. Tried'
    BY <1>4 DEF Tried
  <1> QED BY <1>8, <1>9, <1>10, <1>11, <1>12, <1>13, <1>14 DEF IInv

\* The stream ends or memory runs out: the thread leaves its loop.
LEMMA GetDataFailsPreserves ==
    ASSUME IInv, GetDataFails
    PROVE  IInv'
  <1>1. /\ pc = "get" /\ pc' = "ended"
        /\ UNCHANGED <<sent, limit, closed, buf, size, off, valid, got, pos, progress, executed>>
    BY DEF GetDataFails, clientVars, bufVars
  <1>2. Total' = Total /\ Start(Len(executed) + 1)' = Start(Len(executed) + 1)
    BY <1>1 DEF Total, Start
  <1>3. TypeOK' /\ BufferIsStream' /\ Consecutive' /\ Sizes'
    BY <1>1 DEF IInv, TypeOK, BufferIsStream, Consecutive, Sizes
  <1>4. Arrival' /\ InStep'
    BY <1>1, <1>2 DEF IInv, Arrival, InStep
  <1>5. Tried'
    BY <1>1 DEF IInv, Tried, Blocked
  <1> QED BY <1>3, <1>4, <1>5 DEF IInv

\* A command is executed: it is the next one, and it was complete.
LEMMA DecodeCommandPreserves ==
    ASSUME IInv, NEW d \in Decoders, DecodeCommand(d)
    PROVE  /\ IInv'
           /\ Len(executed) < Len(sent)
           /\ executed' = Append(executed, Len(executed) + 1)
  <1>1. PICK j \in Decodable(d) : /\ executed' = Append(executed, j)
                                  /\ pos' = pos + (sent[j].end - Start(j))
    BY DEF DecodeCommand
  <1>2. j \in AtPtr /\ valid - pos >= sent[j].end - Start(j)
    BY DEF Decodable
  <1>3. j = Len(executed) + 1 /\ j \in 1 .. Len(sent) /\ got - valid + pos = Start(j)
    BY <1>2, AtPtrFact
  <1>4. /\ sent[j].end \in Nat /\ Start(j) \in Nat /\ sent[j].end >= Start(j) + HeaderLen
        /\ Start(j + 1) = sent[j].end
    <2>1. TypeOK /\ Consecutive
      BY DEF IInv
    <2>2. j \in 1 .. Len(sent) + 1
      BY <1>3, <2>1 DEF TypeOK
    <2> QED BY <1>3, <2>1, <2>2, StartFacts
  <1>5. /\ pos \in Nat /\ valid \in Nat /\ got \in Nat /\ HeaderLen \in Nat /\ HeaderLen > 0
        /\ Len(executed) \in Nat /\ Len(sent) \in Nat /\ executed \in Seq(Nat)
    BY LengthsAssumption DEF IInv, TypeOK
  <1>6. /\ pos' \in Nat /\ pos' > 0 /\ pos' <= valid
        /\ got - valid + pos' = sent[j].end
        /\ UNCHANGED <<sent, limit, closed, buf, size, off, valid, got, pc, progress>>
        /\ pc = d /\ pc \notin {"get", "ended"}
    <2>1. /\ UNCHANGED <<sent, limit, closed, buf, size, off, valid, got, pc, progress>>
          /\ pc = d /\ pc \notin {"get", "ended"}
      BY DEF DecodeCommand, clientVars, bufVars, Decoders
    <2>2. PICK len \in Nat : len = sent[j].end - Start(j) /\ len > 0
      BY <1>4, <1>5
    <2>3. pos' = pos + len /\ valid - pos >= len /\ Start(j) + len = sent[j].end
      BY <1>1, <1>2, <1>4, <2>2
    <2>4. pos' \in Nat /\ pos' > 0 /\ pos' <= valid
      BY <1>5, <2>2, <2>3
    <2>5. got - valid + pos' = (got - valid + pos) + len
      BY <1>5, <2>2, <2>3
    <2>6. got - valid + pos' = sent[j].end
      BY <1>3, <2>3, <2>5
    <2> QED BY <2>1, <2>4, <2>6
  <1>7. /\ executed' \in Seq(Nat) /\ Len(executed') = j
        /\ executed'[j] = j /\ \A i \in 1 .. Len(executed) : executed'[i] = executed[i]
    BY <1>1, <1>3, <1>5
  <1>8. TypeOK' /\ BufferIsStream' /\ Consecutive' /\ Sizes'
    BY <1>6, <1>7 DEF IInv, TypeOK, BufferIsStream, Consecutive, Sizes
  <1>9. Arrival'
    BY <1>6 DEF IInv, Arrival, Total
  <1>10. InStep'
    <2>1. Start(Len(executed) + 1)' = sent[j].end
      BY <1>3, <1>4, <1>5, <1>6, <1>7 DEF Start
    <2>2. got' - valid' + pos' = sent[j].end
      BY <1>6
    <2>3. \A i \in 1 .. Len(executed') : executed'[i] = i
      <3>1. \A i \in 1 .. Len(executed) : executed'[i] = i
        BY <1>7 DEF IInv, InStep
      <3> QED BY <3>1, <1>3, <1>5, <1>7
    <2>4. Len(executed') <= Len(sent')
      BY <1>3, <1>5, <1>6, <1>7
    <2>5. pc' \notin {"get", "ended"}
      BY <1>6
    <2> QED BY <2>1, <2>2, <2>3, <2>4, <2>5 DEF InStep
  <1>11. Tried'
    BY <1>6 DEF Tried
  <1> QED BY <1>1, <1>3, <1>5, <1>8, <1>9, <1>10, <1>11 DEF IInv

\* A decoder that finds nothing to execute at its read pointer has not been
\* offered a complete command of its protocol.
LEMMA NotDecodable ==
    ASSUME IInv, NEW d \in Decoders, Decodable(d) = {}
    PROVE  Blocked({d})
  <1> DEFINE j == Len(executed) + 1
  <1> SUFFICES ASSUME j <= Len(sent), sent[j].dec = d, ~(sent[j].end > got)
               PROVE  FALSE
    BY DEF Blocked
  <1>1. /\ pos \in Nat /\ valid \in Nat /\ got \in Nat /\ off \in Nat
        /\ HeaderLen \in Nat /\ HeaderLen > 0
        /\ Len(executed) \in Nat /\ Len(sent) \in Nat
    BY LengthsAssumption DEF IInv, TypeOK
  <1>2. j \in 1 .. Len(sent)
    BY <1>1
  <1>3. sent[j].end \in Nat /\ Start(j) \in Nat /\ sent[j].end >= Start(j) + HeaderLen
    <2>1. TypeOK /\ Consecutive
      BY DEF IInv
    <2>2. j \in 1 .. Len(sent) + 1
      BY <1>1, <1>2
    <2> QED BY <1>2, <2>1, <2>2, StartFacts
  <1>4. got - valid + pos = Start(j)
    BY DEF IInv, InStep
  <1>5. PICK len \in Nat : len = sent[j].end - Start(j) /\ len >= HeaderLen
    BY <1>1, <1>3
  <1>6. valid - pos >= len
    BY <1>1, <1>3, <1>4, <1>5
  <1>7. ASSUME NEW i \in 0 .. HeaderLen - 1
        PROVE  buf[off + pos + i] = Start(j) + i
    <2>1. pos + i \in 0 .. valid - 1
      BY <1>1, <1>5, <1>6
    <2>2. buf[off + (pos + i)] = got - valid + (pos + i)
      BY <2>1 DEF IInv, BufferIsStream
    <2>3. off + (pos + i) = off + pos + i /\ got - valid + (pos + i) = (got - valid + pos) + i
      BY <1>1
    <2> QED BY <2>2, <2>3, <1>4
  <1>8. valid - pos >= HeaderLen
    BY <1>1, <1>5, <1>6
  <1>9. j \in AtPtr
    BY <1>2, <1>7, <1>8 DEF AtPtr
  <1>10. j \in Decodable(d)
    BY <1>9, <1>5, <1>6 DEF Decodable
  <1> QED BY <1>10

\* A decoder returns: what it decoded is consumed, and when the three have
\* found nothing Main goes back to getData().
LEMMA DecodeReturnsPreserves ==
    ASSUME IInv, NEW d \in Decoders, DecodeReturns(d)
    PROVE  IInv'
  <1>1. /\ pos \in Nat /\ valid \in Nat /\ got \in Nat /\ off \in Nat /\ size \in Nat
        /\ pos <= valid /\ off + valid <= size
    BY DEF IInv, TypeOK, BufferIsStream
  <1>2. /\ valid' = valid - pos /\ off' = off + pos /\ pos' = 0
        /\ UNCHANGED <<sent, limit, closed, buf, size, got, executed>>
        /\ pc = d /\ Decodable(d) = {}
    BY DEF DecodeReturns, clientVars
  <1>3. pc' = After(d, progress \/ pos > 0) /\ progress' = (d # "rc" /\ (progress \/ pos > 0))
    BY DEF DecodeReturns
  <1>4. progress' \in BOOLEAN /\ pc' \in Decoders \cup {"get", "ended"}
    BY <1>3 DEF After, Decoders
  <1>5. TypeOK'
    BY <1>1, <1>2, <1>4 DEF IInv, TypeOK
  <1>6. BufferIsStream'
    <2>1. pos' <= valid' /\ off' + valid' <= size'
      BY <1>1, <1>2
    <2>2. ASSUME NEW i \in 0 .. valid' - 1
          PROVE  buf'[off' + i] = got' - valid' + i
      <3>1. pos + i \in 0 .. valid - 1
        BY <1>1, <1>2
      <3>2. buf[off + (pos + i)] = got - valid + (pos + i)
        BY <3>1 DEF IInv, BufferIsStream
      <3>3. off' + i = off + (pos + i) /\ got' - valid' + i = got - valid + (pos + i)
        BY <1>1, <1>2
      <3> QED BY <3>2, <3>3, <1>2
    <2> QED BY <2>1, <2>2 DEF BufferIsStream
  <1>7. Consecutive' /\ Arrival'
    BY <1>2 DEF IInv, Consecutive, Arrival, Total
  <1>8. Sizes'
    BY <1>1, <1>2 DEF IInv, Sizes
  <1>9. InStep'
    <2>1. Start(Len(executed) + 1)' = Start(Len(executed) + 1)
      BY <1>2 DEF Start
    <2>2. got' - valid' + pos' = got - valid + pos
      BY <1>1, <1>2
    <2> QED BY <1>2, <2>1, <2>2 DEF IInv, InStep
  <1>10. Tried'
    <2>1. Blocked({d})
      BY <1>2, NotDecodable
    <2>2. \A D \in SUBSET Decoders : Blocked(D)' <=> Blocked(D)
      BY <1>2 DEF Blocked
    <2>3. CASE d = "gl"
      BY <1>3, <2>1, <2>2, <2>3 DEF Tried, After, Decoders
    <2>4. CASE d = "gl2"
      <3>1. pc' = "rc" /\ (~progress' => ~progress /\ pos = 0)
        <4>1. pc' = "rc"
          BY <1>3, <2>4 DEF After
        <4>2. ~(pos > 0) => pos = 0
          BY <1>1
        <4>3. d # "rc"
          BY <2>4
        <4> QED BY <1>3, <4>1, <4>2, <4>3
      <3>2. ~progress /\ pos = 0 => Blocked({"gl"})
        BY <1>2, <2>4 DEF IInv, Tried
      <3>3. Blocked({"gl"}) /\ Blocked({"gl2"}) => Blocked({"gl", "gl2"})
        BY DEF Blocked
      <3> QED BY <3>1, <3>2, <3>3, <2>1, <2>2, <2>4 DEF Tried, Decoders
    <2>5. CASE d = "rc"
      <3>1. /\ pc' \in {"gl", "get"}
            /\ pc' = "get" => ~progress /\ pos = 0
        BY <1>1, <1>3, <2>5 DEF After
      <3>2. ~progress /\ pos = 0 => Blocked({"gl", "gl2"})
        BY <1>2, <2>5 DEF IInv, Tried
      <3>3. Blocked({"gl", "gl2"}) /\ Blocked({"rc"}) => Blocked(Decoders)
        BY DEF Blocked, Decoders
      <3> QED BY <3>1, <3>2, <3>3, <2>1, <2>2, <2>5 DEF Tried
    <2> QED BY <2>3, <2>4, <2>5 DEF Decoders
  <1> QED BY <1>5, <1>6, <1>7, <1>8, <1>9, <1>10 DEF IInv

-----------------------------------------------------------------------------
\* A connection starts with an empty buffer and nothing sent.
LEMMA InitIInv == Init => IInv
  <1> SUFFICES ASSUME Init PROVE IInv
    OBVIOUS
  <1>1. /\ Len(sent) = 0 /\ Len(executed) = 0 /\ sent \in Seq(Commands)
        /\ executed \in Seq(Nat) /\ Total = 0 /\ Start(1) = 0
    BY DEF Init, Total, Start
  <1>2. TypeOK
    BY <1>1, SizesAssumption DEF Init, TypeOK
  <1>3. BufferIsStream /\ Consecutive /\ Arrival /\ Sizes
    BY <1>1, SizesAssumption DEF Init, BufferIsStream, Consecutive, Arrival, Sizes
  <1>4. InStep /\ Tried
    BY <1>1 DEF Init, InStep, Tried, Blocked
  <1> QED BY <1>2, <1>3, <1>4 DEF IInv

\* Every step of the client and of the render thread preserves the invariant.
LEMMA NextIInv == IInv /\ [Next]_vars => IInv'
  <1> SUFFICES ASSUME IInv, [Next]_vars PROVE IInv'
    OBVIOUS
  <1>1. ASSUME NEW d \in Protocols, NEW n \in Lengths, Send(d, n) PROVE IInv'
    BY <1>1, SendPreserves
  <1>2. ASSUME NEW m \in 0 .. limit, Close(m) PROVE IInv'
    BY <1>2, ClosePreserves
  <1>3. ASSUME NEW n \in 1 .. AllocLimit, GetData(n) PROVE IInv'
    BY <1>3, GetDataPreserves
  <1>4. CASE GetDataFails
    BY <1>4, GetDataFailsPreserves
  <1>5. ASSUME NEW d \in Decoders, DecodeCommand(d) PROVE IInv'
    BY <1>5, DecodeCommandPreserves
  <1>6. ASSUME NEW d \in Decoders, DecodeReturns(d) PROVE IInv'
    BY <1>6, DecodeReturnsPreserves
  <1>7. CASE UNCHANGED vars
    <2>1. UNCHANGED <<sent, limit, closed, buf, size, off, valid, got, pc, pos, progress, executed>>
      BY <1>7 DEF vars, clientVars, bufVars
    <2>2. TypeOK' /\ BufferIsStream' /\ Consecutive' /\ Sizes'
      BY <2>1 DEF IInv, TypeOK, BufferIsStream, Consecutive, Sizes
    <2>3. Arrival' /\ InStep'
      BY <2>1 DEF IInv, Arrival, InStep, Total, Start
    <2>4. Tried'
      BY <2>1 DEF IInv, Tried, Blocked
    <2> QED BY <2>2, <2>3, <2>4 DEF IInv
  <1> QED BY <1>1, <1>2, <1>3, <1>4, <1>5, <1>6, <1>7 DEF Next, Thread

\* The inductive invariant holds of every connection.
THEOREM Invariance == Spec => []IInv
  BY InitIInv, NextIInv, PTL DEF Spec

\* The bookkeeping of a connection (validData, the read position, the chunk a
\* decoder is parsing) always has its type, whatever sizes the reads return.
THEOREM TypeCorrectness == Spec => []TypeOK
  <1>1. IInv => TypeOK
    BY DEF IInv
  <1> QED BY <1>1, Invariance, PTL

\* ReadBuffer never loses, repeats or reorders a byte, never runs over m_buf,
\* and its assertion holds, whatever the reads return (ReadBuffer.cpp).
THEOREM BufferIsAlwaysStream == Spec => []BufferIsStream
  <1>1. IInv => BufferIsStream
    BY DEF IInv
  <1> QED BY <1>1, Invariance, PTL

\* RenderThread::Main never waits for data, or ends, with a complete command
\* it knows at the front of its buffer (RenderThread.cpp:104-137).
THEOREM NeverStuck == Spec => []NoCommandStuck
  <1>1. IInv => NoCommandStuck
    <2> SUFFICES ASSUME IInv, pc \in {"get", "ended"},
                        Len(executed) + 1 <= Len(sent),
                        sent[Len(executed) + 1].dec # "other"
                 PROVE  sent[Len(executed) + 1].end > got
      BY DEF NoCommandStuck
    <2>1. Len(executed) + 1 \in 1 .. Len(sent)
      BY DEF IInv, TypeOK
    <2>2. sent[Len(executed) + 1].dec \in Decoders
      BY <2>1, StartFacts DEF IInv, Protocols
    <2>3. Blocked(Decoders)
      BY DEF IInv, Tried
    <2> QED BY <2>2, <2>3 DEF Blocked
  <1> QED BY <1>1, Invariance, PTL

\* A connection implements the FIFO of commands: the three decoders together
\* execute what was sent, in order, once each (ApiGen.cpp, RenderThread.cpp).
THEOREM Refinement == Spec => ImplementsFifo
  <1>1. Init => Fifo!Init
    BY DEF Init, Fifo!Init
  <1>2. IInv /\ [Next]_vars => [Fifo!Next]_<<sent, executed>>
    <2> SUFFICES ASSUME IInv, [Next]_vars
                 PROVE  Fifo!Next \/ UNCHANGED <<sent, executed>>
      OBVIOUS
    <2>1. ASSUME NEW d \in Protocols, NEW n \in Lengths, Send(d, n) PROVE Fifo!Send
      <3>1. Total \in Nat /\ n \in Nat /\ sent \in Seq(Commands)
        BY StartFacts, LengthsAssumption DEF IInv, TypeOK
      <3>2. [dec |-> d, end |-> Total + n] \in Commands
        BY <3>1 DEF Commands
      <3> QED BY <2>1, <3>1, <3>2 DEF Send, Fifo!Send
    <2>2. ASSUME NEW d \in Decoders, DecodeCommand(d) PROVE Fifo!Execute
      <3>1. UNCHANGED sent
        BY <2>2 DEF DecodeCommand, clientVars
      <3> QED BY <2>2, <3>1, DecodeCommandPreserves DEF Fifo!Execute
    <2>3. ASSUME NEW m \in 0 .. limit, Close(m) PROVE UNCHANGED <<sent, executed>>
      BY <2>3 DEF Close
    <2>4. ASSUME NEW n \in 1 .. AllocLimit, GetData(n) PROVE UNCHANGED <<sent, executed>>
      BY <2>4 DEF GetData, clientVars
    <2>5. CASE GetDataFails
      BY <2>5 DEF GetDataFails, clientVars
    <2>6. ASSUME NEW d \in Decoders, DecodeReturns(d) PROVE UNCHANGED <<sent, executed>>
      BY <2>6 DEF DecodeReturns, clientVars
    <2>7. CASE UNCHANGED vars
      BY <2>7 DEF vars, clientVars
    <2> QED BY <2>1, <2>2, <2>3, <2>4, <2>5, <2>6, <2>7 DEF Next, Thread, Fifo!Next
  <1> QED BY <1>1, <1>2, Invariance, PTL DEF Spec, ImplementsFifo, Fifo!Spec
=============================================================================
