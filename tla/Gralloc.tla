------------------------------ MODULE Gralloc ------------------------------
(***************************************************************************)
(* Graphics buffers between guest processes and the host: gralloc.cpp in   *)
(* the processes, the write buffer of IOStream and the socket of each      *)
(* thread's HostConnection, and the host's color buffer table.             *)
(*                                                                         *)
(* Every guest thread has a connection of its own.  A render control call  *)
(* without a result (open, close) only fills the write buffer; a call with *)
(* a result flushes it and waits for the host, and fb_post flushes it.  So *)
(* calls of two threads reach the host in any order, and what an ending    *)
(* thread has not flushed is lost with its connection (the destructors of  *)
(* HostConnection and SocketStream do not flush).                          *)
(*                                                                         *)
(* Handles are not reused, as in a run of the host in which s_nextHandle   *)
(* does not wrap: the buffer's number is its handle.  Calls that return an *)
(* error before they wrote to the connection change nothing and are left   *)
(* out, and so is the ashmem mapping, which is local to a process; the     *)
(* post counter in it is not.                                              *)
(***************************************************************************)
EXTENDS Integers, Sequences, FiniteSets

CONSTANTS
    Threads,     \* guest threads that call gralloc
    Procs,       \* guest processes
    ProcOf,      \* the process of each thread
    NoProc,      \* no process
    MaxBuffers,  \* bound on the buffers ever allocated
    MaxHeld,     \* bound on the registrations of a buffer in one process
    MaxOut,      \* bound on the calls of a thread the host has not executed
    MaxPosts,    \* bound on the posts of a buffer
    MaxFailed,   \* no registration fails once so many references are lost
    Rules        \* the rules the guest keeps, a subset of AllRules

\* What the code leaves to its callers:
\*   "confirm": no reference to a buffer is returned while a registration of
\*              it by another thread has not been executed by the host;
\*   "exit":    a thread ends only after its calls were flushed.
AllRules == {"confirm", "exit"}

ASSUME ProcsAssumption == NoProc \notin Procs /\ ProcOf \in [Threads -> Procs]
ASSUME FiniteAssumption == IsFiniteSet(Threads) /\ IsFiniteSet(Procs)
ASSUME RulesAssumption == Rules \subseteq AllRules
ASSUME BoundsAssumption ==
    /\ MaxBuffers \in Nat /\ MaxHeld \in Nat /\ MaxOut \in Nat /\ MaxPosts \in Nat
    /\ MaxFailed \in Nat

Buffers == 1 .. MaxBuffers
Calls == [op : {"open", "close", "post"}, buffer : Buffers]
Call(op, b) == [op |-> op, buffer |-> b]

VARIABLES
    serial,     \* buffers allocated so far
    allocator,  \* the process whose alloc list holds each buffer
    held,       \* registrations of each process
    posts,      \* the post counter in the buffer's ashmem region
    locked,     \* <<>>, or <<t, b>>: t has locked b
    ended,      \* threads that are over
    out,        \* the write buffer of each thread's connection
    wire,       \* what was flushed and the host has not executed
    refcount,   \* the host's m_colorbuffers: the count, 0 if there is no entry
    posted,     \* posts the host has executed
    lost        \* closes minus opens that were lost with a connection, and
                \* references of processes that died or of registrations that
                \* failed (not in the program)

guest == <<serial, allocator, held>>
conn == <<out, wire, ended>>
host == <<refcount, posted>>
vars == <<guest, posts, locked, conn, host, lost>>

Init ==
    /\ serial = 0
    /\ allocator = [b \in Buffers |-> NoProc]
    /\ held = [p \in Procs |-> [b \in Buffers |-> 0]]
    /\ posts = [b \in Buffers |-> 0]
    /\ locked = <<>>
    /\ ended = {}
    /\ out = [t \in Threads |-> <<>>]
    /\ wire = [t \in Threads |-> <<>>]
    /\ refcount = [b \in Buffers |-> 0]
    /\ posted = [b \in Buffers |-> 0]
    /\ lost = [b \in Buffers |-> 0]

-----------------------------------------------------------------------------
(* Counting references *)

Occurrences(c, calls) == Cardinality({i \in DOMAIN calls : calls[i] = c})

\* references to b of process p, and of all processes
RefsOf(p, b) == held[p][b] + (IF allocator[b] = p THEN 1 ELSE 0)
GuestRefs(b) ==
    Cardinality({r \in Procs \X (1 .. MaxHeld + 1) : r[2] <= RefsOf(r[1], b)})

\* calls of thread t the host has not executed
Undelivered(t) == wire[t] \o out[t]
InTransit(op, b) ==
    Cardinality({d \in Threads \X (1 .. MaxOut) :
                    d[2] <= Len(Undelivered(d[1])) /\ Undelivered(d[1])[d[2]] = Call(op, b)})

\* the references to b the host should count: those the guest holds, without
\* the ones whose open, and with the ones whose close, is under way
HostRefs(b) == GuestRefs(b) + InTransit("close", b) - InTransit("open", b) + lost[b]

-----------------------------------------------------------------------------
(* The connection: IOStream, SocketStream, HostConnection *)

\* alloc(): the packet is put into the write buffer
Write(t, c) ==
    /\ Len(Undelivered(t)) < MaxOut
    /\ out' = [out EXCEPT ![t] = Append(@, c)]
    /\ UNCHANGED wire

\* mutant: the new bytes overtake the ones sent before
FlushReordered(t) ==
    /\ out[t] # <<>>
    /\ wire' = [wire EXCEPT ![t] = out[t] \o @]
    /\ out' = [out EXCEPT ![t] = <<>>]
    /\ UNCHANGED <<guest, posts, locked, ended, host, lost>>

\* flush(): any call with a result, or a full buffer, makes a thread flush
Flush(t) ==
    /\ out[t] # <<>>
    /\ wire' = [wire EXCEPT ![t] = @ \o out[t]]
    /\ out' = [out EXCEPT ![t] = <<>>]
    /\ UNCHANGED <<guest, posts, locked, ended, host, lost>>

\* readback() has returned: whatever the thread sent before was executed
Answered(t) == out[t] = <<>> /\ wire[t] = <<>>

-----------------------------------------------------------------------------
(* The alloc device *)

\* gralloc_alloc: rcCreateColorBuffer has a result
Alloc(t) ==
    /\ serial < MaxBuffers /\ Answered(t)
    /\ serial' = serial + 1
    /\ allocator' = [allocator EXCEPT ![serial + 1] = ProcOf[t]]
    /\ refcount' = [refcount EXCEPT ![serial + 1] = 1]
    /\ UNCHANGED <<held, posts, locked, conn, posted, lost>>

MayClose(t, b) ==
    "confirm" \in Rules =>
        \A u \in Threads \ {t} : Occurrences(Call("open", b), Undelivered(u)) = 0

\* gralloc_free; gralloc_device_close calls it for every buffer on the list
Free(t, b) ==
    /\ allocator[b] = ProcOf[t] /\ MayClose(t, b)
    /\ Write(t, Call("close", b))
    /\ allocator' = [allocator EXCEPT ![b] = NoProc]
    /\ UNCHANGED <<serial, held, posts, locked, ended, host, lost>>

-----------------------------------------------------------------------------
(* The gralloc module: registration and locking *)

\* mutant: the reference is taken without telling the host
RegisterLocally(t, b) ==
    /\ GuestRefs(b) > 0 /\ held[ProcOf[t]][b] < MaxHeld
    /\ held' = [held EXCEPT ![ProcOf[t]][b] = @ + 1]
    /\ UNCHANGED <<serial, allocator, posts, locked, conn, host, lost>>

\* gralloc_register_buffer: the handle came from a process that has a reference
Register(t, b) ==
    /\ GuestRefs(b) > 0 /\ held[ProcOf[t]][b] < MaxHeld
    /\ Write(t, Call("open", b))
    /\ held' = [held EXCEPT ![ProcOf[t]][b] = @ + 1]
    /\ UNCHANGED <<serial, allocator, posts, locked, ended, host, lost>>

\* map_buffer fails: the host was told, and gralloc_register_buffer returns an
\* error without taking that back
RegisterFails(t, b) ==
    /\ GuestRefs(b) > 0 /\ lost[b] < MaxFailed
    /\ Write(t, Call("open", b))
    /\ lost' = [lost EXCEPT ![b] = @ + 1]
    /\ UNCHANGED <<guest, posts, locked, ended, host>>

\* mutant: a buffer that is not registered is unregistered
UnregisterUnchecked(t, b) ==
    /\ b <= serial /\ MayClose(t, b)
    /\ Write(t, Call("close", b))
    /\ held' = [held EXCEPT ![ProcOf[t]][b] = @ - 1]
    /\ UNCHANGED <<serial, allocator, posts, locked, ended, host, lost>>

\* gralloc_unregister_buffer, in any thread of the process; when munmap fails it
\* has closed the buffer all the same
Unregister(t, b) ==
    /\ held[ProcOf[t]][b] > 0 /\ MayClose(t, b)
    /\ Write(t, Call("close", b))
    /\ held' = [held EXCEPT ![ProcOf[t]][b] = @ - 1]
    /\ UNCHANGED <<serial, allocator, posts, locked, ended, host, lost>>

\* gralloc_lock for software access: rcColorBufferCacheFlush has a result,
\* which the host returns without waiting for anything.  (One lock at a time:
\* a bound, locks have no effect on each other.)
Lock(t, b) ==
    /\ RefsOf(ProcOf[t], b) > 0 /\ locked = <<>> /\ Answered(t)
    /\ locked' = <<t, b>>
    /\ UNCHANGED <<guest, posts, conn, host, lost>>

\* gralloc_unlock: rcUpdateColorBuffer has a result
Unlock(t) ==
    /\ locked # <<>> /\ locked[1] = t /\ Answered(t)
    /\ locked' = <<>>
    /\ UNCHANGED <<guest, posts, conn, host, lost>>

-----------------------------------------------------------------------------
(* The framebuffer device *)

\* mutant: hostCon->flush() is forgotten
PostUnflushed(t, b) ==
    /\ RefsOf(ProcOf[t], b) > 0 /\ posts[b] < MaxPosts
    /\ posts' = [posts EXCEPT ![b] = @ + 1]
    /\ Write(t, Call("post", b))
    /\ UNCHANGED <<guest, locked, ended, host, lost>>

\* fb_post: count, send, flush
FbPost(t, b) ==
    /\ RefsOf(ProcOf[t], b) > 0 /\ posts[b] < MaxPosts
    /\ Len(Undelivered(t)) < MaxOut
    /\ posts' = [posts EXCEPT ![b] = @ + 1]
    /\ wire' = [wire EXCEPT ![t] = @ \o Append(out[t], Call("post", b))]
    /\ out' = [out EXCEPT ![t] = <<>>]
    /\ UNCHANGED <<guest, locked, ended, host, lost>>

-----------------------------------------------------------------------------
(* The end of threads and processes *)

\* what the loss of calls does to the count of b
Unsent(S, b) ==
    LET dropped(op) == Cardinality({d \in S \X (1 .. MaxOut) :
                           d[2] <= Len(out[d[1]]) /\ out[d[1]][d[2]] = Call(op, b)})
    IN dropped("close") - dropped("open")

\* the lock of a thread in S is gone
Unlocked(S) == IF locked # <<>> /\ locked[1] \in S THEN <<>> ELSE locked

\* tlsDestruct deletes the connection; the process keeps its references
ThreadExits(t) ==
    /\ "exit" \in Rules => out[t] = <<>>
    /\ ended' = ended \cup {t}
    /\ out' = [out EXCEPT ![t] = <<>>]
    /\ lost' = [b \in Buffers |-> lost[b] + Unsent({t}, b)]
    /\ locked' = Unlocked({t})
    /\ UNCHANGED <<guest, posts, wire, host>>

\* the process is killed: nobody returns its references
ProcessDies(p) ==
    LET mine == {t \in Threads \ ended : ProcOf[t] = p} IN
    /\ mine # {}
    /\ ended' = ended \cup mine
    /\ out' = [t \in Threads |-> IF t \in mine THEN <<>> ELSE out[t]]
    /\ lost' = [b \in Buffers |-> lost[b] + Unsent(mine, b) + RefsOf(p, b)]
    /\ locked' = Unlocked(mine)
    /\ allocator' = [b \in Buffers |-> IF allocator[b] = p THEN NoProc ELSE allocator[b]]
    /\ held' = [held EXCEPT ![p] = [b \in Buffers |-> 0]]
    /\ UNCHANGED <<serial, posts, wire, host>>

-----------------------------------------------------------------------------
(* The host: the render thread of connection t executes the next call *)

\* mutant: the entry is erased when one reference is left
CloseEarly(n) == IF n <= 2 THEN 0 ELSE n - 1

\* closeColorBuffer: no entry, no effect; the entry goes when the count is zero
Closed(n) == IF n = 0 THEN 0 ELSE n - 1

\* openColorBuffer: no entry, no effect
Opened(n) == IF n = 0 THEN 0 ELSE n + 1

HostExecutes(t) ==
    /\ wire[t] # <<>>
    /\ wire' = [wire EXCEPT ![t] = Tail(@)]
    /\ LET c == Head(wire[t]) IN
       \/ /\ c.op = "open"
          /\ refcount' = [refcount EXCEPT ![c.buffer] = Opened(@)]
          /\ UNCHANGED posted
       \/ /\ c.op = "close"
          /\ refcount' = [refcount EXCEPT ![c.buffer] = Closed(@)]
          /\ UNCHANGED posted
       \/ /\ c.op = "post"
          /\ posted' = [posted EXCEPT ![c.buffer] = @ + 1]
          /\ UNCHANGED refcount
    /\ UNCHANGED <<guest, posts, locked, out, ended, lost>>

Next ==
    \/ \E t \in Threads \ ended :
          \/ Alloc(t) \/ Flush(t) \/ Unlock(t) \/ ThreadExits(t)
          \/ \E b \in Buffers : \/ Free(t, b) \/ Register(t, b) \/ RegisterFails(t, b)
                                \/ Unregister(t, b) \/ Lock(t, b) \/ FbPost(t, b)
    \/ \E p \in Procs : ProcessDies(p)
    \/ \E t \in Threads : HostExecutes(t)

\* a render thread goes on decoding what its connection delivers
Fairness == \A t \in Threads : WF_vars(HostExecutes(t))

Spec == Init /\ [][Next]_vars /\ Fairness

-----------------------------------------------------------------------------
TypeOK ==
    /\ serial \in 0 .. MaxBuffers
    /\ allocator \in [Buffers -> Procs \cup {NoProc}]
    /\ held \in [Procs -> [Buffers -> 0 .. MaxHeld]]
    /\ posts \in [Buffers -> 0 .. MaxPosts] /\ posted \in [Buffers -> 0 .. MaxPosts]
    /\ locked \in {<<>>} \cup (Threads \X Buffers)
    /\ ended \subseteq Threads
    /\ out \in [Threads -> Seq(Calls)] /\ wire \in [Threads -> Seq(Calls)]
    /\ refcount \in [Buffers -> Nat]
    /\ lost \in [Buffers -> Int]

\* "number of client-side references" (FrameBuffer.h:31): the count of a buffer
\* that exists is the number of references the guest holds, corrected by the
\* calls under way, the calls that connections took with them and the references
\* of failed registrations and dead processes: it never drifts, whatever the
\* threads do and in whatever order the host hears of it.
CountIsClientReferences ==
    \A b \in Buffers : refcount[b] > 0 => refcount[b] = HostRefs(b)

\* "Adds an additional reference to the colorbuffer, typically from a different
\* Android process" (renderControl_enc/README:82-84): a buffer that some process
\* has allocated or registered, and not returned, exists on the host.
HeldBuffersExist ==
    \A b \in Buffers : GuestRefs(b) > 0 => refcount[b] > 0

\* Every post reaches the host, even if the posting thread calls nothing more
\* or ends: fb_post flushes its connection (gralloc.cpp:385).
PostsArrive ==
    \A b \in Buffers, n \in 1 .. MaxPosts : posts[b] >= n ~> posted[b] >= n

\* the refinement mapping to HandleTables: the references there are those whose
\* calls the host has executed; MaxRefs allows for all that processes can hold,
\* have under way and lose
Tables == INSTANCE HandleTables WITH
    HandleMod <- MaxBuffers + 1,
    MaxSerial <- MaxBuffers,
    MaxRefs <- MaxFailed + 2 * Cardinality(Procs \X (1 .. MaxHeld + 1))
                         + 2 * Cardinality(Threads \X (1 .. MaxOut)),
    nextHandle <- serial,
    wrapped <- FALSE,
    contexts <- [h \in 0 .. MaxBuffers |-> 0],
    windows <- [h \in 0 .. MaxBuffers |-> 0],
    colorbuffers <- [h \in 0 .. MaxBuffers |->
                        IF h > 0 /\ h <= serial /\ refcount[h] > 0 THEN h ELSE 0],
    refcount <- [h \in 0 .. MaxBuffers |-> IF h > 0 THEN refcount[h] ELSE 0],
    serial <- serial,
    kind <- [s \in Buffers |-> IF s <= serial THEN "colorbuffer" ELSE "none"],
    handleOf <- [s \in Buffers |-> IF s <= serial THEN s ELSE 0],
    refs <- [s \in Buffers |-> HostRefs(s)]

\* With both rules, processes that call openColorBuffer and closeColorBuffer
\* (FrameBuffer.cpp:548-570) over several connections use the host's table as
\* HandleTables specifies it, where a buffer is opened only while some client
\* holds a reference, and each close returns one.
ImplementsHandleTables == Tables!Spec
=============================================================================
