---------------------------- MODULE HandleTables ----------------------------
(***************************************************************************)
(* The three handle tables of FrameBuffer (m_contexts, m_windows,          *)
(* m_colorbuffers), the generator of handles and the reference count of a  *)
(* color buffer (FrameBuffer.cpp).  Every operation runs under m_lock, so  *)
(* each is one step.                                                       *)
(*                                                                         *)
(* Objects are told apart by a serial number: table[h] is the serial of    *)
(* the object handle h names, 0 if h is absent.  refs is what the clients  *)
(* hold, the meaning the comment of ColorBufferRef gives to refcount; the  *)
(* program does not store it.  A creation that fails (bad format, bad      *)
(* config, EGL error) returns 0 and changes no table, so it is a stutter.  *)
(***************************************************************************)
EXTENDS Integers, FiniteSets

CONSTANTS
    HandleMod,   \* handles are uint32_t: 2^32, smaller when model checking
    MaxSerial,   \* bound on the objects ever created
    MaxRefs      \* bound on the references counted for one buffer

ASSUME HandleModAssumption == HandleMod \in Nat /\ HandleMod > 1
ASSUME BoundsAssumption == MaxSerial \in Nat /\ MaxRefs \in Nat

Handles == 0 .. HandleMod - 1
Serials == 1 .. MaxSerial

VARIABLES
    nextHandle,    \* s_nextHandle
    wrapped,       \* s_nextHandle has passed zero since the program started
    contexts,      \* m_contexts
    windows,       \* m_windows
    colorbuffers,  \* m_colorbuffers[h].cb
    refcount,      \* m_colorbuffers[h].refcount
    serial,        \* objects created so far
    kind,          \* what each object is
    handleOf,      \* the handle its creation returned
    refs           \* the references clients hold to it

vars == <<nextHandle, wrapped, contexts, windows, colorbuffers, refcount,
          serial, kind, handleOf, refs>>
tables == <<contexts, windows, colorbuffers, refcount>>
objects == <<serial, kind, handleOf>>

Init ==
    /\ nextHandle = 0 /\ wrapped = FALSE
    /\ contexts = [h \in Handles |-> 0]
    /\ windows = [h \in Handles |-> 0]
    /\ colorbuffers = [h \in Handles |-> 0]
    /\ refcount = [h \in Handles |-> 0]
    /\ serial = 0
    /\ kind = [s \in Serials |-> "none"]
    /\ handleOf = [s \in Serials |-> 0]
    /\ refs = [s \in Serials |-> 0]

-----------------------------------------------------------------------------
\* mutant: only m_contexts is consulted
FreeInContexts(h) == h # 0 /\ contexts[h] = 0

\* the exit condition of genHandle's loop: m_colorbuffers is not consulted
Free(h) == h # 0 /\ contexts[h] = 0 /\ windows[h] = 0

\* genHandle() returns h: the first free handle after s_nextHandle
GenHandle(h) ==
    \E k \in 1 .. HandleMod :
        /\ h = (nextHandle + k) % HandleMod
        /\ Free(h)
        /\ \A j \in 1 .. k - 1 : ~Free((nextHandle + j) % HandleMod)

\* a new object of kind k is handed to a client under handle h
Issue(k, h) ==
    /\ serial < MaxSerial
    /\ GenHandle(h)
    /\ nextHandle' = h
    /\ wrapped' = (wrapped \/ h <= nextHandle)
    /\ serial' = serial + 1
    /\ kind' = [kind EXCEPT ![serial + 1] = k]
    /\ handleOf' = [handleOf EXCEPT ![serial + 1] = h]
    /\ refs' = [refs EXCEPT ![serial + 1] = 1]

CreateColorBuffer(h) ==
    /\ Issue("colorbuffer", h)
    /\ colorbuffers' = [colorbuffers EXCEPT ![h] = serial + 1]
    /\ refcount' = [refcount EXCEPT ![h] = 1]
    /\ UNCHANGED <<contexts, windows>>

CreateRenderContext(h) ==
    /\ Issue("context", h)
    /\ contexts' = [contexts EXCEPT ![h] = serial + 1]
    /\ UNCHANGED <<windows, colorbuffers, refcount>>

CreateWindowSurface(h) ==
    /\ Issue("window", h)
    /\ windows' = [windows EXCEPT ![h] = serial + 1]
    /\ UNCHANGED <<contexts, colorbuffers, refcount>>

-----------------------------------------------------------------------------
(* Clients act on objects they hold a reference to, by its handle. *)

DestroyRenderContext(s) ==
    /\ kind[s] = "context" /\ refs[s] > 0
    /\ contexts' = [contexts EXCEPT ![handleOf[s]] = 0]
    /\ refs' = [refs EXCEPT ![s] = 0]
    /\ UNCHANGED <<nextHandle, wrapped, windows, colorbuffers, refcount, objects>>

DestroyWindowSurface(s) ==
    /\ kind[s] = "window" /\ refs[s] > 0
    /\ windows' = [windows EXCEPT ![handleOf[s]] = 0]
    /\ refs' = [refs EXCEPT ![s] = 0]
    /\ UNCHANGED <<nextHandle, wrapped, contexts, colorbuffers, refcount, objects>>

\* mutant: the reference is not counted
OpenUncounted(s) ==
    /\ kind[s] = "colorbuffer" /\ refs[s] > 0 /\ refs[s] < MaxRefs
    /\ refs' = [refs EXCEPT ![s] = @ + 1]
    /\ UNCHANGED <<nextHandle, wrapped, tables, objects>>

\* another client takes a reference; a handle that is not found is ignored
OpenColorBuffer(s) ==
    /\ kind[s] = "colorbuffer" /\ refs[s] > 0
    /\ refs[s] < MaxRefs /\ refcount[handleOf[s]] < MaxRefs
    /\ refs' = [refs EXCEPT ![s] = @ + 1]
    /\ refcount' = IF colorbuffers[handleOf[s]] = 0 THEN refcount
                   ELSE [refcount EXCEPT ![handleOf[s]] = @ + 1]
    /\ UNCHANGED <<nextHandle, wrapped, contexts, windows, colorbuffers, objects>>

\* mutant: a handle that is not found is not ignored
CloseUnchecked(s) ==
    /\ kind[s] = "colorbuffer" /\ refs[s] > 0
    /\ refs' = [refs EXCEPT ![s] = @ - 1]
    /\ LET h == handleOf[s] IN
       /\ refcount' = [refcount EXCEPT ![h] = @ - 1]
       /\ colorbuffers' = IF refcount[h] = 1 THEN [colorbuffers EXCEPT ![h] = 0]
                          ELSE colorbuffers
    /\ UNCHANGED <<nextHandle, wrapped, contexts, windows, objects>>

\* the entry is erased when the count reaches zero
CloseColorBuffer(s) ==
    /\ kind[s] = "colorbuffer" /\ refs[s] > 0
    /\ refs' = [refs EXCEPT ![s] = @ - 1]
    /\ LET h == handleOf[s] IN
       IF colorbuffers[h] = 0
       THEN UNCHANGED <<colorbuffers, refcount>>
       ELSE /\ refcount' = [refcount EXCEPT ![h] = @ - 1]
            /\ colorbuffers' = IF refcount[h] = 1 THEN [colorbuffers EXCEPT ![h] = 0]
                               ELSE colorbuffers
    /\ UNCHANGED <<nextHandle, wrapped, contexts, windows, objects>>

\* a client that holds a reference dies: its render thread leaves Main, which
\* releases the EGL context and returns nothing to the tables
ClientDies(s) ==
    /\ refs[s] > 0
    /\ refs' = [refs EXCEPT ![s] = @ - 1]
    /\ UNCHANGED <<nextHandle, wrapped, tables, objects>>

\* finalize(): every client is gone; s_nextHandle is static and goes on
Finalize ==
    /\ contexts' = [h \in Handles |-> 0]
    /\ windows' = [h \in Handles |-> 0]
    /\ colorbuffers' = [h \in Handles |-> 0]
    /\ refcount' = [h \in Handles |-> 0]
    /\ refs' = [s \in Serials |-> 0]
    /\ UNCHANGED <<nextHandle, wrapped, objects>>

Next ==
    \/ \E h \in Handles : \/ CreateColorBuffer(h)
                          \/ CreateRenderContext(h)
                          \/ CreateWindowSurface(h)
    \/ \E s \in Serials : \/ DestroyRenderContext(s)
                          \/ DestroyWindowSurface(s)
                          \/ OpenColorBuffer(s)
                          \/ CloseColorBuffer(s)
                          \/ ClientDies(s)
    \/ Finalize

Spec == Init /\ [][Next]_vars

-----------------------------------------------------------------------------
TypeOK ==
    /\ nextHandle \in Handles /\ wrapped \in BOOLEAN
    /\ contexts \in [Handles -> 0 .. MaxSerial]
    /\ windows \in [Handles -> 0 .. MaxSerial]
    /\ colorbuffers \in [Handles -> 0 .. MaxSerial]
    /\ refcount \in [Handles -> Nat]
    /\ serial \in 0 .. MaxSerial
    /\ kind \in [Serials -> {"none", "colorbuffer", "context", "window"}]
    /\ handleOf \in [Serials -> Handles]
    /\ refs \in [Serials -> Nat]

\* A context or surface handle a client holds names the object it was given
\* for, whatever genHandle did since, wrap-around included: neither is ever
\* replaced by a later creation that got the same number.
HandlesResolve ==
    \A s \in Serials : refs[s] > 0 =>
        /\ kind[s] = "context" => contexts[handleOf[s]] = s
        /\ kind[s] = "window" => windows[handleOf[s]] = s

\* "number of client-side references" (FrameBuffer.h:31): the entry of a color
\* buffer some client references is the buffer's own and counts every reference.
BufferKept(s) ==
    kind[s] = "colorbuffer" /\ refs[s] > 0 =>
        colorbuffers[handleOf[s]] = s /\ refcount[handleOf[s]] >= refs[s]

\* The host never drops a color buffer some client still references, until the
\* 32-bit handle counter wraps: open and close from any clients in any order,
\* and clients that die, never free a buffer early.
BuffersKeptUntilWrap == ~wrapped => \A s \in Serials : BufferKept(s)
=============================================================================
