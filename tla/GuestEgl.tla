------------------------------ MODULE GuestEgl ------------------------------
(***************************************************************************)
(* The guest's EGL library (system/egl/egl.cpp) on top of the host's       *)
(* FrameBuffer: contexts and window surfaces of one guest process, the     *)
(* context each of its threads has current, and the render control calls   *)
(* it makes over each thread's connection.                                 *)
(*                                                                         *)
(* egl.cpp takes no lock.  eglMakeCurrent is three steps: the checks and   *)
(* the call, its execution by the host, the local bind.  rcMakeCurrent,    *)
(* rcFlushWindowColorBuffer and the creations have results and wait for    *)
(* the host; rcSetWindowColorBuffer and the destructions are only put into *)
(* the connection's write buffer, and the host executes them later, in the *)
(* order of the connection.                                                *)
(*                                                                         *)
(* A guest surface lives at an address, which can be allocated again once  *)
(* it is deleted: egl.cpp compares surfaces by address, the host by handle.*)
(*                                                                         *)
(* The host's part of every step is the action of FrameBuffer, whose Rules *)
(* are empty here: what they say must follow from the guest's code and     *)
(* from GuestRules.  All windows have one size, which they keep.           *)
(***************************************************************************)
EXTENDS FrameBuffer, Sequences

CONSTANTS
    Addrs,       \* where guest surfaces are allocated
    MaxPending,  \* bound on the calls of a thread the host has not executed
    GuestRules   \* what applications refrain from, a subset of AllGuestRules

\* What applications may refrain from.  EGL permits the first three and has the
\* library sort them out, and makes the last two errors; egl.cpp does neither:
\*   "destroy": no context is destroyed while another thread has it current;
\*   "surface": no surface is destroyed while a thread has it current;
\*   "release": a thread releases its context before it ends;
\*   "swap":    a thread swaps only the draw surface it has current;
\*   "match":   a context is made current with both surfaces.
AllGuestRules == {"destroy", "surface", "release", "swap", "match"}

ASSUME GuestRulesAssumption == GuestRules \subseteq AllGuestRules
ASSUME AddrsAssumption == Null \notin Addrs
ASSUME MaxPendingAssumption == MaxPending \in Nat

\* genHandle numbers all objects with one counter (FrameBuffer.cpp:472), which
\* does not wrap here (HandleTables has its wrap)
ASSUME HandlesAssumption ==
    Contexts \cap Windows = {} /\ Buffers \cap (Contexts \cup Windows) = {}

VARIABLES
    cur,       \* tInfo->currentContext
    flag,      \* contexts with IS_CURRENT in their flags
    bound,     \* draw and read of each context
    alive,     \* contexts that are not deleted
    surf,      \* the rcSurface of the egl_window_surface_t at each address
    dequeued,  \* the buffer each window surface has dequeued
    call,      \* the eglMakeCurrent each thread is in
    pending,   \* calls without result the host has not executed
    astray     \* history: windows whose first attachment was executed after a
               \* later one, or never, until a swap attaches the next buffer

egls == <<cur, flag, bound, alive>>
gvars == <<egls, surf, dequeued, call, pending, astray>>
allvars == <<vars, gvars>>

NoSurfaces == [draw |-> Null, read |-> Null]
Idle == [at |-> "idle", ctx |-> Null, draw |-> Null, read |-> Null, destroy |-> FALSE]

\* the process starts when gralloc has allocated the buffers of its windows
GuestInit ==
    /\ made = Buffers /\ table = Buffers
    /\ \E size \in Sizes : cbSize = [b \in Buffers |-> size]
    /\ win = [w \in Windows |-> NewWindow]
    /\ tinfo = [t \in Threads |-> Unbound]
    /\ egl = [t \in Threads |-> Unbound]
    /\ prev = Unbound /\ ended = {} /\ crashed = FALSE
    /\ cur = [t \in Threads |-> Null]
    /\ flag = {} /\ alive = {}
    /\ bound = [c \in Contexts |-> NoSurfaces]
    /\ surf = [a \in Addrs |-> Null]
    /\ dequeued = [w \in Windows |-> Null]
    /\ call = [t \in Threads |-> Idle]
    /\ pending = [t \in Threads |-> <<>>]
    /\ astray = {}

-----------------------------------------------------------------------------
(* Connections *)

\* getRcSurface()
Handle(a) == IF a = Null THEN Null ELSE surf[a]

\* a call without result is put into the write buffer
Sent(t, c) == [pending EXCEPT ![t] = Append(@, c)]
CanSend(t) == Len(pending[t]) < MaxPending

\* what a thread called before has been executed, as before every result
Executed(t) == pending[t] = <<>>

\* rcSetWindowColorBuffer from eglCreateWindowSurface, which does not flush the
\* connection, and from eglSwapBuffers, which does
AttachCall(w, b) == [op |-> "attach", target |-> w, buffer |-> b]
SetCall(w, b) == [op |-> "set", target |-> w, buffer |-> b]
DestroyCall(h) == [op |-> "destroy", target |-> h, buffer |-> Null]

\* the first attachment of window w is on its way on the connection of thread t
FirstAttachment(t, w) ==
    pending[t] # <<>> /\ Head(pending[t]).op = "attach" /\ Head(pending[t]).target = w

\* astray after call c of t was executed
AstrayAfter(c) ==
    IF c.op = "set" THEN astray \ {c.target}
    ELSE IF win[c.target].cb # Null THEN astray \cup {c.target}
    ELSE astray

\* the host executes the next call; handles it does not find are ignored
HostExecutes(t) ==
    /\ pending[t] # <<>>
    /\ LET c == Head(pending[t]) IN
       \/ /\ c.op \in {"attach", "set"}
          /\ \/ SetWindowSurfaceColorBuffer(t, c.target, c.buffer)
             \/ ~({c.target, c.buffer} \subseteq table) /\ UNCHANGED vars
          /\ astray' = AstrayAfter(c)
       \/ c.op = "destroy" /\ EraseHandle(t, c.target) /\ UNCHANGED astray
    /\ pending' = [pending EXCEPT ![t] = Tail(@)]
    /\ UNCHANGED <<egls, surf, dequeued, call>>

-----------------------------------------------------------------------------
(* Contexts and surfaces *)

InCall(t) == call[t].at # "idle"

EglCreateContext(t, c) ==
    /\ ~InCall(t) /\ Executed(t)
    /\ CreateRenderContext(c)
    /\ alive' = alive \cup {c}
    /\ UNCHANGED <<cur, flag, bound, surf, dequeued, call, pending, astray>>

\* mutant: rcContext is cleared before rcDestroyContext
ContextDeletedZeroed(t, c) ==
    /\ CanSend(t)
    /\ pending' = Sent(t, DestroyCall(Null))
    /\ alive' = alive \ {c}

\* rcDestroyContext, delete
ContextDeleted(t, c) ==
    /\ CanSend(t)
    /\ pending' = Sent(t, DestroyCall(c))
    /\ alive' = alive \ {c}

\* a context that is current in the calling thread is released first: that is
\* an eglMakeCurrent, and the rest of eglDestroyContext follows its local bind
EglDestroyContext(t, c) ==
    /\ ~crashed /\ ~InCall(t) /\ c \in alive
    /\ "destroy" \in GuestRules =>
           \A u \in Threads \ {t} : cur[u] # c /\ call[u].ctx # c
    /\ \/ /\ cur[t] = c
          /\ call' = [call EXCEPT ![t] = [Idle EXCEPT !.at = "sent", !.destroy = TRUE]]
          /\ UNCHANGED <<alive, pending>>
       \/ /\ cur[t] # c
          /\ ContextDeleted(t, c)
          /\ UNCHANGED call
    /\ UNCHANGED <<cur, flag, bound, surf, dequeued, astray, vars>>

\* a buffer the window's consumer and the other surfaces do not have
Dequeue(b) == b \in table \cap Buffers /\ \A w \in Windows : dequeued[w] # b

\* egl_window_surface_t::init: dequeue, rcCreateWindowSurface, attach.  An error
\* in it deletes the surface and leaves nothing
EglCreateWindowSurface(t, a, w, b) ==
    /\ ~InCall(t) /\ Executed(t) /\ CanSend(t)
    /\ surf[a] = Null /\ Dequeue(b)
    /\ CreateWindowSurface(w, cbSize[b])
    /\ surf' = [surf EXCEPT ![a] = w]
    /\ dequeued' = [dequeued EXCEPT ![w] = b]
    /\ pending' = Sent(t, AttachCall(w, b))
    /\ UNCHANGED <<egls, call, astray>>

CurrentIn(u, a) == cur[u] # Null /\ a \in {bound[cur[u]].draw, bound[cur[u]].read}

\* eglDestroySurface deletes the surface, whoever has it current
EglDestroySurface(t, a) ==
    /\ ~crashed /\ ~InCall(t) /\ surf[a] # Null /\ CanSend(t)
    /\ "surface" \in GuestRules =>
           \A u \in Threads : ~CurrentIn(u, a) /\ a \notin {call[u].draw, call[u].read}
    /\ pending' = Sent(t, DestroyCall(surf[a]))
    /\ dequeued' = [dequeued EXCEPT ![surf[a]] = Null]
    /\ surf' = [surf EXCEPT ![a] = Null]
    /\ UNCHANGED <<egls, call, astray, vars>>

\* mutant: the buffer that was dequeued is not attached
SwapUnattached(t, a) ==
    /\ ~InCall(t) /\ surf[a] # Null
    /\ "swap" \in GuestRules => cur[t] # Null /\ bound[cur[t]].draw = a
    /\ Executed(t)
    /\ FlushWindowSurfaceColorBuffer(t, surf[a])
    /\ \E b \in table \cap Buffers :
          /\ \A w \in Windows \ {surf[a]} : dequeued[w] # b
          /\ dequeued' = [dequeued EXCEPT ![surf[a]] = b]
    /\ UNCHANGED <<egls, surf, call, pending, astray>>

\* eglSwapBuffers: flush, queue, dequeue, attach, flush the connection.  When
\* dequeueBuffer fails the surface keeps no buffer, and eglSwapBuffers succeeds
EglSwapBuffers(t, a) ==
    /\ ~InCall(t) /\ surf[a] # Null
    /\ "swap" \in GuestRules => cur[t] # Null /\ bound[cur[t]].draw = a
    /\ Executed(t) /\ CanSend(t)
    /\ FlushWindowSurfaceColorBuffer(t, surf[a])
    /\ \/ \E b \in table \cap Buffers :
             /\ \A w \in Windows \ {surf[a]} : dequeued[w] # b
             /\ dequeued' = [dequeued EXCEPT ![surf[a]] = b]
             /\ pending' = Sent(t, SetCall(surf[a], b))
       \/ /\ dequeued' = [dequeued EXCEPT ![surf[a]] = Null]
          /\ UNCHANGED pending
    /\ UNCHANGED <<egls, surf, call, astray>>

-----------------------------------------------------------------------------
(* eglMakeCurrent *)

\* mutant: a thread with nothing current releases it all the same
ProceedsUnbound(t, c, d, r) ==
    /\ ~(cur[t] = c /\ c # Null /\ bound[c] = [draw |-> d, read |-> r])
    /\ ~(c \in flag /\ c # cur[t])

\* lines 939 and 945: there is a change, and no other thread has the context
Proceeds(t, c, d, r) ==
    /\ ~(cur[t] = c /\ (c = Null \/ bound[c] = [draw |-> d, read |-> r]))
    /\ ~(c \in flag /\ c # cur[t])

\* the checks, up to the call of rcMakeCurrent
EglMakeCurrent(t, c, d, r) ==
    /\ ~crashed /\ ~InCall(t)
    /\ \/ c = Null /\ d = Null /\ r = Null
       \/ c \in alive /\ ~(d = Null /\ r = Null)
    /\ "match" \in GuestRules => (d = Null <=> r = Null)
    /\ \A a \in {d, r} \ {Null} : surf[a] # Null
    /\ Proceeds(t, c, d, r)
    /\ call' = [call EXCEPT ![t] = [at |-> "sent", ctx |-> c, draw |-> d, read |-> r,
                                    destroy |-> FALSE]]
    /\ UNCHANGED <<vars, egls, surf, dequeued, pending, astray>>

\* mutant: the result of rcMakeCurrent is not looked at
RefusalIgnored(t) == [call EXCEPT ![t].at = "replied"]

\* EGL_BAD_CONTEXT
Refused(t) == [call EXCEPT ![t] = Idle]

\* rcMakeCurrent in the host; when it fails eglMakeCurrent is over
HostMakesCurrent(t) ==
    /\ call[t].at = "sent" /\ Executed(t)
    /\ LET c == call[t].ctx
           d == Handle(call[t].draw)
           r == Handle(call[t].read)
           replied == [call EXCEPT ![t].at = "replied"]
       IN \/ c = Null /\ UnbindContext(t) /\ call' = replied
          \/ c # Null /\ BindContext(t, c, d, r) /\ call' = replied
          \/ /\ c # Null /\ ~crashed
             /\ ~({c, d, r} \subseteq table
                  /\ MakeCurrentOK(t, [ctx |-> c, draw |-> EglSurface(d), read |-> EglSurface(r)],
                                   egl, table, tinfo, win))
             /\ call' = Refused(t)
             /\ UNCHANGED vars
    /\ UNCHANGED <<egls, surf, dequeued, pending, astray>>

\* mutant: the context that was current keeps IS_CURRENT
FlagKept(c, old) == IF c = Null THEN flag ELSE flag \cup {c}

\* lines 960 and 985: IS_CURRENT is set on the new context and then cleared on
\* the old one, be it the same
FlagAfter(c, old) == (IF c = Null THEN flag ELSE flag \cup {c}) \ {old}

\* the local bind, and the rest of eglDestroyContext if that was the caller
LocalBind(t) ==
    /\ ~crashed /\ call[t].at = "replied"
    /\ LET c == call[t].ctx IN
       /\ bound' = IF c = Null THEN bound
                   ELSE [bound EXCEPT ![c] = [draw |-> call[t].draw, read |-> call[t].read]]
       /\ flag' = FlagAfter(c, cur[t])
       /\ cur' = [cur EXCEPT ![t] = c]
    /\ IF call[t].destroy THEN ContextDeleted(t, cur[t]) ELSE UNCHANGED <<alive, pending>>
    /\ call' = [call EXCEPT ![t] = Idle]
    /\ UNCHANGED <<vars, surf, dequeued, astray>>

-----------------------------------------------------------------------------
\* the thread ends, and its connection with it.  What eglSwapBuffers flushed is
\* executed before the render thread ends; the calls after it are lost, as
\* ~HostConnection does not flush
ThreadExits(t) ==
    /\ ~InCall(t)
    /\ "release" \in GuestRules => cur[t] = Null
    /\ pending[t] # <<>> => Head(pending[t]).op # "set"
    /\ ThreadEnds(t)
    /\ cur' = [cur EXCEPT ![t] = Null]
    /\ astray' = astray \cup {w \in Windows : FirstAttachment(t, w) /\ win[w].cb = Null}
    /\ pending' = [pending EXCEPT ![t] = <<>>]
    /\ UNCHANGED <<flag, bound, alive, surf, dequeued, call>>

\* a buffer is posted or updated over the thread's connection (Gralloc), behind
\* the calls that are on their way
PostBuffer(t, b) ==
    /\ ~InCall(t) /\ Executed(t) /\ UseColorBuffer(t, b)
    /\ UNCHANGED gvars

GuestNext ==
    \E t \in Threads \ ended :
        \/ \E c \in Contexts : EglCreateContext(t, c) \/ EglDestroyContext(t, c)
        \/ \E a \in Addrs, w \in Windows, b \in Buffers : EglCreateWindowSurface(t, a, w, b)
        \/ \E a \in Addrs : EglDestroySurface(t, a) \/ EglSwapBuffers(t, a)
        \/ \E c \in Contexts \cup {Null}, d, r \in Addrs \cup {Null} : EglMakeCurrent(t, c, d, r)
        \/ HostMakesCurrent(t) \/ LocalBind(t) \/ HostExecutes(t) \/ ThreadExits(t)
        \/ \E b \in Buffers : PostBuffer(t, b)

GuestSpec == GuestInit /\ [][GuestNext]_allvars

-----------------------------------------------------------------------------
PendingCalls == [op : {"attach", "set", "destroy"}, target : Windows \cup Contexts,
                 buffer : Buffers \cup {Null}]

GuestTypeOK ==
    /\ TypeOK
    /\ cur \in [Threads -> Contexts \cup {Null}]
    /\ flag \subseteq Contexts /\ alive \subseteq Contexts
    /\ bound \in [Contexts -> [draw : Addrs \cup {Null}, read : Addrs \cup {Null}]]
    /\ surf \in [Addrs -> Windows \cup {Null}]
    /\ dequeued \in [Windows -> Buffers \cup {Null}]
    /\ call \in [Threads -> [at : {"idle", "sent", "replied"}, ctx : Contexts \cup {Null},
                             draw : Addrs \cup {Null}, read : Addrs \cup {Null},
                             destroy : BOOLEAN]]
    /\ pending \in [Threads -> Seq(PendingCalls)]
    /\ astray \subseteq Windows

\* Outside of eglMakeCurrent, what a guest thread believes to be current is what
\* the host renders into for it, the context and the surfaces, although egl.cpp
\* compares addresses (egl.cpp:939) and other threads destroy and create surfaces
\* meanwhile.
GuestHostAgree ==
    \A t \in Threads \ ended : ~InCall(t) =>
        /\ cur[t] = tinfo[t].ctx
        /\ cur[t] # Null => /\ Handle(bound[cur[t]].draw) = tinfo[t].draw
                            /\ Handle(bound[cur[t]].read) = tinfo[t].read

\* "Nothing to do if no binding change has made" (egl.cpp:936): when
\* eglMakeCurrent returns at once because the surfaces at addresses d and r are
\* the ones it bound, they are the ones the host has bound for the thread.
NothingToDo ==
    \A t \in Threads \ ended, d, r \in Addrs :
        /\ ~InCall(t) /\ cur[t] # Null /\ bound[cur[t]] = [draw |-> d, read |-> r]
        /\ surf[d] # Null /\ surf[r] # Null
        => surf[d] = tinfo[t].draw /\ surf[r] = tinfo[t].read

\* "context is current to another thread" (egl.cpp:946): when eglMakeCurrent
\* refuses a context for its IS_CURRENT, some thread has it current or is just
\* releasing it.  A flag left behind would lock the context out for ever.
ContextNotLockedOut ==
    \A c \in flag : \E t \in Threads \ ended : cur[t] = c

\* What FrameBuffer's Rules ask of clients, the host enforcing none of it: the
\* rcSetWindowColorBuffer of a swap finds the surface current in no other thread,
\* eglSwapBuffers flushes the surface the host has bound for the thread, and a
\* thread without a context does not unbind, although calls are executed late.
\* (A first attachment can come when another thread has the surface current.  It
\* has the size the surface was created with.)
GuestKeepsRules ==
    \A t \in Threads \ ended :
        /\ pending[t] # <<>> /\ Head(pending[t]).op = "set" =>
               LET s == EglSurface(Head(pending[t]).target) IN
               s = Null \/ \A u \in Threads \ {t} : s \notin {egl[u].draw, egl[u].read}
        /\ ~InCall(t) /\ Executed(t) /\ cur[t] # Null =>
               \A w \in Windows : Handle(bound[cur[t]].draw) = w => egl[t].draw = EglSurface(w)
        /\ call[t].at = "sent" /\ call[t].ctx = Null => tinfo[t].ctx # Null

\* A swap copies the surface into the buffer the surface has dequeued, not into
\* one the window's consumer may be reading: rcSetWindowColorBuffer, sent without
\* waiting (egl.cpp:278, 326), is executed before the next flush of the surface.
\* The exception is a surface whose creator did not flush: it has no buffer yet,
\* or its first buffer took the place of the one it has dequeued since.
SwapsIntoDequeued ==
    \A t \in Threads \ ended :
        /\ ~InCall(t) /\ Executed(t)
        /\ cur[t] # Null /\ Handle(bound[cur[t]].draw) # Null
        => LET w == surf[bound[cur[t]].draw] IN
           dequeued[w] # Null =>
               \/ win[w].cb = dequeued[w]
               \/ w \in astray
               \/ win[w].cb = Null /\ \E u \in Threads : FirstAttachment(u, w)
=============================================================================
