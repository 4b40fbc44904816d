---------------------------- MODULE FrameBuffer ----------------------------
(***************************************************************************)
(* The objects behind the handles: contexts, window surfaces and color     *)
(* buffers, the binding a render thread keeps in its RenderThreadInfo, and *)
(* the binding EGL keeps for it (FrameBuffer.cpp, WindowSurface.cpp,       *)
(* ColorBuffer.cpp, RenderContext.cpp, ThreadInfo.cpp, RenderThread.cpp).  *)
(*                                                                         *)
(* Every operation runs under m_lock and is one step of a render thread.   *)
(* Handles are not reused here (HandleTables has the counter), so a handle *)
(* stands for its object.  The objects are reference counted by SmartPtr:  *)
(* an object exists as long as a table, a RenderThreadInfo or another      *)
(* object that exists points to it.                                        *)
(*                                                                         *)
(* A color buffer is written with the FrameBuffer's own EGL context, which *)
(* bind_locked makes current and unbind_locked replaces by the binding it  *)
(* found.  EGL lets a context be current in one thread only: a thread that *)
(* does not give it back stops every other one.                            *)
(***************************************************************************)
EXTENDS Integers, FiniteSets

CONSTANTS
    Threads, Contexts, Windows, Buffers,  \* render threads and handles
    Sizes,        \* the dimensions of a surface or buffer: <<width, height>>
    Null,         \* a NULL SmartPtr, EGL_NO_CONTEXT, EGL_NO_SURFACE
    FBContext,    \* m_eglContext of the FrameBuffer
    FBSurface,    \* m_pbufSurface or the subwindow's surface
    MaxGen,       \* bound on the pbuffers made for one window surface
    Rules,        \* the rules clients keep, a subset of AllRules
    EglMayFail    \* can eglCreatePbufferSurface fail?

ASSUME NullAssumption ==
    Null \notin Threads \cup Contexts \cup Windows \cup Buffers \cup {FBContext, FBSurface}
ASSUME FBContextAssumption == FBContext \notin Contexts
ASSUME MaxGenAssumption == MaxGen \in Nat \ {0}
ASSUME SizesAssumption == Sizes \subseteq Nat \X Nat
ASSUME SurfacesAssumption == {Null, FBSurface} \cap (Windows \X (1 .. MaxGen)) = {}

\* What the guest's EGL library and the applications above it can respect:
\*   "attach": no buffer of another size than the surface's is attached to a
\*             surface current in another thread;
\*   "flush":  only the current draw surface of the thread is flushed;
\*   "unbind": a thread with nothing bound does not unbind (egl.cpp:939).
\* The server itself enforces none of them.
AllRules == {"attach", "flush", "unbind"}

ASSUME RulesAssumption == Rules \subseteq AllRules /\ EglMayFail \in BOOLEAN

VARIABLES
    made,     \* handles that were returned by a creation
    table,    \* handles in m_contexts, m_windows and m_colorbuffers
    win,      \* the members of each WindowSurface
    cbSize,   \* m_width, m_height of each ColorBuffer
    tinfo,    \* RenderThreadInfo: currContext, currDrawSurf, currReadSurf
    egl,      \* EGL's current context and surfaces of each thread
    prev,     \* m_prevContext, m_prevDrawSurf, m_prevReadSurf
    ended,    \* render threads that left RenderThread::Main
    crashed   \* a NULL RenderContext was dereferenced

vars == <<made, table, win, cbSize, tinfo, egl, prev, ended, crashed>>

\* an EGL surface is a pbuffer of a window, numbered in order of creation
EglSurfaces == (Windows \X (1 .. MaxGen)) \cup {FBSurface, Null}

Unbound == [ctx |-> Null, draw |-> Null, read |-> Null]
FBBinding == [ctx |-> FBContext, draw |-> FBSurface, read |-> FBSurface]

\* size, pbuf: m_width/m_height, m_pbufWidth/m_pbufHeight; gen: pbuffers made;
\* live: m_eglSurface # NULL; cb: m_attachedColorBuffer; draw, read: contexts
NewWindow == [size |-> Null, pbuf |-> Null, gen |-> 0, live |-> FALSE,
              cb |-> Null, draw |-> Null, read |-> Null]

Init ==
    /\ made = {} /\ table = {}
    /\ win = [w \in Windows |-> NewWindow]
    /\ cbSize = [b \in Buffers |-> Null]
    /\ tinfo = [t \in Threads |-> Unbound]
    /\ egl = [t \in Threads |-> Unbound]
    /\ prev = Unbound /\ ended = {}
    /\ crashed = FALSE

\* dimensions for which setColorBuffer does not resize the pbuffer, and for
\* which blitToColorBuffer has nothing to copy
NoArea(size) == size[1] = 0 \/ size[2] = 0
Empty == <<0, 0>>

-----------------------------------------------------------------------------
(* SmartPtr: which objects exist, given tables tb, thread infos ti and the  *)
(* window surfaces ws.                                                      *)

WindowExists(w, tb, ti) ==
    w \in tb \/ \E t \in Threads : w \in {ti[t].draw, ti[t].read}

ContextExists(c, tb, ti, ws) ==
    \/ c \in tb \/ \E t \in Threads : ti[t].ctx = c
    \/ \E w \in Windows : WindowExists(w, tb, ti) /\ c \in {ws[w].draw, ws[w].read}

BufferExists(b, tb, ti, ws) ==
    b \in tb \/ \E w \in Windows : WindowExists(w, tb, ti) /\ ws[w].cb = b

\* how many ~ColorBuffer run when the tables, thread infos and windows become
\* tb, ti and ws
DeadBuffers(tb, ti, ws) ==
    Cardinality({b \in Buffers : BufferExists(b, table, tinfo, win)
                                 /\ ~BufferExists(b, tb, ti, ws)})

-----------------------------------------------------------------------------
(* EGL *)

EglSurface(w) == IF win[w].live THEN <<w, win[w].gen>> ELSE Null

SurfaceValid(s, tb, ti, ws) ==
    \/ s = FBSurface
    \/ \E w \in Windows : /\ WindowExists(w, tb, ti)
                          /\ ws[w].live /\ s = <<w, ws[w].gen>>

\* eglMakeCurrent of binding b in thread t succeeds, the others being as in e
MakeCurrentOK(t, b, e, tb, ti, ws) ==
    \/ b = Unbound
    \/ /\ b.ctx = FBContext \/ (b.ctx \in Contexts /\ ContextExists(b.ctx, tb, ti, ws))
       /\ SurfaceValid(b.draw, tb, ti, ws) /\ SurfaceValid(b.read, tb, ti, ws)
       /\ \A u \in Threads \ {t} :
             e[u].ctx # b.ctx /\ {e[u].draw, e[u].read} \cap {b.draw, b.read} = {}

\* eglMakeCurrent: a failure leaves the thread's binding as it was
MakeCurrent(t, b, e, tb, ti, ws) ==
    IF MakeCurrentOK(t, b, e, tb, ti, ws) THEN [e EXCEPT ![t] = b] ELSE e

-----------------------------------------------------------------------------
(* bind_locked ... unbind_locked in thread t.  A state of EGL is a record    *)
(* of the bindings e and of the FrameBuffer's m_prev members p.              *)

BindOK(t, e) == \A u \in Threads \ {t} : e[u].ctx # FBContext

\* unbind_locked, after a bind_locked that succeeded or not
UnbindLocked(t, st, tb, ti, ws) ==
    IF MakeCurrentOK(t, st.p, st.e, tb, ti, ws)
    THEN [e |-> [st.e EXCEPT ![t] = st.p], p |-> Unbound]
    ELSE st

BindLocked(t, st) ==
    IF BindOK(t, st.e)
    THEN [e |-> [st.e EXCEPT ![t] = FBBinding], p |-> st.e[t]]
    ELSE st

\* mutant: the previous binding is not restored
SectionWithoutUnbind(t, st, tb, ti, ws) == BindLocked(t, st)

\* a caller that gives up when bind_locked fails: create, subUpdate, post, blit
Section(t, st, tb, ti, ws) ==
    IF BindOK(t, st.e) THEN UnbindLocked(t, BindLocked(t, st), tb, ti, ws) ELSE st

\* ~ColorBuffer, which calls unbind_locked even when bind_locked failed
Destructor(t, st, tb, ti, ws) == UnbindLocked(t, BindLocked(t, st), tb, ti, ws)

\* n destructors in a row: after the second, a further one changes nothing
Destructors(n, t, st, tb, ti, ws) ==
    IF n = 0 THEN st
    ELSE IF n = 1 THEN Destructor(t, st, tb, ti, ws)
    ELSE Destructor(t, Destructor(t, st, tb, ti, ws), tb, ti, ws)

EglState == [e |-> egl, p |-> prev]
SetEgl(st) == egl' = st.e /\ prev' = st.p

-----------------------------------------------------------------------------
(* Creation and destruction *)

CreateRenderContext(c) ==
    /\ ~crashed /\ c \in Contexts \ made
    /\ made' = made \cup {c} /\ table' = table \cup {c}
    /\ UNCHANGED <<win, cbSize, tinfo, egl, prev, crashed, ended>>

CreateWindowSurface(w, size) ==
    /\ ~crashed /\ w \in Windows \ made
    /\ made' = made \cup {w} /\ table' = table \cup {w}
    /\ win' = [win EXCEPT ![w] = [NewWindow EXCEPT !.size = size, !.pbuf = size,
                                                   !.gen = 1, !.live = TRUE]]
    /\ UNCHANGED <<cbSize, tinfo, egl, prev, crashed, ended>>

\* ColorBuffer::create returns NULL if bind_locked fails
CreateColorBuffer(t, b, size) ==
    /\ ~crashed /\ b \in Buffers \ made /\ BindOK(t, egl)
    /\ made' = made \cup {b} /\ table' = table \cup {b}
    /\ cbSize' = [cbSize EXCEPT ![b] = size]
    /\ SetEgl(Section(t, EglState, table, tinfo, win))
    /\ UNCHANGED <<win, tinfo, crashed, ended>>

\* DestroyRenderContext, DestroyWindowSurface and the closeColorBuffer that
\* drops the last reference: the handle is erased, the object may live on
EraseHandle(t, h) ==
    /\ ~crashed /\ h \in table
    /\ table' = table \ {h}
    /\ SetEgl(Destructors(DeadBuffers(table \ {h}, tinfo, win), t, EglState,
                          table \ {h}, tinfo, win))
    /\ UNCHANGED <<made, win, cbSize, tinfo, crashed, ended>>

-----------------------------------------------------------------------------
(* bindContext *)

\* mutant: the surface is told only about its read context
BoundForReading(c, d, r, same) ==
    IF d = Null \/ r = Null THEN win ELSE [win EXCEPT ![r].read = c]

\* the surfaces after WindowSurface::bind for context c, draw d and read r;
\* "same": p_readSurface = p_drawSurface, as it also is when unbinding
BoundWindows(c, d, r, same) ==
    IF d = Null \/ r = Null THEN win
    ELSE IF same THEN [win EXCEPT ![d].draw = c, ![d].read = c]
    ELSE [w \in Windows |-> [win[w] EXCEPT !.draw = IF w = d THEN c ELSE @,
                                           !.read = IF w = r THEN c ELSE @]]

\* bindContext after eglMakeCurrent succeeded with binding b
Rebind(t, b, c, d, r, same) ==
    LET ws == BoundWindows(c, d, r, same)
        ti == [tinfo EXCEPT ![t] = [ctx |-> c, draw |-> d, read |-> r]]
        n  == DeadBuffers(table, ti, ws)
    IN  /\ win' = ws /\ tinfo' = ti
        /\ SetEgl(Destructors(n, t, [e |-> [egl EXCEPT ![t] = b], p |-> prev],
                              table, ti, ws))
        /\ UNCHANGED <<made, table, cbSize, crashed, ended>>

\* bad handles, and an eglMakeCurrent that fails, change nothing
BindContext(t, c, d, r) ==
    /\ ~crashed /\ {c, d, r} \subseteq table
    /\ LET b == [ctx |-> c, draw |-> EglSurface(d), read |-> EglSurface(r)] IN
       /\ MakeCurrentOK(t, b, egl, table, tinfo, win)
       /\ Rebind(t, b, c, d, r, d = r)

\* mutant: eglMakeCurrent is skipped when there is nothing to bind
UnbindKeepsEgl(t) ==
    /\ ~crashed /\ ("unbind" \in Rules => tinfo[t].ctx # Null)
    /\ Rebind(t, egl[t], Null, tinfo[t].draw, tinfo[t].read, TRUE)

\* bindContext(0, 0, 0): draw and read are taken from the RenderThreadInfo
UnbindContext(t) ==
    /\ ~crashed /\ ("unbind" \in Rules => tinfo[t].ctx # Null)
    /\ Rebind(t, Unbound, Null, tinfo[t].draw, tinfo[t].read, TRUE)

-----------------------------------------------------------------------------
(* Color buffers *)

MayAttach(t, w, b) ==
    "attach" \in Rules =>
        \/ cbSize[b] = win[w].size
        \/ \A u \in Threads \ {t} :
              EglSurface(w) = Null \/ EglSurface(w) \notin {egl[u].draw, egl[u].read}

\* resizePbuffer of window w to size in thread t, from the EGL state st.  The
\* surface is unbound only from the calling thread
NeedRebind(t, w, st) == win[w].live /\ EglSurface(w) \in {st.e[t].draw, st.e[t].read}

\* mutant: the size of the new pbuffer is not recorded
ResizedUnrecorded(ws, w, size, created) ==
    IF created
    THEN [ws EXCEPT ![w].size = size, ![w].live = TRUE, ![w].gen = @ + 1]
    ELSE [ws EXCEPT ![w].size = size, ![w].live = FALSE]

Resized(ws, w, size, created) ==
    IF created
    THEN [ws EXCEPT ![w].size = size, ![w].pbuf = size, ![w].live = TRUE, ![w].gen = @ + 1]
    ELSE [ws EXCEPT ![w].size = size, ![w].live = FALSE]

RebindResized(t, w, st, ws, created) ==
    LET new(s) == IF s = EglSurface(w) THEN <<w, ws[w].gen>> ELSE s
        b == [ctx |-> st.e[t].ctx, draw |-> new(st.e[t].draw), read |-> new(st.e[t].read)]
        released == [st.e EXCEPT ![t] = Unbound]
    IN  IF ~NeedRebind(t, w, st) THEN st
        ELSE IF created
        THEN [e |-> MakeCurrent(t, b, released, table, tinfo, ws), p |-> st.p]
        ELSE [e |-> released, p |-> st.p]

\* setColorBuffer: attach, destroying the buffer that was attached if it was
\* the last reference; if the dimensions differ the surface takes them over, and
\* its pbuffer is resized unless it has none or one without area
SetWindowSurfaceColorBuffer(t, w, b) ==
    /\ ~crashed /\ w \in table /\ b \in table /\ MayAttach(t, w, b)
    /\ LET attached == [win EXCEPT ![w].cb = b]
           st == Destructors(DeadBuffers(table, tinfo, attached), t, EglState,
                             table, tinfo, attached)
       IN \/ /\ cbSize[b] = win[w].size
             /\ win' = attached /\ SetEgl(st)
          \/ /\ cbSize[b] # win[w].size /\ NoArea(win[w].pbuf)
             /\ win' = [attached EXCEPT ![w].size = cbSize[b]] /\ SetEgl(st)
          \/ /\ cbSize[b] # win[w].size /\ ~NoArea(win[w].pbuf) /\ win[w].gen < MaxGen
             /\ \E created \in {TRUE} \cup {~EglMayFail} :
                   LET ws == Resized(attached, w, cbSize[b], created) IN
                   win' = ws /\ SetEgl(RebindResized(t, w, st, ws, created))
    /\ UNCHANGED <<made, table, cbSize, tinfo, crashed, ended>>

\* what flushWindowSurfaceColorBuffer(w) in thread t does to the buffer
FlushBinding(w) ==
    [ctx |-> win[w].draw, draw |-> EglSurface(w), read |-> EglSurface(w)]
FlushOutcome(t, w) ==
    IF \/ win[w].cb = Null \/ win[w].size = Empty
       \/ cbSize[win[w].cb] # win[w].size
    THEN "nothing to do"
    ELSE IF win[w].draw = Null THEN "null context"
    ELSE IF ~MakeCurrentOK(t, FlushBinding(w), egl, table, tinfo, win) THEN "not current"
    ELSE IF tinfo[t].ctx = Null \/ ~BindOK(t, egl) THEN "not copied"
    ELSE "updated"

\* blitToColorBuffer: bind the surface, copy, restore the thread's binding
FlushWindowSurfaceColorBuffer(t, w) ==
    /\ ~crashed /\ w \in table
    /\ "flush" \in Rules => egl[t].draw = EglSurface(w) /\ win[w].live
    /\ LET outcome == FlushOutcome(t, w)
           bound == [e |-> [egl EXCEPT ![t] = FlushBinding(w)], p |-> prev]
           st == IF outcome = "updated" THEN Section(t, bound, table, tinfo, win) ELSE bound
       IN \/ /\ outcome \in {"nothing to do", "not current"}
             /\ UNCHANGED <<egl, prev, crashed>>
          \/ /\ outcome = "null context"
             /\ crashed' = TRUE /\ UNCHANGED <<egl, prev>>
          \/ /\ outcome \in {"updated", "not copied"}
             /\ egl' = MakeCurrent(t, egl[t], st.e, table, tinfo, win)
             /\ prev' = st.p /\ UNCHANGED crashed
    /\ UNCHANGED <<made, table, win, cbSize, tinfo, ended>>

\* mutant: the handle is looked up with operator[], which inserts it
UseInserting(t, b) ==
    /\ ~crashed /\ b \in Buffers
    /\ table' = table \cup {b}
    /\ SetEgl(Section(t, EglState, table, tinfo, win))
    /\ UNCHANGED <<made, win, cbSize, tinfo, crashed, ended>>

\* updateColorBuffer and post: the buffer is read or written under a Section
UseColorBuffer(t, b) ==
    /\ ~crashed /\ b \in table \cap Buffers
    /\ SetEgl(Section(t, EglState, table, tinfo, win))
    /\ UNCHANGED <<made, table, win, cbSize, tinfo, crashed, ended>>

\* RenderThread::Main ends: the EGL binding is released, without m_lock, and
\* the RenderThreadInfo stays, with the objects it points to
ThreadEnds(t) ==
    /\ ~crashed
    /\ egl' = [egl EXCEPT ![t] = Unbound]
    /\ ended' = ended \cup {t}
    /\ UNCHANGED <<made, table, win, cbSize, tinfo, prev, crashed>>

Next ==
    \/ \E c \in Contexts : CreateRenderContext(c)
    \/ \E w \in Windows, size \in Sizes : CreateWindowSurface(w, size)
    \/ \E t \in Threads \ ended :
          \/ \E b \in Buffers, size \in Sizes : CreateColorBuffer(t, b, size)
          \/ \E h \in table : EraseHandle(t, h)
          \/ \E c \in Contexts, d, r \in Windows : BindContext(t, c, d, r)
          \/ UnbindContext(t)
          \/ \E w \in Windows, b \in Buffers : SetWindowSurfaceColorBuffer(t, w, b)
          \/ \E w \in Windows : FlushWindowSurfaceColorBuffer(t, w)
          \/ \E b \in Buffers : UseColorBuffer(t, b)
          \/ ThreadEnds(t)

Spec == Init /\ [][Next]_vars

-----------------------------------------------------------------------------
EglBindings == [ctx : Contexts \cup {FBContext, Null}, draw : EglSurfaces, read : EglSurfaces]

WindowSurfaces == [size : Sizes \cup {Null}, pbuf : Sizes \cup {Null}, gen : 0 .. MaxGen,
                   live : BOOLEAN, cb : Buffers \cup {Null},
                   draw : Contexts \cup {Null}, read : Contexts \cup {Null}]

ThreadInfos == [ctx : Contexts \cup {Null}, draw : Windows \cup {Null},
                read : Windows \cup {Null}]

TypeOK ==
    /\ made \subseteq Contexts \cup Windows \cup Buffers
    /\ table \subseteq made
    /\ win \in [Windows -> WindowSurfaces]
    /\ cbSize \in [Buffers -> Sizes \cup {Null}]
    /\ tinfo \in [Threads -> ThreadInfos]
    /\ egl \in [Threads -> EglBindings]
    /\ prev \in EglBindings
    /\ ended \subseteq Threads
    /\ crashed \in BOOLEAN

\* "XXX: should never happen" (WindowSurface.cpp:149): the surface and the buffer
\* attached to it have the same dimensions, and so has the pbuffer it draws on
\* unless that has no area, through every order of attaching, resizing and failing
\* to resize.  (A pbuffer without area is never replaced, WindowSurface.cpp:109.)
BlitSizesAgree ==
    \A w \in Windows :
        /\ win[w].cb # Null => cbSize[win[w].cb] = win[w].size
        /\ win[w].live /\ ~NoArea(win[w].pbuf) => win[w].pbuf = win[w].size

\* "unbind from the FrameBuffer context" (ColorBuffer.cpp:224), "restore
\* previous binding" (FrameBuffer.cpp:861): no operation leaves the
\* FrameBuffer's context current in a thread, where it would make bind_locked
\* fail in every other thread.
FBContextReleased == \A t \in Threads : egl[t].ctx # FBContext

\* The GL commands a thread decodes run in the context its client made current
\* with rcMakeCurrent, or in none, never in another client's.
RendersIntoOwnContext == \A t \in Threads : egl[t].ctx \in {tinfo[t].ctx, Null}

\* "The function makes sure that the previous attached color buffer is updated"
\* (WindowSurface.cpp:79-83), at least for the thread that has the surface
\* current, if it has dimensions at all: the draw context the surface remembers
\* is the thread's own, and nothing other threads do makes the copy fail.
FlushOfCurrentUpdates ==
    \A t \in Threads, w \in Windows :
        /\ w \in table /\ win[w].live /\ egl[t].draw = EglSurface(w)
        /\ win[w].cb # Null /\ win[w].size # Empty
        => FlushOutcome(t, w) = "updated"
=============================================================================
