------------------------- MODULE FrameBuffer_proofs -------------------------
(***************************************************************************)
(* Proofs about FrameBuffer and GuestEgl, for any threads, objects, sizes  *)
(* and number of pbuffers.                                                 *)
(*                                                                         *)
(* Part 1 assumes nothing of the clients: types and dimensions.            *)
(* Part 2 assumes that clients keep "attach": every EGL binding is the one *)
(* its RenderThreadInfo stands for and no two threads share a context or a *)
(* surface, so a bind_locked is always undone by its unbind_locked.        *)
(* Part 3 adds "unbind", and an EGL that can make pbuffers: the surface a  *)
(* thread has current remembers the thread's own context.                  *)
(* Parts 4 and 5 are about GuestEgl, the guest's EGL library driving this  *)
(* FrameBuffer. Part 4 assumes nothing of the applications: types, and     *)
(* that every step of the guest is a FrameBuffer operation or a stutter.   *)
(* Part 5 assumes the AgreementRules: the guest's view of what is current  *)
(* is the host's, and the rules that Parts 2 and 3 assume are kept.        *)
(***************************************************************************)
EXTENDS GuestEgl, SequenceTheorems, TLAPS

-----------------------------------------------------------------------------
(* Part 1: types and dimensions *)

\* a pbuffer is only made for a surface that was created, and only a buffer that
\* was created is attached
PbuffersCounted == \A w \in Windows : win[w].live => w \in made /\ win[w].gen >= 1
AttachedWasMade == \A w \in Windows : win[w].cb # Null => win[w].cb \in made

SizeInv == TypeOK /\ PbuffersCounted /\ AttachedWasMade /\ BlitSizesAgree

EglStates == [e : [Threads -> EglBindings], p : EglBindings]

\* The two bindings the code writes down, and EGL's state, have their types.
LEMMA BindingTypes ==
  /\ Unbound \in EglBindings /\ FBBinding \in EglBindings
  /\ TypeOK => EglState \in EglStates
  BY DEF Unbound, FBBinding, EglBindings, EglSurfaces, TypeOK, EglState, EglStates

\* bind_locked followed by unbind_locked, in any number, keeps the type of EGL's
\* state (FrameBuffer.cpp:741-796).
LEMMA SectionTypes ==
  ASSUME NEW t \in Threads, NEW st \in EglStates, NEW tb, NEW ti, NEW ws
  PROVE  /\ Section(t, st, tb, ti, ws) \in EglStates
         /\ \A n : Destructors(n, t, st, tb, ti, ws) \in EglStates
  <1>1. ASSUME NEW s \in EglStates
        PROVE  BindLocked(t, s) \in EglStates /\ UnbindLocked(t, s, tb, ti, ws) \in EglStates
    <2>1. s.e[t] \in EglBindings /\ [s.e EXCEPT ![t] = FBBinding] \in [Threads -> EglBindings]
      BY BindingTypes DEF EglStates
    <2>2. [s.e EXCEPT ![t] = s.p] \in [Threads -> EglBindings]
      BY DEF EglStates
    <2> QED BY <1>1, <2>1, <2>2, BindingTypes DEF BindLocked, UnbindLocked, EglStates
  <1>2. ASSUME NEW s \in EglStates PROVE Destructor(t, s, tb, ti, ws) \in EglStates
    BY <1>1 DEF Destructor
  <1>3. Destructor(t, st, tb, ti, ws) \in EglStates
    BY <1>2
  <1>4. Destructor(t, Destructor(t, st, tb, ti, ws), tb, ti, ws) \in EglStates
    BY <1>2, <1>3
  <1>5. \A n : Destructors(n, t, st, tb, ti, ws) \in EglStates
    BY <1>3, <1>4 DEF Destructors
  <1>6. Section(t, st, tb, ti, ws) \in EglStates
    BY <1>1 DEF Section
  <1> QED BY <1>5, <1>6

\* The EGL surface of a window surface: its current pbuffer, or none.
LEMMA EglSurfaceTypes ==
  ASSUME TypeOK, PbuffersCounted, NEW w \in Windows
  PROVE  /\ EglSurface(w) \in EglSurfaces
         /\ win[w].live => /\ EglSurface(w) = <<w, win[w].gen>>
                           /\ win[w].gen \in 1 .. MaxGen
         /\ ~win[w].live => EglSurface(w) = Null
  <1>1. win[w].gen \in 0 .. MaxGen /\ win[w].live \in BOOLEAN
    BY DEF TypeOK, WindowSurfaces
  <1>2. win[w].live => win[w].gen \in 1 .. MaxGen
    BY <1>1, MaxGenAssumption DEF PbuffersCounted
  <1> QED BY <1>1, <1>2 DEF EglSurface, EglSurfaces

\* the surfaces ws differ from win in the contexts they remember, the draw context
\* of d, now c, being the only draw context that changed
OnlyContexts(ws, c, d, r) ==
    /\ ws \in [Windows -> WindowSurfaces]
    /\ \A w \in Windows :
         /\ ws[w].size = win[w].size /\ ws[w].pbuf = win[w].pbuf
         /\ ws[w].gen = win[w].gen /\ ws[w].live = win[w].live
         /\ ws[w].cb = win[w].cb
         /\ w # d => ws[w].draw = win[w].draw
         /\ (w = d /\ r # Null) => ws[w].draw = c

\* ws differs from win in the buffer attached to w and in w's dimensions
Attached(w, b) == [win EXCEPT ![w].cb = b]
OnlyBuffer(ws, w, b, size) ==
    /\ ws \in [Windows -> WindowSurfaces]
    /\ \A v \in Windows \ {w} : ws[v] = win[v]
    /\ ws[w].size = size /\ ws[w].pbuf = win[w].pbuf /\ ws[w].cb = b
    /\ ws[w].gen = win[w].gen /\ ws[w].live = win[w].live /\ ws[w].draw = win[w].draw

\* w has b attached and the dimensions size, with a new pbuffer or with none
OnlyPbuffer(ws, w, b, size, created) ==
    /\ ws \in [Windows -> WindowSurfaces]
    /\ \A v \in Windows \ {w} : ws[v] = win[v]
    /\ ws[w].size = size /\ ws[w].cb = b /\ ws[w].draw = win[w].draw
    /\ ws[w].live = created
    /\ created => ws[w].pbuf = size /\ ws[w].gen = win[w].gen + 1

\* WindowSurface::bind changes the contexts a surface remembers and nothing else
\* (WindowSurface.cpp:125-141).
LEMMA BoundWindowsFrame ==
  ASSUME TypeOK, NEW c \in Contexts \cup {Null}, NEW d \in Windows \cup {Null},
         NEW r \in Windows \cup {Null}, NEW same \in BOOLEAN
  PROVE  OnlyContexts(BoundWindows(c, d, r, same), c, d, r)
  <1> DEFINE ws == BoundWindows(c, d, r, same)
  <1>0. ws = BoundWindows(c, d, r, same)
    OBVIOUS
  <1> HIDE DEF ws
  <1> SUFFICES OnlyContexts(ws, c, d, r)
    BY <1>0
  <1> USE <1>0 DEF OnlyContexts
  <1>1. CASE d = Null \/ r = Null
    BY <1>1, NullAssumption DEF BoundWindows, TypeOK
  <1>2. CASE d # Null /\ r # Null
    <2> DEFINE rc(w) == IF (same /\ w = d) \/ (~same /\ w = r) THEN c ELSE win[w].read
    <2>1. \A w \in Windows : /\ win[w] \in WindowSurfaces
                             /\ rc(w) \in Contexts \cup {Null}
      BY DEF TypeOK, WindowSurfaces
    <2>2. CASE same
      <3>1. ws = [win EXCEPT ![d].draw = c, ![d].read = c]
        BY <1>2, <2>2 DEF BoundWindows
      <3>2. d \in Windows /\ win \in [Windows -> WindowSurfaces]
        BY <1>2 DEF TypeOK
      <3>3. /\ ws = [ws EXCEPT ![d] = ws[d]] /\ DOMAIN ws = Windows
            /\ \A w \in Windows \ {d} : ws[w] = win[w]
            /\ ws[d] = [win[d] EXCEPT !.draw = c, !.read = c]
        BY <3>1, <3>2
      <3>4. ws[d] \in WindowSurfaces
        BY <3>2, <3>3 DEF WindowSurfaces
      <3>5. ws \in [Windows -> WindowSurfaces]
        BY <3>1, <3>2, <3>3, <3>4
      <3>6. /\ ws[d].size = win[d].size /\ ws[d].pbuf = win[d].pbuf
            /\ ws[d].gen = win[d].gen /\ ws[d].live = win[d].live
            /\ ws[d].cb = win[d].cb /\ ws[d].draw = c
        BY <2>1, <3>2, <3>3 DEF WindowSurfaces
      <3> QED BY <3>2, <3>3, <3>5, <3>6
    <2>3. CASE ~same
      <3>1. ws = [w \in Windows |-> [win[w] EXCEPT !.draw = IF w = d THEN c ELSE @,
                                                   !.read = IF w = r THEN c ELSE @]]
        BY <1>2, <2>3 DEF BoundWindows
      <3>2. ASSUME NEW w \in Windows
            PROVE  /\ ws[w] \in WindowSurfaces
                   /\ ws[w].size = win[w].size /\ ws[w].pbuf = win[w].pbuf
                   /\ ws[w].gen = win[w].gen /\ ws[w].live = win[w].live
                   /\ ws[w].cb = win[w].cb
                   /\ ws[w].draw = IF w = d THEN c ELSE win[w].draw
        <4>1. ws[w] = [win[w] EXCEPT !.draw = IF w = d THEN c ELSE win[w].draw,
                                     !.read = IF w = r THEN c ELSE win[w].read]
          BY <3>1, <3>2
        <4>2. (IF w = d THEN c ELSE win[w].draw) \in Contexts \cup {Null}
              /\ (IF w = r THEN c ELSE win[w].read) \in Contexts \cup {Null}
              /\ win[w] \in WindowSurfaces
          BY <2>1, <3>2 DEF WindowSurfaces
        <4> HIDE <3>2
        <4> QED BY <4>1, <4>2 DEF WindowSurfaces
      <3>3. ws \in [Windows -> WindowSurfaces]
        BY <3>1, <3>2
      <3> QED BY <3>2, <3>3
    <2> QED BY <2>2, <2>3
  <1> QED BY <1>1, <1>2

\* attaching a buffer and resizing the pbuffer (WindowSurface.cpp:96-123, 173-230)
LEMMA ResizedFrame ==
  ASSUME TypeOK, NEW w \in Windows, NEW b \in Buffers, NEW size \in Sizes \cup {Null},
         NEW created \in BOOLEAN, win[w].gen < MaxGen
  PROVE  OnlyPbuffer(Resized(Attached(w, b), w, size, created), w, b, size, created)
  <1> DEFINE attached == Attached(w, b)
             ws == Resized(attached, w, size, created)
  <1>1. win[w].gen \in 0 .. MaxGen /\ win[w].gen + 1 \in 0 .. MaxGen
    BY MaxGenAssumption DEF TypeOK, WindowSurfaces
  <1>2. attached \in [Windows -> WindowSurfaces] /\ attached[w].gen = win[w].gen
        /\ (\A v \in Windows \ {w} : attached[v] = win[v])
        /\ attached[w].cb = b /\ attached[w].draw = win[w].draw
    BY DEF TypeOK, WindowSurfaces, Attached
  <1>a. ws = Resized(attached, w, size, created)
    OBVIOUS
  <1> SUFFICES OnlyPbuffer(ws, w, b, size, created)
    OBVIOUS
  <1> HIDE DEF attached, ws
  <1> USE DEF OnlyPbuffer
  <1>b. attached[w] \in WindowSurfaces
    BY <1>2
  <1>3. CASE created
    <2>1. ws = [attached EXCEPT ![w].size = size, ![w].pbuf = size, ![w].live = TRUE,
                                ![w].gen = @ + 1]
      BY <1>3, <1>a DEF Resized
    <2>2. /\ ws[w] = [attached[w] EXCEPT !.size = size, !.pbuf = size, !.live = TRUE,
                                         !.gen = @ + 1]
          /\ \A v \in Windows \ {w} : ws[v] = attached[v]
      BY <1>2, <2>1
    <2> DEFINE x == [attached[w] EXCEPT !.size = size, !.pbuf = size, !.live = TRUE]
    <2>3. /\ x \in WindowSurfaces /\ x.size = size /\ x.pbuf = size /\ x.live
          /\ x.gen = win[w].gen /\ x.cb = b /\ x.draw = win[w].draw
      BY <1>2, <1>b DEF WindowSurfaces
    <2>4. ws[w] = [x EXCEPT !.gen = x.gen + 1]
      BY <2>2
    <2> HIDE DEF x
    <2>5. /\ ws[w] \in WindowSurfaces /\ ws[w].size = size /\ ws[w].pbuf = size
          /\ ws[w].gen = win[w].gen + 1 /\ ws[w].cb = b /\ ws[w].draw = win[w].draw
      BY <1>1, <2>3, <2>4 DEF WindowSurfaces
    <2>6. ws[w].live = created
      BY <1>3, <2>3, <2>4 DEF WindowSurfaces
    <2>7. ws \in [Windows -> WindowSurfaces]
      BY <1>2, <2>1, <2>2, <2>5
    <2> QED BY <1>2, <2>2, <2>5, <2>6, <2>7
  <1>4. CASE ~created
    <2>1. ws = [attached EXCEPT ![w].size = size, ![w].live = FALSE]
      BY <1>4, <1>a DEF Resized
    <2>2. /\ ws[w] = [attached[w] EXCEPT !.size = size, !.live = FALSE]
          /\ \A v \in Windows \ {w} : ws[v] = attached[v]
      BY <1>2, <2>1
    <2>3. ws[w] \in WindowSurfaces
      BY <1>1, <1>2, <1>b, <2>2 DEF WindowSurfaces
    <2>4. ws \in [Windows -> WindowSurfaces]
      BY <1>2, <2>1, <2>2, <2>3
    <2> QED BY <1>1, <1>2, <1>4, <1>b, <2>2, <2>4 DEF WindowSurfaces
  <1> QED BY <1>3, <1>4

\* attaching a buffer of the surface's own dimensions, and taking over other
\* dimensions with the pbuffer as it is (WindowSurface.cpp:96-123)
LEMMA AttachedFrame ==
  ASSUME TypeOK, NEW w \in Windows, NEW b \in Buffers, NEW size \in Sizes \cup {Null}
  PROVE  /\ OnlyBuffer(Attached(w, b), w, b, win[w].size)
         /\ OnlyBuffer([Attached(w, b) EXCEPT ![w].size = size], w, b, size)
  <1>1. OnlyBuffer(Attached(w, b), w, b, win[w].size)
    BY DEF TypeOK, WindowSurfaces, Attached, OnlyBuffer
  <1> DEFINE attached == Attached(w, b)
             ws == [attached EXCEPT ![w].size = size]
  <1>2. /\ attached \in [Windows -> WindowSurfaces]
        /\ \A v \in Windows \ {w} : attached[v] = win[v]
        /\ attached[w].pbuf = win[w].pbuf /\ attached[w].cb = b /\ attached[w].gen = win[w].gen
        /\ attached[w].live = win[w].live /\ attached[w].draw = win[w].draw
    BY <1>1 DEF OnlyBuffer
  <1> HIDE DEF attached
  <1>3. ws[w] = [attached[w] EXCEPT !.size = size] /\ attached[w] \in WindowSurfaces
    BY <1>2
  <1>4. /\ ws[w] \in WindowSurfaces /\ ws[w].size = size
        /\ ws[w].pbuf = win[w].pbuf /\ ws[w].cb = b /\ ws[w].gen = win[w].gen
        /\ ws[w].live = win[w].live /\ ws[w].draw = win[w].draw
    BY <1>2, <1>3 DEF WindowSurfaces
  <1>5. ws \in [Windows -> WindowSurfaces] /\ \A v \in Windows \ {w} : ws[v] = win[v]
    BY <1>2, <1>4
  <1>6. OnlyBuffer(ws, w, b, size)
    BY <1>4, <1>5 DEF OnlyBuffer
  <1> QED BY <1>1, <1>6 DEF attached

\* Before the first call there is no surface and no buffer.
LEMMA InitSizeInv == Init => SizeInv
  <1> SUFFICES ASSUME Init PROVE SizeInv
    OBVIOUS
  <1>1. /\ win \in [Windows -> WindowSurfaces]
        /\ \A w \in Windows : win[w].cb = Null /\ ~win[w].live
    BY MaxGenAssumption DEF Init, NewWindow, WindowSurfaces
  <1>2. tinfo \in [Threads -> ThreadInfos]
    BY DEF Init, Unbound, ThreadInfos
  <1>3. egl \in [Threads -> EglBindings] /\ prev \in EglBindings
    BY BindingTypes DEF Init
  <1> QED BY <1>1, <1>2, <1>3
          DEF Init, SizeInv, TypeOK, PbuffersCounted, AttachedWasMade, BlitSizesAgree

\* An operation that changes the tables and EGL's state only, and takes no handle
\* away from the ones made, keeps the dimensions.
LEMMA SizeInvFrame ==
  ASSUME SizeInv, [e |-> egl', p |-> prev'] \in EglStates, crashed' \in BOOLEAN,
         ended' \subseteq Threads, tinfo' \in [Threads -> ThreadInfos],
         made \subseteq made', made' \subseteq Contexts \cup Windows \cup Buffers,
         table' \subseteq made', UNCHANGED <<win, cbSize>>
  PROVE  SizeInv'
  <1>1. TypeOK'
    BY DEF SizeInv, TypeOK, EglStates
  <1> QED BY <1>1 DEF SizeInv, PbuffersCounted, AttachedWasMade, BlitSizesAgree

\* createWindowSurface: the pbuffer has the surface's dimensions and nothing is
\* attached yet (FrameBuffer.cpp:522-534).
LEMMA CreateWindowSizes ==
  ASSUME SizeInv, NEW w, NEW size \in Sizes, CreateWindowSurface(w, size)
  PROVE  SizeInv'
  <1> USE DEF SizeInv
  <1> DEFINE new == [NewWindow EXCEPT !.size = size, !.pbuf = size, !.gen = 1, !.live = TRUE]
  <1>1. /\ new \in WindowSurfaces /\ new.cb = Null /\ new.size = size /\ new.pbuf = size
        /\ new.gen = 1 /\ new.live
    <2>1. NewWindow \in WindowSurfaces /\ NewWindow.cb = Null
      BY MaxGenAssumption DEF NewWindow, WindowSurfaces
    <2>2. 1 \in 0 .. MaxGen /\ size \in Sizes \cup {Null}
      BY MaxGenAssumption
    <2> QED BY <2>1, <2>2 DEF WindowSurfaces
  <1>2. w \in Windows /\ win' = [win EXCEPT ![w] = new]
    BY DEF CreateWindowSurface
  <1> HIDE DEF new
  <1>3. /\ win' \in [Windows -> WindowSurfaces] /\ win'[w] = new
        /\ \A v \in Windows \ {w} : win'[v] = win[v]
    BY <1>1, <1>2 DEF TypeOK
  <1>4. TypeOK'
    BY <1>2, <1>3 DEF CreateWindowSurface, TypeOK
  <1>5. PbuffersCounted' /\ AttachedWasMade'
    <2>1. made' = made \cup {w}
      BY DEF CreateWindowSurface
    <2>2. PbuffersCounted'
      BY <1>1, <1>3, <2>1 DEF PbuffersCounted
    <2>3. AttachedWasMade'
      BY <1>1, <1>3, <2>1 DEF AttachedWasMade
    <2> QED BY <2>2, <2>3
  <1>6. BlitSizesAgree'
    BY <1>1, <1>3 DEF CreateWindowSurface, BlitSizesAgree
  <1> QED BY <1>4, <1>5, <1>6

\* createColorBuffer gives dimensions to a buffer no surface has attached yet
\* (FrameBuffer.cpp:484-497).
LEMMA CreateBufferSizes ==
  ASSUME SizeInv, NEW t \in Threads, NEW b, NEW size \in Sizes,
         CreateColorBuffer(t, b, size)
  PROVE  SizeInv'
  <1> USE DEF SizeInv
  <1>1. [e |-> egl', p |-> prev'] \in EglStates
    BY SectionTypes, BindingTypes DEF CreateColorBuffer, SetEgl, EglStates
  <1>2. /\ b \in Buffers \ made /\ cbSize' = [cbSize EXCEPT ![b] = size]
        /\ made' = made \cup {b} /\ table' = table \cup {b}
        /\ UNCHANGED <<win, tinfo, crashed, ended>>
    BY DEF CreateColorBuffer
  <1>3. TypeOK'
    BY <1>1, <1>2 DEF TypeOK, EglStates
  <1>4. \A v \in Windows : win[v].cb # Null => cbSize'[win[v].cb] = cbSize[win[v].cb]
    BY <1>2 DEF AttachedWasMade, TypeOK, WindowSurfaces
  <1> QED BY <1>2, <1>3, <1>4 DEF PbuffersCounted, AttachedWasMade, BlitSizesAgree

\* Erasing a handle, using a buffer and ending: no surface and no buffer
\* changes its dimensions.
LEMMA UseSizes ==
  ASSUME SizeInv, NEW t \in Threads, NEW h, NEW b,
         EraseHandle(t, h) \/ UseColorBuffer(t, b) \/ ThreadEnds(t)
  PROVE  SizeInv'
  <1> USE DEF SizeInv
  <1>1. /\ UNCHANGED <<made, win, cbSize, tinfo>> /\ table' \subseteq table
        /\ crashed' \in BOOLEAN /\ ended' \subseteq Threads
    BY DEF EraseHandle, UseColorBuffer, ThreadEnds, TypeOK
  <1>2. CASE EraseHandle(t, h)
    <2>1. [e |-> egl', p |-> prev'] \in EglStates
      BY <1>2, SectionTypes, BindingTypes DEF EraseHandle, SetEgl, EglStates
    <2> QED BY <1>1, <2>1, SizeInvFrame DEF TypeOK
  <1>3. CASE UseColorBuffer(t, b)
    <2>1. [e |-> egl', p |-> prev'] \in EglStates
      BY <1>3, SectionTypes, BindingTypes DEF UseColorBuffer, SetEgl, EglStates
    <2> QED BY <1>1, <2>1, SizeInvFrame DEF TypeOK
  <1>4. CASE ThreadEnds(t)
    <2>1. [e |-> egl', p |-> prev'] \in EglStates
      BY <1>4, BindingTypes DEF ThreadEnds, TypeOK, EglStates
    <2> QED BY <1>1, <2>1, SizeInvFrame DEF TypeOK
  <1> QED BY <1>2, <1>3, <1>4

\* flushWindowSurfaceColorBuffer, whatever its outcome (WindowSurface.cpp:143-171).
LEMMA FlushSizes ==
  ASSUME SizeInv, NEW t \in Threads, NEW w \in Windows,
         FlushWindowSurfaceColorBuffer(t, w)
  PROVE  SizeInv'
  <1> USE DEF SizeInv
  <1>7. /\ UNCHANGED <<made, win, cbSize, tinfo>> /\ table' \subseteq table
        /\ crashed' \in BOOLEAN /\ ended' \subseteq Threads
    BY DEF FlushWindowSurfaceColorBuffer, TypeOK
  <1> DEFINE blit == [e |-> [egl EXCEPT ![t] = FlushBinding(w)], p |-> prev]
             st == IF FlushOutcome(t, w) = "updated"
                   THEN Section(t, blit, table, tinfo, win) ELSE blit
  <1>1. FlushBinding(w) \in EglBindings
    BY EglSurfaceTypes DEF FlushBinding, EglBindings, TypeOK, WindowSurfaces
  <1>2. blit \in EglStates
    BY <1>1 DEF EglStates, TypeOK
  <1> HIDE DEF blit
  <1>3. st \in EglStates
    BY <1>2, SectionTypes
  <1>4. MakeCurrent(t, egl[t], st.e, table, tinfo, win) \in [Threads -> EglBindings]
    BY <1>3 DEF MakeCurrent, EglStates, TypeOK
  <1>5. \/ UNCHANGED <<egl, prev>>
        \/ egl' = MakeCurrent(t, egl[t], st.e, table, tinfo, win) /\ prev' = st.p
    BY DEF FlushWindowSurfaceColorBuffer, blit
  <1> HIDE DEF st
  <1>6. [e |-> egl', p |-> prev'] \in EglStates
    BY <1>3, <1>4, <1>5 DEF EglStates, TypeOK
  <1> QED BY <1>7, <1>6, SizeInvFrame DEF TypeOK

\* bindContext after its eglMakeCurrent: the surfaces remember other contexts and
\* keep their dimensions (FrameBuffer.cpp:703-738).
LEMMA RebindSizes ==
  ASSUME SizeInv, NEW t \in Threads, NEW b \in EglBindings, NEW x \in Contexts \cup {Null},
         NEW y \in Windows \cup {Null}, NEW z \in Windows \cup {Null},
         NEW same \in BOOLEAN, Rebind(t, b, x, y, z, same)
  PROVE  SizeInv'
  <1> USE DEF SizeInv
  <1> DEFINE ws == BoundWindows(x, y, z, same)
             ti == [tinfo EXCEPT ![t] = [ctx |-> x, draw |-> y, read |-> z]]
             e == [egl EXCEPT ![t] = b]
             st == [e |-> e, p |-> prev]
             n == DeadBuffers(table, ti, ws)
  <1>1. /\ win' = ws /\ tinfo' = ti /\ SetEgl(Destructors(n, t, st, table, ti, ws))
        /\ UNCHANGED <<made, table, cbSize, crashed, ended>>
    BY DEF Rebind
  <1>2. st \in EglStates
    BY DEF EglStates, TypeOK
  <1> HIDE DEF st, n
  <1>3. Destructors(n, t, st, table, ti, ws) \in EglStates
    BY <1>2, SectionTypes
  <1>4. egl' \in [Threads -> EglBindings] /\ prev' \in EglBindings
    BY <1>1, <1>3 DEF SetEgl, EglStates
  <1>5. ti \in [Threads -> ThreadInfos]
    BY DEF TypeOK, ThreadInfos
  <1>a. ws = BoundWindows(x, y, z, same)
    OBVIOUS
  <1> HIDE DEF ti, ws
  <1>b. OnlyContexts(BoundWindows(x, y, z, same), x, y, z)
    BY BoundWindowsFrame
  <1>6. OnlyContexts(ws, x, y, z)
    BY <1>a, <1>b
  <1> USE DEF OnlyContexts
  <1>7. TypeOK'
    BY <1>1, <1>4, <1>5, <1>6 DEF TypeOK
  <1>8. PbuffersCounted'
    BY <1>1, <1>6 DEF PbuffersCounted
  <1>9. AttachedWasMade' /\ BlitSizesAgree'
    BY <1>1, <1>6 DEF AttachedWasMade, BlitSizesAgree
  <1> QED BY <1>7, <1>8, <1>9

\* bindContext of a context and two surfaces (FrameBuffer.cpp:652-739)
LEMMA BindSizes ==
  ASSUME SizeInv, NEW t \in Threads, NEW c \in Contexts, NEW d \in Windows,
         NEW r \in Windows, BindContext(t, c, d, r)
  PROVE  SizeInv'
  <1>1. [ctx |-> c, draw |-> EglSurface(d), read |-> EglSurface(r)] \in EglBindings
    BY EglSurfaceTypes DEF EglBindings, SizeInv
  <1> QED BY <1>1, RebindSizes DEF BindContext

\* bindContext(0, 0, 0) (FrameBuffer.cpp:652-739)
LEMMA UnbindSizes ==
  ASSUME SizeInv, NEW t \in Threads, UnbindContext(t)
  PROVE  SizeInv'
  <1>1. tinfo[t].draw \in Windows \cup {Null} /\ tinfo[t].read \in Windows \cup {Null}
    BY DEF SizeInv, TypeOK, ThreadInfos
  <1> QED BY <1>1, RebindSizes, BindingTypes DEF UnbindContext

\* setColorBuffer with resizePbuffer: whether the new pbuffer is made or not, the
\* surface takes the dimensions of the buffer it attaches (WindowSurface.cpp:96-123)
LEMMA SetColorBufferSizes ==
  ASSUME SizeInv, NEW t \in Threads, NEW w \in Windows, NEW b \in Buffers,
         SetWindowSurfaceColorBuffer(t, w, b)
  PROVE  SizeInv'
  <1> USE DEF SizeInv
  <1> DEFINE attached == Attached(w, b)
             st == Destructors(DeadBuffers(table, tinfo, attached), t, EglState,
                               table, tinfo, attached)
  <1>1. st \in EglStates
    BY SectionTypes, BindingTypes
  <1>2. w \in table /\ b \in table /\ UNCHANGED <<made, table, cbSize, tinfo, crashed, ended>>
    BY DEF SetWindowSurfaceColorBuffer
  <1>3. CASE /\ \/ cbSize[b] = win[w].size /\ win' = attached
                \/ NoArea(win[w].pbuf) /\ win' = [attached EXCEPT ![w].size = cbSize[b]]
             /\ SetEgl(st)
    <2>1. egl' \in [Threads -> EglBindings] /\ prev' \in EglBindings
      BY <1>1, <1>3 DEF SetEgl, EglStates
    <2>a. OnlyBuffer(win', w, b, cbSize[b])
      <3>1. cbSize[b] \in Sizes \cup {Null}
        BY DEF TypeOK
      <3> QED BY <1>3, <3>1, AttachedFrame
    <2>b. cbSize[b] = win[w].size \/ NoArea(win[w].pbuf)
      BY <1>3
    <2> HIDE DEF st, attached
    <2>2. /\ win' \in [Windows -> WindowSurfaces]
          /\ \A v \in Windows \ {w} : win'[v] = win[v]
          /\ win'[w].size = cbSize[b] /\ win'[w].pbuf = win[w].pbuf /\ win'[w].cb = b
          /\ win'[w].gen = win[w].gen /\ win'[w].live = win[w].live
      BY <2>a DEF OnlyBuffer
    <2>3. TypeOK'
      BY <1>2, <2>1, <2>2 DEF TypeOK
    <2>4. PbuffersCounted'
      BY <1>2, <2>2 DEF PbuffersCounted
    <2>5. AttachedWasMade'
      BY <1>2, <2>2 DEF AttachedWasMade, TypeOK
    <2>6. BlitSizesAgree'
      BY <1>2, <2>b, <2>2 DEF BlitSizesAgree
    <2> QED BY <2>3, <2>4, <2>5, <2>6
  <1>4. ASSUME NEW created \in BOOLEAN, cbSize[b] # win[w].size, win[w].gen < MaxGen,
               NEW ws, ws = Resized(attached, w, cbSize[b], created),
               win' = ws, SetEgl(RebindResized(t, w, st, ws, created))
        PROVE  SizeInv'
    <2>1. cbSize[b] \in Sizes \cup {Null}
      BY DEF TypeOK
    <2>a. OnlyPbuffer(Resized(Attached(w, b), w, cbSize[b], created), w, b, cbSize[b], created)
      BY <1>4, <2>1, ResizedFrame
    <2>b. OnlyPbuffer(ws, w, b, cbSize[b], created)
      BY <1>4, <2>a
    <2> HIDE DEF attached, st
    <2>2. /\ ws \in [Windows -> WindowSurfaces]
          /\ \A v \in Windows \ {w} : ws[v] = win[v]
          /\ ws[w].size = cbSize[b] /\ ws[w].cb = b /\ ws[w].live = created
          /\ created => ws[w].pbuf = cbSize[b] /\ ws[w].gen = win[w].gen + 1
      BY <2>b DEF OnlyPbuffer
    <2>3. created => ws[w].gen \in 1 .. MaxGen
      <3>1. win[w].gen \in 0 .. MaxGen
        BY DEF TypeOK, WindowSurfaces
      <3>2. win[w].gen + 1 \in 1 .. MaxGen
        BY <1>4, <3>1, MaxGenAssumption
      <3> QED BY <2>2, <3>2
    <2>4. RebindResized(t, w, st, ws, created) \in EglStates
      <3> DEFINE new(s) == IF s = EglSurface(w) THEN <<w, ws[w].gen>> ELSE s
                 b2 == [ctx |-> st.e[t].ctx, draw |-> new(st.e[t].draw),
                        read |-> new(st.e[t].read)]
                 released == [st.e EXCEPT ![t] = Unbound]
      <3>1. released \in [Threads -> EglBindings] /\ st.p \in EglBindings
        BY <1>1, BindingTypes DEF EglStates
      <3>2. created => b2 \in EglBindings
        BY <1>1, <2>3 DEF EglStates, EglBindings, EglSurfaces
      <3> HIDE DEF b2, released
      <3>3. created => MakeCurrent(t, b2, released, table, tinfo, ws) \in [Threads -> EglBindings]
        BY <3>1, <3>2 DEF MakeCurrent
      <3>4. RebindResized(t, w, st, ws, created) =
               IF ~NeedRebind(t, w, st) THEN st
               ELSE IF created
               THEN [e |-> MakeCurrent(t, b2, released, table, tinfo, ws), p |-> st.p]
               ELSE [e |-> released, p |-> st.p]
        BY DEF RebindResized, b2, released
      <3> QED BY <1>1, <3>1, <3>3, <3>4 DEF EglStates
    <2>5. egl' \in [Threads -> EglBindings] /\ prev' \in EglBindings
      BY <1>4, <2>4 DEF SetEgl, EglStates
    <2>6. TypeOK'
      BY <1>2, <1>4, <2>2, <2>5 DEF TypeOK
    <2>7. PbuffersCounted'
      BY <1>2, <1>4, <2>2, <2>3 DEF PbuffersCounted, TypeOK
    <2>8. AttachedWasMade'
      BY <1>2, <1>4, <2>2 DEF AttachedWasMade, TypeOK
    <2>9. BlitSizesAgree'
      BY <1>2, <1>4, <2>2 DEF BlitSizesAgree
    <2> QED BY <2>6, <2>7, <2>8, <2>9
  <1>5. \A created \in {TRUE} \cup {~EglMayFail} : created \in BOOLEAN
    BY RulesAssumption
  <1> QED BY <1>3, <1>4, <1>5 DEF SetWindowSurfaceColorBuffer, Attached

\* Every operation keeps the types and the dimensions, whatever the clients do.
LEMMA NextSizeInv == SizeInv /\ [Next]_vars => SizeInv'
  <1> SUFFICES ASSUME SizeInv, [Next]_vars PROVE SizeInv'
    OBVIOUS
  <1>1. ASSUME NEW c \in Contexts, CreateRenderContext(c) PROVE SizeInv'
    <2>1. [e |-> egl', p |-> prev'] \in EglStates
      BY <1>1 DEF CreateRenderContext, SizeInv, TypeOK, EglStates
    <2> QED BY <1>1, <2>1, SizeInvFrame DEF CreateRenderContext, SizeInv, TypeOK
  <1>2. ASSUME NEW w \in Windows, NEW size \in Sizes, CreateWindowSurface(w, size)
        PROVE  SizeInv'
    BY <1>2, CreateWindowSizes
  <1>3. ASSUME NEW t \in Threads, NEW b \in Buffers, NEW size \in Sizes,
               CreateColorBuffer(t, b, size)
        PROVE  SizeInv'
    BY <1>3, CreateBufferSizes
  <1>4. ASSUME NEW t \in Threads, NEW h \in table, EraseHandle(t, h) PROVE SizeInv'
    BY <1>4, UseSizes
  <1>5. ASSUME NEW t \in Threads, NEW c \in Contexts, NEW d \in Windows, NEW r \in Windows,
               BindContext(t, c, d, r)
        PROVE  SizeInv'
    BY <1>5, BindSizes
  <1>6. ASSUME NEW t \in Threads, UnbindContext(t) PROVE SizeInv'
    BY <1>6, UnbindSizes
  <1>7. ASSUME NEW t \in Threads, NEW w \in Windows, NEW b \in Buffers,
               SetWindowSurfaceColorBuffer(t, w, b)
        PROVE  SizeInv'
    BY <1>7, SetColorBufferSizes
  <1>8. ASSUME NEW t \in Threads, NEW w \in Windows, FlushWindowSurfaceColorBuffer(t, w)
        PROVE  SizeInv'
    BY <1>8, FlushSizes
  <1>9. ASSUME NEW t \in Threads, NEW b \in Buffers, UseColorBuffer(t, b) PROVE SizeInv'
    BY <1>9, UseSizes
  <1>10. ASSUME NEW t \in Threads, ThreadEnds(t) PROVE SizeInv'
    BY <1>10, UseSizes
  <1>11. CASE UNCHANGED vars
    <2>1. TypeOK'
      BY <1>11 DEF vars, SizeInv, TypeOK
    <2> QED BY <1>11, <2>1
            DEF vars, SizeInv, PbuffersCounted, AttachedWasMade, BlitSizesAgree
  <1> QED BY <1>1, <1>2, <1>3, <1>4, <1>5, <1>6, <1>7, <1>8, <1>9, <1>10, <1>11 DEF Next

\* The types and the dimensions hold in every reachable state.
THEOREM SizeInvariance == Spec => []SizeInv
  BY InitSizeInv, NextSizeInv, PTL DEF Spec

\* The objects, the RenderThreadInfos and EGL's bindings always have their types,
\* whatever rules the clients keep.
THEOREM TypeCorrectness == Spec => []TypeOK
  <1>1. SizeInv => TypeOK
    BY DEF SizeInv
  <1> QED BY <1>1, SizeInvariance, PTL

\* The mismatch WindowSurface.cpp:149 calls "should never happen" does not happen,
\* whatever the clients do: a surface and the buffer attached to it have the same
\* dimensions, and the pbuffer has them too unless it has no area, which
\* setColorBuffer then leaves as it is (WindowSurface.cpp:109).
THEOREM SizesAlwaysAgree == Spec => []BlitSizesAgree
  <1>1. SizeInv => BlitSizesAgree
    BY DEF SizeInv
  <1> QED BY <1>1, SizeInvariance, PTL

-----------------------------------------------------------------------------
(* Part 2: with the rule "attach" *)

\* s is the pbuffer that surface w of ws has now
Backs(w, ws, s) == w \in Windows /\ ws[w].live /\ s = <<w, ws[w].gen>>

\* EGL's binding b is the one the thread info i stands for
BindingOf(b, i, ws) ==
    /\ i.ctx \in Contexts /\ b.ctx = i.ctx
    /\ Backs(i.draw, ws, b.draw) /\ Backs(i.read, ws, b.read)

\* two bindings that EGL lets two threads have
Apart(b, c) == c.ctx # b.ctx /\ {c.draw, c.read} \cap {b.draw, b.read} = {}

EglInv ==
    /\ prev = Unbound
    /\ \A t \in Threads : egl[t] = Unbound \/ BindingOf(egl[t], tinfo[t], win)
    /\ \A t \in Threads : \A u \in Threads \ {t} :
          egl[t] # Unbound => Apart(egl[t], egl[u])

\* A binding backed by the thread's own info can always be made current again: the
\* RenderThreadInfo's references keep its objects alive, whatever the tables hold.
LEMMA Restorable ==
  ASSUME NEW t \in Threads, NEW b, NEW e, NEW tb, NEW ti, NEW ws,
         b = Unbound \/ (BindingOf(b, ti[t], ws) /\ \A u \in Threads \ {t} : Apart(b, e[u]))
  PROVE  MakeCurrentOK(t, b, e, tb, ti, ws)
  <1>1. CASE b = Unbound
    BY <1>1 DEF MakeCurrentOK
  <1>2. CASE BindingOf(b, ti[t], ws) /\ \A u \in Threads \ {t} : Apart(b, e[u])
    <2>1. b.ctx \in Contexts /\ ContextExists(b.ctx, tb, ti, ws)
      BY <1>2 DEF BindingOf, ContextExists
    <2>2. SurfaceValid(b.draw, tb, ti, ws) /\ SurfaceValid(b.read, tb, ti, ws)
      BY <1>2 DEF BindingOf, Backs, SurfaceValid, WindowExists
    <2> QED BY <1>2, <2>1, <2>2 DEF MakeCurrentOK, Apart
  <1> QED BY <1>1, <1>2

\* "restore previous binding": when no thread has the FrameBuffer's context and the
\* thread's own binding can be made current, bind_locked and unbind_locked leave EGL
\* and the m_prev members as they were (FrameBuffer.cpp:741-796).
LEMMA SectionRestores ==
  ASSUME NEW t \in Threads, NEW e \in [Threads -> EglBindings], NEW tb, NEW ti, NEW ws,
         \A u \in Threads : e[u].ctx # FBContext,
         MakeCurrentOK(t, e[t], e, tb, ti, ws),
         NEW st, st = [e |-> e, p |-> Unbound]
  PROVE  /\ Section(t, st, tb, ti, ws) = st
         /\ \A n : Destructors(n, t, st, tb, ti, ws) = st
  <1> DEFINE b == [e |-> [e EXCEPT ![t] = FBBinding], p |-> e[t]]
  <1>1. BindOK(t, st.e) /\ BindLocked(t, st) = b
    BY DEF BindOK, BindLocked
  <1>2. MakeCurrentOK(t, b.p, b.e, tb, ti, ws)
    <2>1. \A u \in Threads \ {t} : b.e[u] = e[u]
      OBVIOUS
    <2>2. b.p = e[t]
      OBVIOUS
    <2> HIDE DEF b
    <2> QED BY <2>1, <2>2 DEF MakeCurrentOK
  <1>3. UnbindLocked(t, b, tb, ti, ws) = [e |-> [b.e EXCEPT ![t] = b.p], p |-> Unbound]
    BY <1>2 DEF UnbindLocked
  <1>4. [b.e EXCEPT ![t] = b.p] = e
    OBVIOUS
  <1>5. UnbindLocked(t, b, tb, ti, ws) = st
    BY <1>3, <1>4
  <1> HIDE DEF b
  <1>6. Destructor(t, st, tb, ti, ws) = st
    BY <1>1, <1>5 DEF Destructor
  <1>7. Section(t, st, tb, ti, ws) = st
    BY <1>1, <1>5 DEF Section
  <1> QED BY <1>6, <1>7 DEF Destructors

\* A bound thread has a client's context, never the FrameBuffer's.
LEMMA NoFBContext ==
  ASSUME EglInv, NEW t \in Threads
  PROVE  egl[t].ctx # FBContext /\ egl[t].ctx \in {tinfo[t].ctx, Null}
  BY FBContextAssumption, NullAssumption DEF EglInv, BindingOf, Unbound

\* Creating, writing, posting and destroying color buffers leave EGL as it was, with
\* surfaces that have the pbuffers of win.
LEMMA EglRestored ==
  ASSUME TypeOK, EglInv, NEW t \in Threads, NEW tb, NEW ws,
         \A w \in Windows : ws[w].live = win[w].live /\ ws[w].gen = win[w].gen
  PROVE  /\ Section(t, EglState, tb, tinfo, ws) = EglState
         /\ \A n : Destructors(n, t, EglState, tb, tinfo, ws) = EglState
  <1>1. egl[t] = Unbound \/ BindingOf(egl[t], tinfo[t], ws)
    BY DEF EglInv, BindingOf, Backs
  <1>2. MakeCurrentOK(t, egl[t], egl, tb, tinfo, ws)
    BY <1>1, Restorable DEF EglInv
  <1>3. EglState = [e |-> egl, p |-> Unbound]
    BY DEF EglState, EglInv
  <1>4. egl \in [Threads -> EglBindings] /\ \A u \in Threads : egl[u].ctx # FBContext
    BY NoFBContext DEF TypeOK
  <1> HIDE DEF EglState
  <1> QED BY <1>2, <1>3, <1>4, SectionRestores

\* A pbuffer is neither EGL_NO_SURFACE nor the FrameBuffer's surface, and only a
\* surface with a pbuffer can be made current.
LEMMA PbufferFacts ==
  ASSUME SizeInv, NEW w \in Windows
  PROVE  /\ win[w].live => <<w, win[w].gen>> \notin {Null, FBSurface}
         /\ SurfaceValid(EglSurface(w), table, tinfo, win) => win[w].live
  <1>1. \A v \in Windows : win[v].live => <<v, win[v].gen>> \in Windows \X (1 .. MaxGen)
    BY EglSurfaceTypes DEF SizeInv
  <1>2. \A v \in Windows : win[v].live => <<v, win[v].gen>> \notin {Null, FBSurface}
    BY <1>1, SurfacesAssumption
  <1>3. SurfaceValid(Null, table, tinfo, win) => FALSE
    BY <1>2, NullAssumption DEF SurfaceValid
  <1> QED BY <1>2, <1>3 DEF EglSurface

\* The invariant does not see a step that keeps the bindings and the pbuffers.
LEMMA EglInvFrame ==
  ASSUME EglInv, UNCHANGED <<egl, prev, tinfo>>,
         \A w \in Windows : win[w].live => win'[w].live /\ win'[w].gen = win[w].gen
  PROVE  EglInv'
  <1>1. \A t \in Threads : egl[t] = Unbound \/ BindingOf(egl[t], tinfo[t], win')
    BY DEF EglInv, BindingOf, Backs
  <1>2. \A t \in Threads : egl'[t] = Unbound \/ BindingOf(egl'[t], tinfo'[t], win')
    BY <1>1
  <1> QED BY <1>2 DEF EglInv

\* t gives its binding up, the other threads keep theirs
Released(t) == egl' = [egl EXCEPT ![t] = Unbound]

\* A thread that gives its binding up disturbs no other.
LEMMA ReleaseEgl ==
  ASSUME SizeInv, EglInv, NEW t \in Threads, Released(t), prev' = prev,
         \A u \in Threads \ {t} : tinfo'[u] = tinfo[u],
         \A u \in Threads \ {t} : BindingOf(egl[u], tinfo[u], win)
                                    => BindingOf(egl[u], tinfo[u], win')
  PROVE  EglInv'
  <1>1. egl'[t] = Unbound /\ \A u \in Threads \ {t} : egl'[u] = egl[u]
    BY DEF Released, SizeInv, TypeOK
  <1>2. \A u \in Threads : egl'[u] = Unbound \/ BindingOf(egl'[u], tinfo'[u], win')
    BY <1>1 DEF EglInv
  <1>3. ASSUME NEW u \in Threads, NEW v \in Threads \ {u}, egl'[u] # Unbound
        PROVE  Apart(egl'[u], egl'[v])
    <2>1. u # t /\ egl[u] # Unbound /\ egl'[u] = egl[u]
      BY <1>1, <1>3
    <2>2. CASE v # t
      BY <1>1, <1>3, <2>1, <2>2 DEF EglInv
    <2>3. CASE v = t
      <3>1. BindingOf(egl[u], tinfo[u], win)
        BY <2>1 DEF EglInv
      <3>2. egl[u].ctx # Null /\ egl[u].draw # Null /\ egl[u].read # Null
        BY <3>1, PbufferFacts, NullAssumption DEF BindingOf, Backs
      <3> QED BY <1>1, <2>1, <2>3, <3>2 DEF Apart, Unbound
    <2> QED BY <2>2, <2>3
  <1> QED BY <1>2, <1>3 DEF EglInv

\* The steps that leave every binding as it was: creation, destruction, updates and
\* posts (FrameBuffer.cpp:484-650, 798-867), and a thread's end, which releases its own.
LEMMA UseKeepsEgl ==
  ASSUME SizeInv, EglInv, NEW t \in Threads, NEW c, NEW w, NEW size, NEW b, NEW h,
         \/ CreateRenderContext(c) \/ CreateWindowSurface(w, size)
         \/ CreateColorBuffer(t, b, size) \/ EraseHandle(t, h) \/ UseColorBuffer(t, b)
  PROVE  UNCHANGED <<egl, prev, tinfo>> /\ EglInv'
  <1>1. /\ \A tb : Section(t, EglState, tb, tinfo, win) = EglState
        /\ \A tb, n : Destructors(n, t, EglState, tb, tinfo, win) = EglState
    BY EglRestored DEF SizeInv
  <1>2. SetEgl(EglState) => UNCHANGED <<egl, prev>>
    BY DEF SetEgl, EglState
  <1>3. UNCHANGED <<egl, prev, tinfo>>
    BY <1>1, <1>2 DEF CreateRenderContext, CreateWindowSurface, CreateColorBuffer,
                      EraseHandle, UseColorBuffer
  <1>4. \A v \in Windows : win[v].live => win'[v].live /\ win'[v].gen = win[v].gen
    <2>1. CASE CreateWindowSurface(w, size)
      <3>1. w \notin made /\ \A v \in Windows \ {w} : win'[v] = win[v]
        BY <2>1 DEF CreateWindowSurface, SizeInv, TypeOK
      <3> QED BY <3>1 DEF SizeInv, PbuffersCounted
    <2>2. CASE ~CreateWindowSurface(w, size)
      BY <2>2 DEF CreateRenderContext, CreateColorBuffer, EraseHandle, UseColorBuffer
    <2> QED BY <2>1, <2>2
  <1> QED BY <1>3, <1>4, EglInvFrame

\* RenderThread::Main releases the thread's own binding (RenderThread.cpp:145-152).
LEMMA EndEgl ==
  ASSUME SizeInv, EglInv, NEW t \in Threads, ThreadEnds(t)
  PROVE  EglInv'
  <1>1. /\ egl' = [egl EXCEPT ![t] = Unbound] /\ UNCHANGED <<win, tinfo, prev>>
        /\ egl \in [Threads -> EglBindings]
    BY DEF ThreadEnds, SizeInv, TypeOK
  <1>2. Released(t)
    BY <1>1 DEF Released
  <1> QED BY <1>1, <1>2, ReleaseEgl DEF SizeInv

\* A thread that takes a binding EGL grants it, of its own context and surfaces,
\* disturbs no other.
LEMMA TakeEgl ==
  ASSUME SizeInv, EglInv, NEW t \in Threads, NEW b,
         egl' = [egl EXCEPT ![t] = b], prev' = prev,
         BindingOf(b, tinfo'[t], win'), \A u \in Threads \ {t} : Apart(b, egl[u]),
         \A u \in Threads \ {t} : tinfo'[u] = tinfo[u],
         \A u \in Threads \ {t} : BindingOf(egl[u], tinfo[u], win)
                                    => BindingOf(egl[u], tinfo[u], win')
  PROVE  EglInv'
  <1>1. egl'[t] = b /\ \A u \in Threads \ {t} : egl'[u] = egl[u]
    BY DEF SizeInv, TypeOK
  <1>2. \A u \in Threads : egl'[u] = Unbound \/ BindingOf(egl'[u], tinfo'[u], win')
    BY <1>1 DEF EglInv
  <1>3. ASSUME NEW u \in Threads, NEW v \in Threads \ {u}, egl'[u] # Unbound
        PROVE  Apart(egl'[u], egl'[v])
    <2>1. CASE u = t
      BY <1>1, <2>1
    <2>2. CASE u # t /\ v = t
      BY <1>1, <1>3, <2>2 DEF Apart
    <2>3. CASE u # t /\ v # t
      BY <1>1, <1>3, <2>3 DEF EglInv
    <2> QED BY <2>1, <2>2, <2>3
  <1> QED BY <1>2, <1>3 DEF EglInv

\* WindowSurface::bind does not touch a pbuffer, so it keeps every binding.
LEMMA ContextsKeepBindings ==
  ASSUME NEW b, NEW i, NEW ws, NEW c, NEW d, NEW r, OnlyContexts(ws, c, d, r),
         BindingOf(b, i, win)
  PROVE  BindingOf(b, i, ws)
  BY DEF OnlyContexts, BindingOf, Backs

\* what Rebind does once the destructors have restored the thread's new binding
LEMMA RebindEgl ==
  ASSUME SizeInv, EglInv, NEW t \in Threads, NEW b \in EglBindings,
         NEW c \in Contexts \cup {Null},
         NEW d \in Windows \cup {Null}, NEW r \in Windows \cup {Null},
         NEW same \in BOOLEAN, Rebind(t, b, c, d, r, same),
         b = Unbound \/ (/\ BindingOf(b, [ctx |-> c, draw |-> d, read |-> r], win)
                         /\ \A u \in Threads \ {t} : Apart(b, egl[u]))
  PROVE  /\ EglInv' /\ egl' = [egl EXCEPT ![t] = b]
         /\ OnlyContexts(win', c, d, r)
  <1> DEFINE ws == BoundWindows(c, d, r, same)
             i == [ctx |-> c, draw |-> d, read |-> r]
             ti == [tinfo EXCEPT ![t] = i]
             e == [egl EXCEPT ![t] = b]
             st == [e |-> e, p |-> Unbound]
             n == DeadBuffers(table, ti, ws)
  <1>1. /\ win' = ws /\ tinfo' = ti
        /\ SetEgl(Destructors(n, t, st, table, ti, ws))
    BY DEF Rebind, EglInv
  <1>2. OnlyContexts(ws, c, d, r)
    BY BoundWindowsFrame DEF SizeInv
  <1>3. /\ ti[t] = i /\ \A u \in Threads \ {t} : ti[u] = tinfo[u]
    BY DEF SizeInv, TypeOK
  <1>4. e \in [Threads -> EglBindings] /\ e[t] = b /\ \A u \in Threads \ {t} : e[u] = egl[u]
    BY DEF SizeInv, TypeOK
  <1> HIDE DEF n, ws, ti, e, i
  <1>5. b = Unbound \/ (BindingOf(b, ti[t], ws) /\ \A u \in Threads \ {t} : Apart(b, e[u]))
    BY <1>2, <1>3, <1>4, ContextsKeepBindings DEF i
  <1>6. MakeCurrentOK(t, e[t], e, table, ti, ws)
    BY <1>4, <1>5, Restorable
  <1>7. \A u \in Threads : e[u].ctx # FBContext
    <2>1. b.ctx # FBContext
      BY FBContextAssumption, NullAssumption DEF BindingOf, Unbound, i
    <2> QED BY <1>4, <2>1, NoFBContext
  <1>8. Destructors(n, t, st, table, ti, ws) = st
    BY <1>4, <1>6, <1>7, SectionRestores
  <1>9. egl' = e /\ prev' = Unbound
    BY <1>1, <1>8 DEF SetEgl
  <1>10. \A u \in Threads \ {t} : BindingOf(egl[u], tinfo[u], win)
                                    => BindingOf(egl[u], tinfo[u], win')
    BY <1>1, <1>2, ContextsKeepBindings
  <1>11. prev' = prev /\ \A u \in Threads \ {t} : tinfo'[u] = tinfo[u]
    BY <1>1, <1>3, <1>9 DEF EglInv
  <1>12. CASE b = Unbound
    BY <1>9, <1>10, <1>11, <1>12, <1>1, <1>2, ReleaseEgl DEF Released, e
  <1>13. CASE BindingOf(b, ti[t], ws) /\ \A u \in Threads \ {t} : Apart(b, e[u])
    <2>1. BindingOf(b, tinfo'[t], win') /\ \A u \in Threads \ {t} : Apart(b, egl[u])
      BY <1>1, <1>4, <1>13
    <2>2. egl' = [egl EXCEPT ![t] = b]
      BY <1>9 DEF e
    <2> QED BY <1>1, <1>2, <1>10, <1>11, <2>1, <2>2, TakeEgl
  <1> QED BY <1>5, <1>12, <1>13

\* bindContext: what EGL accepts is backed by the two surfaces (FrameBuffer.cpp:652-739)
LEMMA BindEgl ==
  ASSUME SizeInv, EglInv, NEW t \in Threads, NEW c \in Contexts, NEW d \in Windows,
         NEW r \in Windows, BindContext(t, c, d, r)
  PROVE  /\ EglInv' /\ OnlyContexts(win', c, d, r)
         /\ \A u \in Threads \ {t} : Apart(egl'[t], egl[u]) /\ egl'[u] = egl[u]
         /\ BindingOf(egl'[t], [ctx |-> c, draw |-> d, read |-> r], win)
  <1> DEFINE b == [ctx |-> c, draw |-> EglSurface(d), read |-> EglSurface(r)]
             i == [ctx |-> c, draw |-> d, read |-> r]
  <1>1. MakeCurrentOK(t, b, egl, table, tinfo, win) /\ Rebind(t, b, c, d, r, d = r)
    BY DEF BindContext
  <1>2. b # Unbound /\ b.ctx = c
    BY NullAssumption DEF Unbound
  <1>3. win[d].live /\ win[r].live
    BY <1>1, <1>2, PbufferFacts DEF MakeCurrentOK
  <1>4. BindingOf(b, i, win) /\ \A u \in Threads \ {t} : Apart(b, egl[u])
    BY <1>1, <1>2, <1>3 DEF MakeCurrentOK, BindingOf, Backs, Apart, EglSurface
  <1>5. b \in EglBindings
    BY EglSurfaceTypes DEF EglBindings, SizeInv
  <1> HIDE DEF b
  <1>6. EglInv' /\ egl' = [egl EXCEPT ![t] = b] /\ OnlyContexts(win', c, d, r)
    BY <1>1, <1>4, <1>5, RebindEgl
  <1>7. egl'[t] = b /\ \A u \in Threads \ {t} : egl'[u] = egl[u]
    BY <1>6 DEF SizeInv, TypeOK
  <1> QED BY <1>4, <1>6, <1>7

\* bindContext(0, 0, 0) releases the thread's binding (FrameBuffer.cpp:652-739).
LEMMA UnbindEgl ==
  ASSUME SizeInv, EglInv, NEW t \in Threads, UnbindContext(t)
  PROVE  EglInv' /\ Released(t) /\ OnlyContexts(win', Null, tinfo[t].draw, tinfo[t].read)
  <1>1. tinfo[t].draw \in Windows \cup {Null} /\ tinfo[t].read \in Windows \cup {Null}
    BY DEF SizeInv, TypeOK, ThreadInfos
  <1> QED BY <1>1, RebindEgl, BindingTypes DEF UnbindContext, Released

\* A thread whose binding does not hold the pbuffer of w keeps its binding when w
\* gets another one.
LEMMA UnusedSurface ==
  ASSUME SizeInv, NEW w \in Windows, NEW b, NEW i, NEW ws,
         EglSurface(w) = Null \/ EglSurface(w) \notin {b.draw, b.read},
         BindingOf(b, i, win), \A v \in Windows \ {w} : ws[v] = win[v]
  PROVE  i.draw # w /\ i.read # w /\ BindingOf(b, i, ws)
  <1>1. win[w].live => EglSurface(w) # Null
    BY PbufferFacts DEF EglSurface
  <1>2. i.draw # w /\ i.read # w
    BY <1>1 DEF BindingOf, Backs, EglSurface
  <1> QED BY <1>2 DEF BindingOf, Backs

\* resizePbuffer in the thread that has the surface current: the binding with the new
\* pbuffer is again the one the thread's info stands for, and no other thread has any
\* of it (WindowSurface.cpp:173-230).
LEMMA ResizedBinding ==
  ASSUME SizeInv, EglInv, NEW t \in Threads, NEW w \in Windows, NEW size, NEW cb,
         NEW ws, OnlyPbuffer(ws, w, cb, size, TRUE),
         NeedRebind(t, w, EglState),
         \A u \in Threads \ {t} : EglSurface(w) \notin {egl[u].draw, egl[u].read},
         NEW b, b.ctx = egl[t].ctx,
         b.draw = IF egl[t].draw = EglSurface(w) THEN <<w, ws[w].gen>> ELSE egl[t].draw,
         b.read = IF egl[t].read = EglSurface(w) THEN <<w, ws[w].gen>> ELSE egl[t].read
  PROVE  BindingOf(b, tinfo[t], ws) /\ \A u \in Threads \ {t} : Apart(b, egl[u])
  <1>1. win[w].live /\ EglSurface(w) \in {egl[t].draw, egl[t].read}
    BY DEF NeedRebind, EglState
  <1>2. EglSurface(w) = <<w, win[w].gen>> /\ EglSurface(w) # Null
    BY <1>1, PbufferFacts DEF EglSurface
  <1>3. BindingOf(egl[t], tinfo[t], win) /\ egl[t] # Unbound
    BY <1>1, <1>2 DEF EglInv, Unbound
  <1>4. ws[w].live /\ \A v \in Windows \ {w} : ws[v] = win[v]
    BY DEF OnlyPbuffer
  <1>5. BindingOf(b, tinfo[t], ws)
    BY <1>2, <1>3, <1>4 DEF BindingOf, Backs
  <1>6. ASSUME NEW u \in Threads \ {t} PROVE Apart(b, egl[u])
    <2>1. Apart(egl[t], egl[u])
      BY <1>3 DEF EglInv
    <2>2. <<w, ws[w].gen>> # Null
      <3>1. ws[w].gen \in 1 .. MaxGen
        <4>1. ws[w].gen \in 0 .. MaxGen /\ ws[w].gen = win[w].gen + 1 /\ win[w].gen \in 0 .. MaxGen
          BY DEF OnlyPbuffer, WindowSurfaces, SizeInv, TypeOK
        <4> QED BY <4>1, MaxGenAssumption
      <3> QED BY <3>1, SurfacesAssumption
    <2>3. <<w, ws[w].gen>> \notin {egl[u].draw, egl[u].read}
      <3>1. CASE egl[u] = Unbound
        BY <2>2, <3>1 DEF Unbound
      <3>2. CASE BindingOf(egl[u], tinfo[u], win)
        <4>1. tinfo[u].draw # w /\ tinfo[u].read # w
          BY <1>6, <3>2, UnusedSurface
        <4> QED BY <3>2, <4>1 DEF BindingOf, Backs
      <3> QED BY <3>1, <3>2 DEF EglInv
    <2> QED BY <2>1, <2>3 DEF Apart
  <1> QED BY <1>5, <1>6

\* setColorBuffer by a client that keeps "attach": the bindings stay backed, and the
\* thread's own is only lost when EGL cannot make the new pbuffer.
LEMMA SetColorBufferEgl ==
  ASSUME "attach" \in Rules,
         SizeInv, EglInv, NEW t \in Threads, NEW w \in Windows, NEW b \in Buffers,
         SetWindowSurfaceColorBuffer(t, w, b)
  PROVE  /\ EglInv'
         /\ \A u \in Threads \ {t} : egl'[u] = egl[u]
         /\ ~EglMayFail /\ egl[t] # Unbound => egl'[t] # Unbound
         /\ egl[t] = Unbound => egl'[t] = Unbound
         /\ \A v \in Windows : win'[v].draw = win[v].draw
  <1> DEFINE attached == Attached(w, b)
             st == Destructors(DeadBuffers(table, tinfo, attached), t, EglState,
                               table, tinfo, attached)
  <1>0. cbSize[b] \in Sizes \cup {Null}
    BY DEF SizeInv, TypeOK
  <1>1. /\ OnlyBuffer(attached, w, b, win[w].size)
        /\ OnlyBuffer([attached EXCEPT ![w].size = cbSize[b]], w, b, cbSize[b])
    BY <1>0, AttachedFrame DEF SizeInv
  <1>2. \A v \in Windows : /\ attached[v].live = win[v].live /\ attached[v].gen = win[v].gen
                           /\ attached[v].draw = win[v].draw
    BY <1>1 DEF OnlyBuffer
  <1> HIDE DEF attached
  <1>3. st = EglState
    BY <1>2, EglRestored DEF SizeInv
  <1>4. UNCHANGED tinfo /\ MayAttach(t, w, b)
    BY DEF SetWindowSurfaceColorBuffer
  <1>5. cbSize[b] # win[w].size =>
           \A u \in Threads \ {t} :
              EglSurface(w) = Null \/ EglSurface(w) \notin {egl[u].draw, egl[u].read}
    BY <1>4 DEF MayAttach
  <1>6. CASE /\ win' = attached \/ win' = [attached EXCEPT ![w].size = cbSize[b]]
             /\ SetEgl(st)
    <2>1. UNCHANGED <<egl, prev, tinfo>>
      BY <1>3, <1>4, <1>6 DEF SetEgl, EglState
    <2>2. \A v \in Windows : /\ win'[v].live = win[v].live /\ win'[v].gen = win[v].gen
                             /\ win'[v].draw = win[v].draw
      BY <1>1, <1>2, <1>6 DEF OnlyBuffer
    <2>3. \A v \in Windows : win[v].live => win'[v].live /\ win'[v].gen = win[v].gen
      BY <2>2
    <2> QED BY <2>1, <2>2, <2>3, EglInvFrame
  <1>7. ASSUME NEW created \in BOOLEAN, created \/ EglMayFail, win[w].gen < MaxGen,
               cbSize[b] # win[w].size,
               NEW ws, ws = Resized(attached, w, cbSize[b], created),
               win' = ws, SetEgl(RebindResized(t, w, EglState, ws, created))
        PROVE  /\ EglInv'
               /\ \A u \in Threads \ {t} : egl'[u] = egl[u]
               /\ ~EglMayFail /\ egl[t] # Unbound => egl'[t] # Unbound
               /\ egl[t] = Unbound => egl'[t] = Unbound
               /\ \A v \in Windows : win'[v].draw = win[v].draw
    <2>1. OnlyPbuffer(ws, w, b, cbSize[b], created)
      <3>1. cbSize[b] \in Sizes \cup {Null}
        BY DEF SizeInv, TypeOK
      <3>2. OnlyPbuffer(Resized(Attached(w, b), w, cbSize[b], created), w, b, cbSize[b], created)
        BY <1>7, <3>1, ResizedFrame DEF SizeInv
      <3> QED BY <1>7, <3>2 DEF attached
    <2>2. /\ \A v \in Windows \ {w} : ws[v] = win[v]
          /\ \A v \in Windows : ws[v].draw = win[v].draw
      BY <2>1 DEF OnlyPbuffer
    <2>3. \A u \in Threads \ {t} : BindingOf(egl[u], tinfo[u], win)
                                     => BindingOf(egl[u], tinfo[u], win')
      BY <1>5, <1>7, <2>2, UnusedSurface
    <2>4. CASE ~NeedRebind(t, w, EglState)
      <3>1. UNCHANGED <<egl, prev>>
        BY <1>7, <2>4 DEF RebindResized, SetEgl, EglState
      <3>2. EglSurface(w) = Null \/ EglSurface(w) \notin {egl[t].draw, egl[t].read}
        BY <2>4 DEF NeedRebind, EglState, EglSurface
      <3>3. BindingOf(egl[t], tinfo[t], win) => BindingOf(egl[t], tinfo[t], win')
        BY <1>7, <2>2, <3>2, UnusedSurface
      <3>4. \A u \in Threads : egl'[u] = Unbound \/ BindingOf(egl'[u], tinfo'[u], win')
        BY <1>4, <2>3, <3>1, <3>3 DEF EglInv
      <3>5. EglInv'
        BY <3>1, <3>4 DEF EglInv
      <3> QED BY <1>7, <2>2, <3>1, <3>5
    <2>5. CASE NeedRebind(t, w, EglState) /\ ~created
      <3>1. Released(t) /\ prev' = prev
        BY <1>7, <2>5 DEF RebindResized, SetEgl, EglState, Released
      <3>2. EglInv'
        BY <1>4, <2>3, <3>1, ReleaseEgl
      <3> QED BY <1>7, <2>2, <2>5, <3>1, <3>2 DEF Released, SizeInv, TypeOK
    <2>6. CASE NeedRebind(t, w, EglState) /\ created
      <3> DEFINE new(s) == IF s = EglSurface(w) THEN <<w, ws[w].gen>> ELSE s
                 nb == [ctx |-> egl[t].ctx, draw |-> new(egl[t].draw),
                        read |-> new(egl[t].read)]
                 released == [egl EXCEPT ![t] = Unbound]
      <3>1. egl' = MakeCurrent(t, nb, released, table, tinfo, ws) /\ prev' = prev
        BY <1>7, <2>6 DEF RebindResized, SetEgl, EglState
      <3>2. EglSurface(w) # Null
        BY <2>6, PbufferFacts DEF NeedRebind, EglSurface
      <3>3. OnlyPbuffer(ws, w, b, cbSize[b], TRUE)
        BY <2>1, <2>6
      <3>4. /\ nb.ctx = egl[t].ctx
            /\ nb.draw = IF egl[t].draw = EglSurface(w) THEN <<w, ws[w].gen>> ELSE egl[t].draw
            /\ nb.read = IF egl[t].read = EglSurface(w) THEN <<w, ws[w].gen>> ELSE egl[t].read
        OBVIOUS
      <3>5. /\ \A u \in Threads \ {t} : released[u] = egl[u]
            /\ [released EXCEPT ![t] = nb] = [egl EXCEPT ![t] = nb]
        BY DEF SizeInv, TypeOK
      <3> HIDE DEF nb, released
      <3>6. BindingOf(nb, tinfo[t], ws) /\ \A u \in Threads \ {t} : Apart(nb, egl[u])
        <4>1. \A u \in Threads \ {t} : EglSurface(w) \notin {egl[u].draw, egl[u].read}
          BY <1>5, <1>7, <3>2
        <4> HIDE DEF st
        <4> QED BY <2>6, <3>3, <3>4, <4>1, ResizedBinding
      <3>7. MakeCurrentOK(t, nb, released, table, tinfo, ws)
        BY <3>5, <3>6, Restorable
      <3>8. egl' = [egl EXCEPT ![t] = nb]
        BY <3>1, <3>5, <3>7 DEF MakeCurrent
      <3>9. EglInv'
        BY <1>4, <1>7, <2>3, <3>1, <3>6, <3>8, TakeEgl
      <3>10. nb # Unbound /\ egl[t] # Unbound
        BY <2>6, <3>2, <3>6, NullAssumption
        DEF BindingOf, Unbound, NeedRebind, EglState
      <3> QED BY <1>7, <2>2, <3>8, <3>9, <3>10 DEF SizeInv, TypeOK
    <2> QED BY <2>4, <2>5, <2>6
  <1>8. \A created \in {TRUE} \cup {~EglMayFail} :
           created \in BOOLEAN /\ (created \/ EglMayFail)
    BY RulesAssumption
  <1>9. \/ win' = attached /\ SetEgl(st)
        \/ win' = [attached EXCEPT ![w].size = cbSize[b]] /\ SetEgl(st)
        \/ /\ win[w].gen < MaxGen /\ cbSize[b] # win[w].size
           /\ \E created \in {TRUE} \cup {~EglMayFail} :
                 LET ws == Resized(attached, w, cbSize[b], created) IN
                 win' = ws /\ SetEgl(RebindResized(t, w, st, ws, created))
    BY DEF SetWindowSurfaceColorBuffer, attached, Attached
  <1> HIDE DEF st
  <1> QED BY <1>3, <1>6, <1>7, <1>8, <1>9

\* blitToColorBuffer ends with the binding the thread had (WindowSurface.cpp:143-171).
LEMMA FlushEgl ==
  ASSUME SizeInv, EglInv, NEW t \in Threads, NEW w \in Windows,
         FlushWindowSurfaceColorBuffer(t, w)
  PROVE  UNCHANGED <<egl, prev, tinfo, win>> /\ EglInv'
  <1> DEFINE e == [egl EXCEPT ![t] = FlushBinding(w)]
             blit == [e |-> e, p |-> prev]
             st == IF FlushOutcome(t, w) = "updated"
                   THEN Section(t, blit, table, tinfo, win) ELSE blit
  <1>1. CASE UNCHANGED <<egl, prev>>
    BY <1>1, EglInvFrame DEF FlushWindowSurfaceColorBuffer
  <1>2. CASE /\ FlushOutcome(t, w) \in {"updated", "not copied"}
             /\ egl' = MakeCurrent(t, egl[t], st.e, table, tinfo, win)
             /\ prev' = st.p
    <2>1. MakeCurrentOK(t, FlushBinding(w), egl, table, tinfo, win)
      BY <1>2 DEF FlushOutcome
    <2>2. FlushBinding(w) \in EglBindings /\ FlushBinding(w).ctx # FBContext
      BY EglSurfaceTypes, FBContextAssumption, NullAssumption
      DEF FlushBinding, EglBindings, SizeInv, TypeOK, WindowSurfaces
    <2>3. /\ e \in [Threads -> EglBindings] /\ e[t] = FlushBinding(w)
          /\ \A u \in Threads \ {t} : e[u] = egl[u]
          /\ [e EXCEPT ![t] = egl[t]] = egl
      BY <2>2 DEF SizeInv, TypeOK
    <2>4. blit = [e |-> e, p |-> Unbound]
      BY DEF EglInv
    <2> HIDE DEF e
    <2>5. MakeCurrentOK(t, e[t], e, table, tinfo, win)
      BY <2>1, <2>3 DEF MakeCurrentOK
    <2>6. \A u \in Threads : e[u].ctx # FBContext
      BY <2>2, <2>3, NoFBContext
    <2> HIDE DEF blit
    <2>7. Section(t, blit, table, tinfo, win) = blit
      BY <2>3, <2>4, <2>5, <2>6, SectionRestores
    <2>8. st.e = e /\ st.p = prev
      BY <2>7 DEF blit
    <2>9. MakeCurrentOK(t, egl[t], e, table, tinfo, win)
      BY <2>3, Restorable DEF EglInv
    <2>10. UNCHANGED <<egl, prev>>
      BY <1>2, <2>3, <2>8, <2>9 DEF MakeCurrent
    <2> QED BY <1>1, <2>10
  <1> QED BY <1>1, <1>2 DEF FlushWindowSurfaceColorBuffer

\* Nothing is bound before the first call.
LEMMA InitEglInv == Init => EglInv
  BY DEF Init, EglInv

\* Every operation keeps the bindings backed and apart when clients keep "attach".
LEMMA NextEglInv ==
  ASSUME "attach" \in Rules
  PROVE  SizeInv /\ EglInv /\ [Next]_vars => EglInv'
  <1> SUFFICES ASSUME SizeInv, EglInv, [Next]_vars PROVE EglInv'
    OBVIOUS
  <1>1. ASSUME NEW c \in Contexts, CreateRenderContext(c) PROVE EglInv'
    BY <1>1, EglInvFrame DEF CreateRenderContext
  <1>2. ASSUME NEW w \in Windows, NEW size \in Sizes, CreateWindowSurface(w, size)
        PROVE  EglInv'
    <2>1. w \notin made /\ \A v \in Windows \ {w} : win'[v] = win[v]
      BY <1>2 DEF CreateWindowSurface, SizeInv, TypeOK
    <2>2. \A v \in Windows : win[v].live => win'[v].live /\ win'[v].gen = win[v].gen
      BY <2>1 DEF SizeInv, PbuffersCounted
    <2> QED BY <1>2, <2>2, EglInvFrame DEF CreateWindowSurface
  <1>3. ASSUME NEW t \in Threads, NEW b \in Buffers, NEW size \in Sizes,
               CreateColorBuffer(t, b, size)
        PROVE  EglInv'
    BY <1>3, UseKeepsEgl
  <1>4. ASSUME NEW t \in Threads, NEW h \in table, EraseHandle(t, h) PROVE EglInv'
    BY <1>4, UseKeepsEgl
  <1>5. ASSUME NEW t \in Threads, NEW c \in Contexts, NEW d \in Windows, NEW r \in Windows,
               BindContext(t, c, d, r)
        PROVE  EglInv'
    BY <1>5, BindEgl
  <1>6. ASSUME NEW t \in Threads, UnbindContext(t) PROVE EglInv'
    BY <1>6, UnbindEgl
  <1>7. ASSUME NEW t \in Threads, NEW w \in Windows, NEW b \in Buffers,
               SetWindowSurfaceColorBuffer(t, w, b)
        PROVE  EglInv'
    BY <1>7, SetColorBufferEgl
  <1>8. ASSUME NEW t \in Threads, NEW w \in Windows, FlushWindowSurfaceColorBuffer(t, w)
        PROVE  EglInv'
    BY <1>8, FlushEgl
  <1>9. ASSUME NEW t \in Threads, NEW b \in Buffers, UseColorBuffer(t, b) PROVE EglInv'
    BY <1>9, UseKeepsEgl
  <1>10. ASSUME NEW t \in Threads, ThreadEnds(t) PROVE EglInv'
    BY <1>10, EndEgl
  <1>11. CASE UNCHANGED vars
    BY <1>11, EglInvFrame DEF vars
  <1> QED BY <1>1, <1>2, <1>3, <1>4, <1>5, <1>6, <1>7, <1>8, <1>9, <1>10, <1>11 DEF Next

\* With clients that keep "attach", EGL's bindings are always the ones the
\* RenderThreadInfos stand for, each in one thread.
THEOREM EglInvariance ==
  ASSUME "attach" \in Rules
  PROVE  Spec => []EglInv
  BY InitEglInv, NextEglInv, SizeInvariance, PTL DEF Spec

\* If no client attaches a buffer of another size to a surface another thread has
\* current, which resizes it under that thread, no operation leaves the
\* FrameBuffer's context current in a thread: every bind_locked is undone
\* (FrameBuffer.cpp:741-796, ColorBuffer.cpp:224).
THEOREM ContextAlwaysReleased ==
  ASSUME "attach" \in Rules
  PROVE  Spec => []FBContextReleased
  <1>1. EglInv => FBContextReleased
    BY NoFBContext DEF FBContextReleased
  <1> QED BY <1>1, EglInvariance, PTL

\* Under the same rule a render thread decodes its GL commands in the context its own
\* client made current, or in none (FrameBuffer.cpp:652-739, ThreadInfo.h).
THEOREM AlwaysOwnContext ==
  ASSUME "attach" \in Rules
  PROVE  Spec => []RendersIntoOwnContext
  <1>1. EglInv => RendersIntoOwnContext
    BY NoFBContext DEF RendersIntoOwnContext
  <1> QED BY <1>1, EglInvariance, PTL

-----------------------------------------------------------------------------
(* Part 3: with the rules "attach" and "unbind", and an EGL that makes pbuffers *)

\* the surface a thread draws on remembers the thread's context, and a running thread
\* with a context in its info has it bound
OwnerInv ==
    /\ \A t \in Threads : egl[t] # Unbound => win[tinfo[t].draw].draw = tinfo[t].ctx
    /\ \A t \in Threads \ ended : tinfo[t].ctx # Null => egl[t] # Unbound

\* Two bound threads draw on two surfaces.
LEMMA DrawSurfacesDiffer ==
  ASSUME EglInv, NEW t \in Threads, NEW u \in Threads \ {t},
         egl[t] # Unbound, egl[u] # Unbound
  PROVE  tinfo[t].draw # tinfo[u].draw
  <1>1. BindingOf(egl[t], tinfo[t], win) /\ BindingOf(egl[u], tinfo[u], win)
        /\ Apart(egl[t], egl[u])
    BY DEF EglInv
  <1> QED BY <1>1 DEF BindingOf, Backs, Apart

\* the steps that change no binding and no context of a surface with a pbuffer
LEMMA OwnerFrame ==
  ASSUME SizeInv, EglInv, OwnerInv, UNCHANGED <<egl, tinfo, ended>>,
         \A w \in Windows : win[w].live => win'[w].draw = win[w].draw
  PROVE  OwnerInv'
  <1>1. \A t \in Threads : egl[t] # Unbound
          => tinfo[t].draw \in Windows /\ win[tinfo[t].draw].live
    BY DEF EglInv, BindingOf, Backs
  <1> QED BY <1>1 DEF OwnerInv

\* bindContext: the surface drawn on learns of the thread's context, and no other
\* thread was drawing on it (FrameBuffer.cpp:652-739)
LEMMA BindOwner ==
  ASSUME SizeInv, EglInv, OwnerInv, NEW t \in Threads, NEW c \in Contexts,
         NEW d \in Windows, NEW r \in Windows, BindContext(t, c, d, r)
  PROVE  OwnerInv'
  <1> DEFINE i == [ctx |-> c, draw |-> d, read |-> r]
  <1>1. /\ OnlyContexts(win', c, d, r) /\ BindingOf(egl'[t], i, win)
        /\ \A u \in Threads \ {t} : Apart(egl'[t], egl[u]) /\ egl'[u] = egl[u]
    BY BindEgl
  <1>2. /\ tinfo' = [tinfo EXCEPT ![t] = i] /\ UNCHANGED ended
    BY DEF BindContext, Rebind
  <1>3. tinfo'[t] = i /\ \A u \in Threads \ {t} : tinfo'[u] = tinfo[u]
    BY <1>2 DEF SizeInv, TypeOK
  <1>4. egl'[t] # Unbound /\ win'[d].draw = c
    BY <1>1, NullAssumption DEF BindingOf, Unbound, OnlyContexts
  <1>5. ASSUME NEW u \in Threads \ {t}, egl[u] # Unbound
        PROVE  win'[tinfo[u].draw].draw = tinfo[u].ctx
    <2>1. BindingOf(egl[u], tinfo[u], win) /\ Apart(egl'[t], egl[u])
      BY <1>1, <1>5 DEF EglInv
    <2>2. tinfo[u].draw \in Windows /\ tinfo[u].draw # d
      BY <1>1, <2>1 DEF BindingOf, Backs, Apart
    <2> QED BY <1>1, <1>5, <2>2 DEF OnlyContexts, OwnerInv
  <1> QED BY <1>1, <1>2, <1>3, <1>4, <1>5 DEF OwnerInv

\* bindContext(0, 0, 0) of a thread that has something bound makes only its own
\* surface forget its context; the guest's EGL sends no other (egl.cpp:939)
LEMMA UnbindOwner ==
  ASSUME SizeInv, EglInv, OwnerInv, NEW t \in Threads \ ended, tinfo[t].ctx # Null,
         UnbindContext(t)
  PROVE  OwnerInv'
  <1> DEFINE i == [ctx |-> Null, draw |-> tinfo[t].draw, read |-> tinfo[t].read]
  <1>1. Released(t) /\ OnlyContexts(win', Null, tinfo[t].draw, tinfo[t].read)
    BY UnbindEgl
  <1>2. tinfo' = [tinfo EXCEPT ![t] = i] /\ UNCHANGED ended /\ tinfo[t].ctx # Null
    BY DEF UnbindContext, Rebind
  <1>3. /\ tinfo'[t] = i /\ egl'[t] = Unbound
        /\ \A u \in Threads \ {t} : tinfo'[u] = tinfo[u] /\ egl'[u] = egl[u]
    BY <1>1, <1>2 DEF SizeInv, TypeOK, Released
  <1>4. egl[t] # Unbound
    BY <1>2 DEF OwnerInv
  <1>5. ASSUME NEW u \in Threads \ {t}, egl[u] # Unbound
        PROVE  win'[tinfo[u].draw].draw = tinfo[u].ctx
    <2>1. tinfo[u].draw \in Windows /\ tinfo[u].draw # tinfo[t].draw
      BY <1>4, <1>5, DrawSurfacesDiffer DEF EglInv, BindingOf, Backs
    <2> QED BY <1>1, <1>5, <2>1 DEF OnlyContexts, OwnerInv
  <1> QED BY <1>2, <1>3, <1>5 DEF OwnerInv

\* Every operation keeps a surface's draw context the one of the thread that draws on it.
LEMMA NextOwnerInv ==
  ASSUME {"attach", "unbind"} \subseteq Rules, ~EglMayFail
  PROVE  SizeInv /\ EglInv /\ OwnerInv /\ [Next]_vars => OwnerInv'
  <1> SUFFICES ASSUME SizeInv, EglInv, OwnerInv, [Next]_vars PROVE OwnerInv'
    OBVIOUS
  <1>1. ASSUME NEW c \in Contexts, CreateRenderContext(c) PROVE OwnerInv'
    BY <1>1, OwnerFrame DEF CreateRenderContext
  <1>2. ASSUME NEW w \in Windows, NEW size \in Sizes, CreateWindowSurface(w, size)
        PROVE  OwnerInv'
    <2>1. w \notin made /\ \A v \in Windows \ {w} : win'[v] = win[v]
      BY <1>2 DEF CreateWindowSurface, SizeInv, TypeOK
    <2>2. \A v \in Windows : win[v].live => win'[v].draw = win[v].draw
      BY <2>1 DEF SizeInv, PbuffersCounted
    <2> QED BY <1>2, <2>2, OwnerFrame DEF CreateWindowSurface
  <1>3. ASSUME NEW t \in Threads, NEW b \in Buffers, NEW size \in Sizes,
               CreateColorBuffer(t, b, size)
        PROVE  OwnerInv'
    BY <1>3, UseKeepsEgl, OwnerFrame DEF CreateColorBuffer
  <1>4. ASSUME NEW t \in Threads, NEW h \in table, EraseHandle(t, h) PROVE OwnerInv'
    BY <1>4, UseKeepsEgl, OwnerFrame DEF EraseHandle
  <1>5. ASSUME NEW t \in Threads, NEW c \in Contexts, NEW d \in Windows, NEW r \in Windows,
               BindContext(t, c, d, r)
        PROVE  OwnerInv'
    BY <1>5, BindOwner
  <1>6. ASSUME NEW t \in Threads \ ended, UnbindContext(t) PROVE OwnerInv'
    BY <1>6, UnbindOwner DEF UnbindContext
  <1>7. ASSUME NEW t \in Threads, NEW w \in Windows, NEW b \in Buffers,
               SetWindowSurfaceColorBuffer(t, w, b)
        PROVE  OwnerInv'
    <2>1. /\ \A u \in Threads \ {t} : egl'[u] = egl[u]
          /\ egl[t] # Unbound <=> egl'[t] # Unbound
          /\ \A v \in Windows : win'[v].draw = win[v].draw
      BY <1>7, SetColorBufferEgl
    <2>2. UNCHANGED <<tinfo, ended>>
      BY <1>7 DEF SetWindowSurfaceColorBuffer
    <2>3. \A u \in Threads : egl[u] # Unbound => tinfo[u].draw \in Windows
      BY DEF EglInv, BindingOf, Backs
    <2> QED BY <2>1, <2>2, <2>3 DEF OwnerInv
  <1>8. ASSUME NEW t \in Threads, NEW w \in Windows, FlushWindowSurfaceColorBuffer(t, w)
        PROVE  OwnerInv'
    BY <1>8, FlushEgl, OwnerFrame DEF FlushWindowSurfaceColorBuffer
  <1>9. ASSUME NEW t \in Threads, NEW b \in Buffers, UseColorBuffer(t, b) PROVE OwnerInv'
    BY <1>9, UseKeepsEgl, OwnerFrame DEF UseColorBuffer
  <1>10. ASSUME NEW t \in Threads, ThreadEnds(t) PROVE OwnerInv'
    <2>1. /\ egl'[t] = Unbound /\ \A u \in Threads \ {t} : egl'[u] = egl[u]
          /\ ended' = ended \cup {t} /\ UNCHANGED <<tinfo, win>>
      BY <1>10 DEF ThreadEnds, SizeInv, TypeOK
    <2> QED BY <2>1 DEF OwnerInv
  <1>11. CASE UNCHANGED vars
    BY <1>11, OwnerFrame DEF vars
  <1> QED BY <1>1, <1>2, <1>3, <1>4, <1>5, <1>6, <1>7, <1>8, <1>9, <1>10, <1>11 DEF Next

\* A surface that a thread has current, with a buffer attached, is copied into the buffer
\* when the thread flushes it: none of the early returns of blitToColorBuffer is taken
\* (WindowSurface.cpp:143-171).
LEMMA CurrentFlushUpdates ==
  ASSUME SizeInv, EglInv, OwnerInv, NEW t \in Threads, NEW w \in Windows,
         win[w].live, egl[t].draw = EglSurface(w), win[w].cb # Null, win[w].size # Empty
  PROVE  FlushOutcome(t, w) = "updated"
  <1>1. EglSurface(w) = <<w, win[w].gen>> /\ EglSurface(w) # Null
    BY PbufferFacts DEF EglSurface
  <1>2. egl[t] # Unbound /\ BindingOf(egl[t], tinfo[t], win)
    BY <1>1 DEF EglInv, Unbound
  <1>3. tinfo[t].draw = w /\ tinfo[t].ctx \in Contexts /\ egl[t].ctx = tinfo[t].ctx
    BY <1>1, <1>2 DEF BindingOf, Backs
  <1>4. win[w].draw = tinfo[t].ctx /\ tinfo[t].ctx # Null
    BY <1>2, <1>3, NullAssumption DEF OwnerInv
  <1>5. cbSize[win[w].cb] = win[w].size
    BY DEF SizeInv, BlitSizesAgree
  <1>6. BindOK(t, egl)
    BY NoFBContext DEF BindOK
  <1>7. MakeCurrentOK(t, FlushBinding(w), egl, table, tinfo, win)
    <2>1. ContextExists(win[w].draw, table, tinfo, win)
      BY <1>4 DEF ContextExists
    <2>2. SurfaceValid(EglSurface(w), table, tinfo, win)
      BY <1>1, <1>3 DEF SurfaceValid, WindowExists
    <2>3. \A u \in Threads \ {t} :
             egl[u].ctx # win[w].draw /\ EglSurface(w) \notin {egl[u].draw, egl[u].read}
      BY <1>2, <1>3, <1>4 DEF EglInv, Apart
    <2> QED BY <1>3, <1>4, <2>1, <2>2, <2>3 DEF MakeCurrentOK, FlushBinding
  <1> QED BY <1>4, <1>5, <1>6, <1>7 DEF FlushOutcome

\* With the guest's EGL library keeping "attach" and "unbind", and pbuffers that can be
\* made, flushing the surface a thread has current always updates the attached buffer:
\* the context the surface remembers is the thread's own (WindowSurface.cpp:79-83).
THEOREM FlushAlwaysUpdates ==
  ASSUME {"attach", "unbind"} \subseteq Rules, ~EglMayFail
  PROVE  Spec => []FlushOfCurrentUpdates
  <1>1. Init => OwnerInv
    BY DEF Init, OwnerInv, Unbound
  <1>2. Spec => []EglInv
    <2>1. "attach" \in Rules
      OBVIOUS
    <2> QED BY <2>1, EglInvariance
  <1>3. SizeInv /\ EglInv /\ OwnerInv /\ [Next]_vars => OwnerInv'
    BY NextOwnerInv
  <1>4. SizeInv /\ EglInv /\ OwnerInv => FlushOfCurrentUpdates
    BY CurrentFlushUpdates DEF FlushOfCurrentUpdates
  <1> QED BY <1>1, <1>2, <1>3, <1>4, SizeInvariance, PTL DEF Spec

-----------------------------------------------------------------------------
(* Part 4: the guest's EGL library, its types *)

GuestCalls == [at : {"idle", "sent", "replied"}, ctx : Contexts \cup {Null},
               draw : Addrs \cup {Null}, read : Addrs \cup {Null}, destroy : BOOLEAN]
BoundSurfaces == [draw : Addrs \cup {Null}, read : Addrs \cup {Null}]

\* the guest's half of GuestTypeOK
GuestTypes ==
    /\ cur \in [Threads -> Contexts \cup {Null}]
    /\ flag \subseteq Contexts /\ alive \subseteq Contexts
    /\ bound \in [Contexts -> BoundSurfaces]
    /\ surf \in [Addrs -> Windows \cup {Null}]
    /\ dequeued \in [Windows -> Buffers \cup {Null}]
    /\ call \in [Threads -> GuestCalls]
    /\ pending \in [Threads -> Seq(PendingCalls)]
    /\ astray \subseteq Windows

\* the calls that attach a color buffer
Attaching == {"attach", "set"}

SetsFirst(q) ==
    \A i \in 1 .. Len(q) : q[i].op \in Attaching =>
        i = 1 /\ q[i].target \in Windows /\ q[i].buffer \in Buffers

\* what is on the way: outside of eglMakeCurrent a thread's call is Idle; only a thread
\* with a context is in eglDestroyContext's release; rcSetWindowColorBuffer is the first
\* of the calls that were not executed, its senders having waited for a result
CallsOK ==
    \A t \in Threads :
        /\ call[t].at = "idle" => call[t] = Idle
        /\ call[t].destroy => cur[t] # Null
        /\ SetsFirst(pending[t])

BuffersSized == \A b \in Buffers : cbSize[b] \in Sizes

TypeInv == SizeInv /\ GuestTypes /\ CallsOK /\ BuffersSized

\* a call is put into the write buffer of t; the host executes the first one
Queues(t, c) == pending' = Sent(t, c)
Runs(t) == pending' = [pending EXCEPT ![t] = Tail(@)]

\* A call without result is added behind the ones that were not executed.
LEMMA QueuesFacts ==
  ASSUME GuestTypes, NEW t \in Threads, NEW c \in PendingCalls, Queues(t, c)
  PROVE  /\ pending' \in [Threads -> Seq(PendingCalls)]
         /\ \A u \in Threads \ {t} : pending'[u] = pending[u]
         /\ Len(pending[t]) \in Nat /\ Len(pending'[t]) = Len(pending[t]) + 1
         /\ \A i \in 1 .. Len(pending[t]) : pending'[t][i] = pending[t][i]
         /\ pending'[t][Len(pending[t]) + 1] = c
         /\ pending[t] = <<>> => Len(pending[t]) = 0
         /\ pending[t] # <<>> => 1 \in 1 .. Len(pending[t])
         /\ pending'[t] # <<>>
  <1>1. PICK q \in Seq(PendingCalls) : q = pending[t]
    BY DEF GuestTypes
  <1>2. pending' = [pending EXCEPT ![t] = Append(q, c)]
    BY <1>1 DEF Queues, Sent
  <1>3. /\ Append(q, c) \in Seq(PendingCalls) /\ Len(Append(q, c)) = Len(q) + 1
        /\ \A i \in 1 .. Len(q) : Append(q, c)[i] = q[i]
        /\ Append(q, c)[Len(q) + 1] = c /\ Append(q, c) # <<>>
    BY <1>1, AppendProperties
  <1>4. Len(q) \in Nat /\ (q = <<>> => Len(q) = 0) /\ (q # <<>> => 1 \in 1 .. Len(q))
    BY <1>1, LenProperties, EmptySeq
  <1>5. pending'[t] = Append(q, c) /\ \A u \in Threads \ {t} : pending'[u] = pending[u]
    BY <1>2 DEF GuestTypes
  <1>6. pending' \in [Threads -> Seq(PendingCalls)]
    BY <1>2, <1>3 DEF GuestTypes
  <1> QED BY <1>1, <1>3, <1>4, <1>5, <1>6

\* The host executes the calls of a connection in order.
LEMMA RunsFacts ==
  ASSUME GuestTypes, NEW t \in Threads, pending[t] # <<>>, Runs(t)
  PROVE  /\ pending' \in [Threads -> Seq(PendingCalls)]
         /\ \A u \in Threads \ {t} : pending'[u] = pending[u]
         /\ Len(pending[t]) \in Nat /\ 1 \in 1 .. Len(pending[t])
         /\ \A i \in 1 .. Len(pending'[t]) :
               /\ i + 1 \in 1 .. Len(pending[t]) /\ i + 1 # 1
               /\ pending'[t][i] = pending[t][i + 1]
         /\ Head(pending[t]) = pending[t][1] /\ pending[t][1] \in PendingCalls
         /\ pending'[t] # <<>> => 1 \in 1 .. Len(pending'[t])
  <1>1. PICK q \in Seq(PendingCalls) : q = pending[t]
    BY DEF GuestTypes
  <1>2. pending' = [pending EXCEPT ![t] = Tail(q)]
    BY <1>1 DEF Runs
  <1>3. q # <<>> /\ Len(q) \in Nat /\ Len(q) # 0
    BY <1>1, LenProperties, EmptySeq
  <1>4. /\ Tail(q) \in Seq(PendingCalls) /\ Len(Tail(q)) = Len(q) - 1
        /\ \A i \in 1 .. Len(Tail(q)) : Tail(q)[i] = q[i + 1]
        /\ Head(q) = q[1] /\ Head(q) \in PendingCalls
    BY <1>1, <1>3, HeadTailProperties
  <1>5. Len(Tail(q)) \in Nat /\ (Tail(q) # <<>> => 1 \in 1 .. Len(Tail(q)))
    BY <1>4, LenProperties, EmptySeq
  <1>6. \A i \in 1 .. Len(Tail(q)) : i + 1 \in 1 .. Len(q) /\ i + 1 # 1
    BY <1>3, <1>4
  <1>7. pending'[t] = Tail(q) /\ \A u \in Threads \ {t} : pending'[u] = pending[u]
    BY <1>2 DEF GuestTypes
  <1>8. pending' \in [Threads -> Seq(PendingCalls)]
    BY <1>2, <1>4 DEF GuestTypes
  <1>9. 1 \in 1 .. Len(q)
    BY <1>3
  <1> QED BY <1>1, <1>3, <1>4, <1>5, <1>6, <1>7, <1>8, <1>9

\* A thread's first call, when it has one.
LEMMA FirstCall ==
  ASSUME GuestTypes, NEW t \in Threads, pending[t] # <<>>
  PROVE  /\ 1 \in 1 .. Len(pending[t]) /\ Head(pending[t]) = pending[t][1]
         /\ pending[t][1] \in PendingCalls
  <1>1. PICK q \in Seq(PendingCalls) : q = pending[t]
    BY DEF GuestTypes
  <1>2. q # <<>> /\ Len(q) \in Nat /\ Len(q) # 0
    BY <1>1, LenProperties, EmptySeq
  <1>3. Head(q) = q[1] /\ Head(q) \in PendingCalls
    BY <1>1, <1>2, HeadTailProperties
  <1> QED BY <1>1, <1>2, <1>3

\* The surface at an address of the guest, or none.
LEMMA HandleTypes ==
  ASSUME GuestTypes, NEW a \in Addrs \cup {Null}
  PROVE  Handle(a) \in Windows \cup {Null}
  BY AddrsAssumption DEF GuestTypes, Handle

\* What the guest makes the host do is a step of FrameBuffer or leaves it alone, and no
\* buffer changes its dimensions.
LEMMA HostMakesCurrentStep ==
  ASSUME TypeInv, NEW t \in Threads \ ended, HostMakesCurrent(t)
  PROVE  [Next]_vars /\ UNCHANGED cbSize
  <1> DEFINE c == call[t].ctx
             d == Handle(call[t].draw)
             r == Handle(call[t].read)
  <1>1. c \in Contexts \cup {Null} /\ d \in Windows \cup {Null} /\ r \in Windows \cup {Null}
    <2>1. call[t] \in GuestCalls /\ GuestTypes
      BY DEF TypeInv, GuestTypes
    <2> QED BY <2>1, HandleTypes DEF GuestCalls
  <1>2. Null \notin table
    BY NullAssumption DEF TypeInv, SizeInv, TypeOK
  <1>3. CASE UnbindContext(t)
    BY <1>3 DEF Next, UnbindContext, Rebind
  <1>4. CASE c # Null /\ BindContext(t, c, d, r)
    <2>1. d \in Windows /\ r \in Windows /\ c \in Contexts
      BY <1>1, <1>2, <1>4 DEF BindContext
    <2> HIDE DEF c, d, r
    <2>2. UNCHANGED cbSize
      BY <1>4 DEF BindContext, Rebind
    <2> QED BY <1>4, <2>1, <2>2 DEF Next
  <1>5. CASE UNCHANGED vars
    BY <1>5 DEF vars
  <1> QED BY <1>3, <1>4, <1>5 DEF HostMakesCurrent

\* A call without result, when it is executed, is an operation of the FrameBuffer or does
\* nothing.
LEMMA HostExecutesStep ==
  ASSUME TypeInv, NEW t \in Threads \ ended, HostExecutes(t)
  PROVE  [Next]_vars /\ UNCHANGED cbSize
  <1>1. PICK c \in PendingCalls : c = Head(pending[t]) /\ c = pending[t][1]
    BY FirstCall DEF HostExecutes, TypeInv
  <1>2. 1 \in 1 .. Len(pending[t])
    BY FirstCall DEF HostExecutes, TypeInv
  <1>3. c.op \in Attaching => c.target \in Windows /\ c.buffer \in Buffers
    BY <1>1, <1>2 DEF TypeInv, CallsOK, SetsFirst
  <1>4. \/ c.op \in Attaching /\ SetWindowSurfaceColorBuffer(t, c.target, c.buffer)
        \/ UNCHANGED vars
        \/ EraseHandle(t, c.target)
    BY <1>1 DEF HostExecutes, Attaching
  <1>5. CASE c.op \in Attaching /\ SetWindowSurfaceColorBuffer(t, c.target, c.buffer)
    <2>1. UNCHANGED cbSize
      BY <1>5 DEF SetWindowSurfaceColorBuffer
    <2> QED BY <1>3, <1>5, <2>1 DEF Next
  <1>6. CASE UNCHANGED vars
    BY <1>6 DEF vars
  <1>7. CASE EraseHandle(t, c.target)
    <2>1. UNCHANGED cbSize /\ c.target \in table
      BY <1>7 DEF EraseHandle
    <2> QED BY <1>7, <2>1 DEF Next
  <1> QED BY <1>4, <1>5, <1>6, <1>7

\* Every step of the guest is, on the host, an operation of the FrameBuffer or a stutter,
\* so what Part 1 shows of every client holds for this one.
LEMMA GuestHostStep ==
  ASSUME TypeInv, [GuestNext]_allvars
  PROVE  [Next]_vars /\ UNCHANGED cbSize
  <1> USE DEF TypeInv
  <1>1. ASSUME NEW t \in Threads \ ended, NEW c \in Contexts, EglCreateContext(t, c)
        PROVE  [Next]_vars /\ UNCHANGED cbSize
    BY <1>1 DEF EglCreateContext, CreateRenderContext, Next
  <1>2. ASSUME NEW t \in Threads \ ended, NEW c \in Contexts, EglDestroyContext(t, c)
        PROVE  [Next]_vars /\ UNCHANGED cbSize
    BY <1>2 DEF EglDestroyContext, vars
  <1>3. ASSUME NEW t \in Threads \ ended, NEW a \in Addrs, NEW w \in Windows,
               NEW b \in Buffers, EglCreateWindowSurface(t, a, w, b)
        PROVE  [Next]_vars /\ UNCHANGED cbSize
    <2>1. CreateWindowSurface(w, cbSize[b]) /\ cbSize[b] \in Sizes
      BY <1>3 DEF EglCreateWindowSurface, BuffersSized
    <2>2. UNCHANGED cbSize
      BY <2>1 DEF CreateWindowSurface
    <2> QED BY <2>1, <2>2 DEF Next
  <1>4. ASSUME NEW t \in Threads \ ended, NEW a \in Addrs, EglDestroySurface(t, a)
        PROVE  [Next]_vars /\ UNCHANGED cbSize
    BY <1>4 DEF EglDestroySurface, vars
  <1>5. ASSUME NEW t \in Threads \ ended, NEW a \in Addrs, EglSwapBuffers(t, a)
        PROVE  [Next]_vars /\ UNCHANGED cbSize
    <2>1. surf[a] \in Windows /\ FlushWindowSurfaceColorBuffer(t, surf[a])
      BY <1>5 DEF EglSwapBuffers, GuestTypes
    <2>2. UNCHANGED cbSize
      BY <2>1 DEF FlushWindowSurfaceColorBuffer
    <2> QED BY <2>1, <2>2 DEF Next
  <1>6. ASSUME NEW t \in Threads \ ended, NEW c, NEW d, NEW r, EglMakeCurrent(t, c, d, r)
        PROVE  [Next]_vars /\ UNCHANGED cbSize
    BY <1>6 DEF EglMakeCurrent, vars
  <1>7. ASSUME NEW t \in Threads \ ended, LocalBind(t)
        PROVE  [Next]_vars /\ UNCHANGED cbSize
    BY <1>7 DEF LocalBind, vars
  <1>8. ASSUME NEW t \in Threads \ ended, ThreadExits(t)
        PROVE  [Next]_vars /\ UNCHANGED cbSize
    BY <1>8 DEF ThreadExits, ThreadEnds, Next
  <1>9. ASSUME NEW t \in Threads \ ended, NEW b \in Buffers, PostBuffer(t, b)
        PROVE  [Next]_vars /\ UNCHANGED cbSize
    <2>1. UseColorBuffer(t, b) /\ UNCHANGED cbSize
      BY <1>9 DEF PostBuffer, UseColorBuffer
    <2> QED BY <2>1 DEF Next
  <1>10. CASE UNCHANGED allvars
    BY <1>10 DEF allvars, vars
  <1> QED BY <1>1, <1>2, <1>3, <1>4, <1>5, <1>6, <1>7, <1>8, <1>9, <1>10,
             HostMakesCurrentStep, HostExecutesStep
          DEF GuestNext

\* The calls the guest sends.
LEMMA CallTypes ==
  /\ \A w \in Windows, b \in Buffers : /\ SetCall(w, b) \in PendingCalls
                                      /\ AttachCall(w, b) \in PendingCalls
  /\ \A h \in Windows \cup Contexts : DestroyCall(h) \in PendingCalls
  /\ Idle \in GuestCalls /\ Idle.at = "idle" /\ ~Idle.destroy
  /\ Idle.draw = Null /\ Idle.read = Null /\ Idle.ctx = Null
  BY DEF SetCall, AttachCall, DestroyCall, PendingCalls, Idle, GuestCalls

\* A call that is sent without result: one that sets a color buffer finds the thread's
\* connection empty.
LEMMA QueuesCallsOK ==
  ASSUME GuestTypes, CallsOK, NEW t \in Threads, NEW c \in PendingCalls, Queues(t, c),
         c.op \in Attaching => /\ pending[t] = <<>> /\ c.target \in Windows
                               /\ c.buffer \in Buffers,
         UNCHANGED <<call, cur>>
  PROVE  pending' \in [Threads -> Seq(PendingCalls)] /\ CallsOK'
  <1>1. /\ pending' \in [Threads -> Seq(PendingCalls)]
        /\ \A u \in Threads \ {t} : pending'[u] = pending[u]
        /\ Len(pending[t]) \in Nat /\ Len(pending'[t]) = Len(pending[t]) + 1
        /\ \A i \in 1 .. Len(pending[t]) : pending'[t][i] = pending[t][i]
        /\ pending'[t][Len(pending[t]) + 1] = c
        /\ pending[t] = <<>> => Len(pending[t]) = 0
    BY QueuesFacts
  <1>2. ASSUME NEW i \in 1 .. Len(pending'[t]), pending'[t][i].op \in Attaching
        PROVE  /\ i = 1 /\ pending'[t][i].target \in Windows
               /\ pending'[t][i].buffer \in Buffers
    <2>1. i \in 1 .. Len(pending[t]) \/ i = Len(pending[t]) + 1
      BY <1>1, <1>2
    <2> QED BY <1>1, <1>2, <2>1 DEF CallsOK, SetsFirst
  <1>3. SetsFirst(pending'[t]) /\ \A u \in Threads \ {t} : SetsFirst(pending'[u])
    BY <1>1, <1>2 DEF CallsOK, SetsFirst
  <1> QED BY <1>1, <1>3 DEF CallsOK

\* eglMakeCurrent changes the call of one thread and, at its end, its context.
LEMMA CallChangeOK ==
  ASSUME GuestTypes, CallsOK, NEW t \in Threads, NEW c \in GuestCalls,
         call' = [call EXCEPT ![t] = c], UNCHANGED pending,
         \A u \in Threads \ {t} : cur'[u] = cur[u],
         c.at = "idle" => c = Idle, c.destroy => cur'[t] # Null
  PROVE  call' \in [Threads -> GuestCalls] /\ CallsOK'
  <1>1. /\ call' \in [Threads -> GuestCalls] /\ call'[t] = c
        /\ \A u \in Threads \ {t} : call'[u] = call[u]
    BY DEF GuestTypes
  <1> QED BY <1>1 DEF CallsOK

\* Creation and destruction of contexts (egl.cpp:857-915) keep the types.
LEMMA ContextTypes ==
  ASSUME TypeInv, NEW t \in Threads, NEW c \in Contexts,
         EglCreateContext(t, c) \/ EglDestroyContext(t, c)
  PROVE  GuestTypes' /\ CallsOK'
  <1> USE DEF TypeInv
  <1>1. CASE EglCreateContext(t, c)
    <2>1. alive' = alive \cup {c} /\ UNCHANGED <<cur, flag, bound, surf, dequeued, call, pending, astray>>
      BY <1>1 DEF EglCreateContext
    <2>2. CallsOK'
      BY <2>1 DEF CallsOK
    <2> QED BY <2>1, <2>2 DEF GuestTypes
  <1>2. CASE EglDestroyContext(t, c) /\ cur[t] = c
    <2> DEFINE k == [Idle EXCEPT !.at = "sent", !.destroy = TRUE]
    <2>1. k \in GuestCalls /\ k.at = "sent"
      BY CallTypes DEF Idle, GuestCalls
    <2>2. call' = [call EXCEPT ![t] = k] /\ UNCHANGED <<pending, cur, flag, bound, surf, dequeued, alive, astray>>
      BY <1>2 DEF EglDestroyContext
    <2> HIDE DEF k
    <2>3. call' \in [Threads -> GuestCalls] /\ CallsOK'
      BY <1>2, <2>1, <2>2, CallChangeOK, NullAssumption
    <2> QED BY <2>2, <2>3 DEF GuestTypes
  <1>3. CASE EglDestroyContext(t, c) /\ cur[t] # c
    <2>1. Queues(t, DestroyCall(c)) /\ UNCHANGED <<call, cur, flag, bound, surf, dequeued, astray>>
          /\ alive' = alive \ {c}
      BY <1>3 DEF EglDestroyContext, ContextDeleted, Queues
    <2>2. DestroyCall(c) \in PendingCalls /\ DestroyCall(c).op \notin Attaching
      BY CallTypes DEF DestroyCall, Attaching
    <2>3. pending' \in [Threads -> Seq(PendingCalls)] /\ CallsOK'
      BY <2>1, <2>2, QueuesCallsOK
    <2> QED BY <2>1, <2>3 DEF GuestTypes
  <1> QED BY <1>1, <1>2, <1>3

\* Creation, destruction and swap of surfaces (egl.cpp:264-335, 611-733, 1096-1125) keep the types.
LEMMA SurfaceTypes ==
  ASSUME TypeInv, NEW t \in Threads, NEW a \in Addrs, NEW w, NEW b,
         \/ EglCreateWindowSurface(t, a, w, b)
         \/ EglDestroySurface(t, a) \/ EglSwapBuffers(t, a)
  PROVE  GuestTypes' /\ CallsOK'
  <1> USE DEF TypeInv
  <1>0. surf \in [Addrs -> Windows \cup {Null}] /\ dequeued \in [Windows -> Buffers \cup {Null}]
    BY DEF GuestTypes
  <1>1. CASE EglCreateWindowSurface(t, a, w, b)
    <2>1. /\ Queues(t, AttachCall(w, b)) /\ UNCHANGED <<call, cur, flag, bound, alive, astray>>
          /\ pending[t] = <<>> /\ surf' = [surf EXCEPT ![a] = w]
          /\ dequeued' = [dequeued EXCEPT ![w] = b]
      BY <1>1 DEF EglCreateWindowSurface, Queues, Executed, egls
    <2>a. w \in Windows /\ b \in Buffers
      BY <1>1 DEF EglCreateWindowSurface, CreateWindowSurface, Dequeue
    <2>2. /\ AttachCall(w, b) \in PendingCalls /\ AttachCall(w, b).target = w
          /\ AttachCall(w, b).buffer = b
      BY <2>a, CallTypes DEF AttachCall
    <2>3. pending' \in [Threads -> Seq(PendingCalls)] /\ CallsOK'
      BY <2>1, <2>2, <2>a, QueuesCallsOK
    <2>4. surf' \in [Addrs -> Windows \cup {Null}] /\ dequeued' \in [Windows -> Buffers \cup {Null}]
      BY <1>0, <2>1, <2>a
    <2> QED BY <2>1, <2>3, <2>4 DEF GuestTypes
  <1>2. CASE EglDestroySurface(t, a)
    <2>1. /\ Queues(t, DestroyCall(surf[a])) /\ UNCHANGED <<call, cur, flag, bound, alive, astray>>
          /\ surf[a] # Null /\ surf' = [surf EXCEPT ![a] = Null]
          /\ dequeued' = [dequeued EXCEPT ![surf[a]] = Null]
      BY <1>2 DEF EglDestroySurface, Queues, egls
    <2>2. PICK v \in Windows : v = surf[a]
      BY <1>0, <2>1
    <2>3. DestroyCall(v) \in PendingCalls /\ DestroyCall(v).op \notin Attaching
      BY CallTypes DEF DestroyCall, Attaching
    <2>4. pending' \in [Threads -> Seq(PendingCalls)] /\ CallsOK'
      BY <2>1, <2>2, <2>3, QueuesCallsOK
    <2>5. surf' \in [Addrs -> Windows \cup {Null}] /\ dequeued' \in [Windows -> Buffers \cup {Null}]
      BY <1>0, <2>1, <2>2
    <2> QED BY <2>1, <2>4, <2>5 DEF GuestTypes
  <1>3. CASE EglSwapBuffers(t, a)
    <2>1. /\ pending[t] = <<>> /\ surf[a] # Null
          /\ UNCHANGED <<call, cur, flag, bound, alive, surf, astray>>
      BY <1>3 DEF EglSwapBuffers, Executed, egls
    <2>2. PICK v \in Windows : v = surf[a]
      BY <1>0, <2>1
    <2>3. \/ \E e \in Buffers : dequeued' = [dequeued EXCEPT ![v] = e] /\ Queues(t, SetCall(v, e))
          \/ dequeued' = [dequeued EXCEPT ![v] = Null] /\ UNCHANGED pending
      BY <1>3, <2>2 DEF EglSwapBuffers, Queues
    <2>4. ASSUME NEW e \in Buffers, dequeued' = [dequeued EXCEPT ![v] = e],
                 Queues(t, SetCall(v, e))
          PROVE  GuestTypes' /\ CallsOK'
      <3>1. SetCall(v, e) \in PendingCalls /\ SetCall(v, e).target = v /\ SetCall(v, e).buffer = e
        BY CallTypes DEF SetCall
      <3>2. pending' \in [Threads -> Seq(PendingCalls)] /\ CallsOK'
        BY <2>1, <2>4, <3>1, QueuesCallsOK
      <3>3. dequeued' \in [Windows -> Buffers \cup {Null}]
        BY <1>0, <2>4
      <3> QED BY <2>1, <3>2, <3>3 DEF GuestTypes
    <2>5. CASE dequeued' = [dequeued EXCEPT ![v] = Null] /\ UNCHANGED pending
      <3>1. dequeued' \in [Windows -> Buffers \cup {Null}]
        BY <1>0, <2>5
      <3> QED BY <2>1, <2>5, <3>1 DEF GuestTypes, CallsOK
    <2> QED BY <2>3, <2>4, <2>5
  <1> QED BY <1>1, <1>2, <1>3

\* eglMakeCurrent, from its checks to its local bind, keeps the types
\* (egl.cpp:917-1019).
LEMMA MakeCurrentTypes ==
  ASSUME TypeInv, NEW t \in Threads, NEW c \in Contexts \cup {Null},
         NEW d \in Addrs \cup {Null}, NEW r \in Addrs \cup {Null},
         EglMakeCurrent(t, c, d, r) \/ HostMakesCurrent(t) \/ LocalBind(t)
  PROVE  GuestTypes' /\ CallsOK'
  <1> USE DEF TypeInv
  <1>0. call[t] \in GuestCalls
    BY DEF GuestTypes
  <1>1. CASE EglMakeCurrent(t, c, d, r)
    <2> DEFINE k == [at |-> "sent", ctx |-> c, draw |-> d, read |-> r, destroy |-> FALSE]
    <2>1. k \in GuestCalls /\ k.at = "sent" /\ ~k.destroy
      BY DEF GuestCalls
    <2>2. call' = [call EXCEPT ![t] = k] /\ UNCHANGED <<pending, cur, flag, bound, surf, dequeued, alive, astray>>
      BY <1>1 DEF EglMakeCurrent, egls
    <2> HIDE DEF k
    <2>3. call' \in [Threads -> GuestCalls] /\ CallsOK'
      BY <2>1, <2>2, CallChangeOK
    <2> QED BY <2>2, <2>3 DEF GuestTypes
  <1>2. CASE HostMakesCurrent(t)
    <2>1. UNCHANGED <<pending, cur, flag, bound, surf, dequeued, alive, astray>>
      BY <1>2 DEF HostMakesCurrent, egls
    <2>2. CASE call' = [call EXCEPT ![t].at = "replied"]
      <3> DEFINE k == [call[t] EXCEPT !.at = "replied"]
      <3>1. k \in GuestCalls /\ k.at = "replied" /\ (k.destroy = call[t].destroy)
        BY <1>0 DEF GuestCalls
      <3>2. call' = [call EXCEPT ![t] = k]
        BY <2>2
      <3> HIDE DEF k
      <3>3. k.destroy => cur'[t] # Null
        BY <2>1, <3>1 DEF CallsOK
      <3>4. call' \in [Threads -> GuestCalls] /\ CallsOK'
        BY <2>1, <3>1, <3>2, <3>3, CallChangeOK
      <3> QED BY <2>1, <3>4 DEF GuestTypes
    <2>3. CASE call' = [call EXCEPT ![t] = Idle]
      <3>1. call' \in [Threads -> GuestCalls] /\ CallsOK'
        BY <2>1, <2>3, CallTypes, CallChangeOK
      <3> QED BY <2>1, <3>1 DEF GuestTypes
    <2> QED BY <1>2, <2>2, <2>3 DEF HostMakesCurrent, Refused
  <1>3. CASE LocalBind(t)
    <2> DEFINE x == call[t].ctx
               s == [draw |-> call[t].draw, read |-> call[t].read]
    <2>1. x \in Contexts \cup {Null} /\ s \in BoundSurfaces
      BY <1>0 DEF GuestCalls, BoundSurfaces
    <2>2. /\ bound' = (IF x = Null THEN bound ELSE [bound EXCEPT ![x] = s])
          /\ flag' = FlagAfter(x, cur[t]) /\ cur' = [cur EXCEPT ![t] = x]
          /\ call' = [call EXCEPT ![t] = Idle] /\ UNCHANGED <<surf, dequeued, astray>>
      BY <1>3 DEF LocalBind
    <2> HIDE DEF x, s
    <2>3. /\ bound' \in [Contexts -> BoundSurfaces] /\ cur' \in [Threads -> Contexts \cup {Null}]
          /\ \A u \in Threads \ {t} : cur'[u] = cur[u]
      BY <2>1, <2>2 DEF GuestTypes
    <2>4. flag' \subseteq Contexts
      BY <2>1, <2>2 DEF FlagAfter, GuestTypes
    <2>5. /\ call' \in [Threads -> GuestCalls] /\ call'[t] = Idle
          /\ \A u \in Threads \ {t} : call'[u] = call[u]
      BY <2>2, CallTypes DEF GuestTypes
    <2>6. alive' \subseteq Contexts
      BY <1>3 DEF LocalBind, ContextDeleted, GuestTypes
    <2>7. /\ pending' \in [Threads -> Seq(PendingCalls)]
          /\ \A u \in Threads : SetsFirst(pending'[u])
      <3>1. CASE ~call[t].destroy
        <4>1. UNCHANGED pending
          BY <1>3, <3>1 DEF LocalBind
        <4> QED BY <4>1 DEF GuestTypes, CallsOK
      <3>2. CASE call[t].destroy
        <4>1. Queues(t, DestroyCall(cur[t])) /\ cur[t] \in Contexts
          BY <1>3, <3>2 DEF LocalBind, ContextDeleted, Queues, CallsOK, GuestTypes
        <4>2. PICK y \in Contexts : y = cur[t]
          BY <4>1
        <4>3. DestroyCall(y) \in PendingCalls /\ DestroyCall(y).op \notin Attaching
          BY CallTypes DEF DestroyCall, Attaching
        <4>4. /\ pending' \in [Threads -> Seq(PendingCalls)]
              /\ \A u \in Threads \ {t} : pending'[u] = pending[u]
              /\ Len(pending[t]) \in Nat /\ Len(pending'[t]) = Len(pending[t]) + 1
              /\ \A i \in 1 .. Len(pending[t]) : pending'[t][i] = pending[t][i]
              /\ pending'[t][Len(pending[t]) + 1] = DestroyCall(y)
          BY <4>1, <4>2, <4>3, QueuesFacts
        <4>5. ASSUME NEW i \in 1 .. Len(pending'[t]), pending'[t][i].op \in Attaching
              PROVE  i \in 1 .. Len(pending[t])
          BY <4>3, <4>4, <4>5
        <4>6. SetsFirst(pending'[t])
          BY <4>4, <4>5 DEF CallsOK, SetsFirst
        <4> QED BY <4>4, <4>6 DEF CallsOK
      <3> QED BY <3>1, <3>2
    <2>8. CallsOK'
      <3>1. ASSUME NEW u \in Threads
            PROVE  /\ call'[u].at = "idle" => call'[u] = Idle
                   /\ call'[u].destroy => cur'[u] # Null
        BY <2>3, <2>5, CallTypes DEF CallsOK
      <3> QED BY <2>7, <3>1 DEF CallsOK
    <2> QED BY <2>2, <2>3, <2>4, <2>5, <2>6, <2>7, <2>8 DEF GuestTypes
  <1> QED BY <1>1, <1>2, <1>3

\* The host's executions, a thread's end and a post keep the types.
LEMMA OtherTypes ==
  ASSUME TypeInv, NEW t \in Threads, NEW b,
         HostExecutes(t) \/ ThreadExits(t) \/ PostBuffer(t, b)
  PROVE  GuestTypes' /\ CallsOK'
  <1> USE DEF TypeInv
  <1>1. CASE HostExecutes(t)
    <2>1. /\ Runs(t) /\ pending[t] # <<>>
          /\ UNCHANGED <<cur, flag, bound, alive, surf, dequeued, call>>
      BY <1>1 DEF HostExecutes, Runs, egls
    <2>2. /\ pending' \in [Threads -> Seq(PendingCalls)]
          /\ \A u \in Threads \ {t} : pending'[u] = pending[u]
          /\ \A i \in 1 .. Len(pending'[t]) : /\ i + 1 \in 1 .. Len(pending[t]) /\ i + 1 # 1
                                              /\ pending'[t][i] = pending[t][i + 1]
      BY <2>1, RunsFacts
    <2>3. SetsFirst(pending'[t])
      BY <2>2 DEF CallsOK, SetsFirst
    <2>4. CallsOK'
      BY <2>1, <2>2, <2>3 DEF CallsOK
    <2>5. astray' \subseteq Windows
      <3>1. PICK c \in PendingCalls : c = Head(pending[t]) /\ c = pending[t][1]
        BY <2>1, FirstCall
      <3>2. c.op \in Attaching => c.target \in Windows
        BY <2>1, <3>1, FirstCall DEF CallsOK, SetsFirst
      <3>3. UNCHANGED astray \/ (c.op \in Attaching /\ astray' = AstrayAfter(c))
        BY <1>1, <3>1 DEF HostExecutes, Attaching
      <3> QED BY <3>2, <3>3 DEF AstrayAfter, GuestTypes
    <2> QED BY <2>1, <2>2, <2>4, <2>5 DEF GuestTypes
  <1>2. CASE ThreadExits(t)
    <2>1. /\ cur' = [cur EXCEPT ![t] = Null] /\ pending' = [pending EXCEPT ![t] = <<>>]
          /\ UNCHANGED <<flag, bound, alive, surf, dequeued, call>> /\ call[t].at = "idle"
      BY <1>2 DEF ThreadExits, InCall
    <2>2. <<>> \in Seq(PendingCalls) /\ Len(<<>>) = 0
      BY EmptySeq
    <2>3. cur' \in [Threads -> Contexts \cup {Null}] /\ pending' \in [Threads -> Seq(PendingCalls)]
      BY <2>1, <2>2 DEF GuestTypes
    <2>4. /\ pending'[t] = <<>> /\ cur'[t] = Null
          /\ \A u \in Threads \ {t} : pending'[u] = pending[u] /\ cur'[u] = cur[u]
      BY <2>1 DEF GuestTypes
    <2>5. ~call[t].destroy
      BY <2>1, CallTypes DEF CallsOK
    <2>6. SetsFirst(pending'[t])
      BY <2>2, <2>4 DEF SetsFirst
    <2>7. CallsOK'
      BY <2>1, <2>4, <2>5, <2>6 DEF CallsOK
    <2>8. astray' \subseteq Windows
      BY <1>2 DEF ThreadExits, GuestTypes
    <2> QED BY <2>1, <2>3, <2>7, <2>8 DEF GuestTypes
  <1>3. CASE PostBuffer(t, b)
    <2>1. UNCHANGED <<cur, flag, bound, alive, surf, dequeued, call, pending, astray>>
      BY <1>3 DEF PostBuffer, gvars, egls
    <2>2. CallsOK'
      BY <2>1 DEF CallsOK
    <2> QED BY <2>1, <2>2 DEF GuestTypes
  <1> QED BY <1>1, <1>2, <1>3

\* The first state, with the windows' buffers of one size already created, is well typed.
LEMMA GuestInitTypes == GuestInit => TypeInv
  <1> SUFFICES ASSUME GuestInit PROVE TypeInv
    OBVIOUS
  <1>1. PICK size \in Sizes : cbSize = [b \in Buffers |-> size]
    BY DEF GuestInit
  <1>2. /\ win \in [Windows -> WindowSurfaces]
        /\ \A w \in Windows : win[w].cb = Null /\ ~win[w].live
    BY MaxGenAssumption DEF GuestInit, NewWindow, WindowSurfaces
  <1>3. tinfo \in [Threads -> ThreadInfos]
    BY DEF GuestInit, Unbound, ThreadInfos
  <1>4. egl \in [Threads -> EglBindings] /\ prev \in EglBindings
    BY BindingTypes DEF GuestInit
  <1>5. SizeInv /\ BuffersSized
    BY <1>1, <1>2, <1>3, <1>4
    DEF GuestInit, SizeInv, TypeOK, PbuffersCounted, AttachedWasMade, BlitSizesAgree,
        BuffersSized
  <1>6. <<>> \in Seq(PendingCalls) /\ Len(<<>>) = 0
    BY EmptySeq
  <1>7. GuestTypes
    BY <1>6, CallTypes DEF GuestInit, GuestTypes, NoSurfaces, BoundSurfaces
  <1>8. CallsOK
    BY <1>6, CallTypes DEF GuestInit, CallsOK, SetsFirst
  <1> QED BY <1>5, <1>7, <1>8 DEF TypeInv

\* Every step of the guest and of the host keeps the types, whatever rules applications keep.
LEMMA GuestNextTypes == TypeInv /\ [GuestNext]_allvars => TypeInv'
  <1> SUFFICES ASSUME TypeInv, [GuestNext]_allvars PROVE TypeInv'
    OBVIOUS
  <1>1. [Next]_vars /\ UNCHANGED cbSize
    BY GuestHostStep
  <1>2. SizeInv'
    BY <1>1, NextSizeInv DEF TypeInv
  <1>3. BuffersSized'
    BY <1>1 DEF TypeInv, BuffersSized
  <1>4. GuestTypes' /\ CallsOK'
    <2>1. CASE UNCHANGED allvars
      <3>1. UNCHANGED <<cur, flag, bound, alive, surf, dequeued, call, pending, astray>>
        BY <2>1 DEF allvars, gvars, egls
      <3>2. CallsOK'
        BY <3>1 DEF CallsOK, TypeInv
      <3> QED BY <3>1, <3>2 DEF GuestTypes, TypeInv
    <2>2. CASE GuestNext
      BY <2>2, ContextTypes, SurfaceTypes, MakeCurrentTypes, OtherTypes DEF GuestNext
    <2> QED BY <2>1, <2>2
  <1> QED BY <1>2, <1>3, <1>4 DEF TypeInv

\* The state of the guest's EGL library, its calls on the way and the host's objects
\* always have their types, whatever rules the applications keep (egl.cpp:264-1125).
THEOREM GuestTypeCorrectness == GuestSpec => []GuestTypeOK
  <1>1. TypeInv => GuestTypeOK
    BY DEF TypeInv, SizeInv, GuestTypes, GuestCalls, BoundSurfaces, GuestTypeOK
  <1> QED BY <1>1, GuestInitTypes, GuestNextTypes, PTL DEF GuestSpec

\* Only LocalBind touches IS_CURRENT: what it adds is the context its own thread now
\* has, what it takes away is the context the thread had (egl.cpp:960-985); and a thread
\* that ends has released its context.
LEMMA NextNotLockedOut ==
  ASSUME "release" \in GuestRules
  PROVE  TypeInv /\ ContextNotLockedOut /\ [GuestNext]_allvars => ContextNotLockedOut'
  <1> SUFFICES ASSUME TypeInv, ContextNotLockedOut, [GuestNext]_allvars
               PROVE  ContextNotLockedOut'
    OBVIOUS
  <1> USE DEF TypeInv
  <1>1. ASSUME UNCHANGED <<cur, flag>>, UNCHANGED ended PROVE ContextNotLockedOut'
    BY <1>1 DEF ContextNotLockedOut
  <1>2. ASSUME NEW t \in Threads \ ended, LocalBind(t) PROVE ContextNotLockedOut'
    <2>1. PICK c : c = call[t].ctx
      OBVIOUS
    <2>2. /\ flag' = FlagAfter(c, cur[t]) /\ cur' = [cur EXCEPT ![t] = c] /\ UNCHANGED ended
      BY <1>2, <2>1 DEF LocalBind, vars
    <2>3. cur'[t] = c /\ \A u \in Threads \ {t} : cur'[u] = cur[u]
      BY <2>2 DEF GuestTypes
    <2>4. ASSUME NEW x \in flag' PROVE \E u \in Threads \ ended : cur'[u] = x
      <3>1. CASE x = c
        BY <2>3, <3>1
      <3>2. CASE x # c
        <4>1. x \in flag /\ x # cur[t]
          BY <2>2, <3>2 DEF FlagAfter
        <4>2. PICK u \in Threads \ ended : cur[u] = x
          BY <4>1 DEF ContextNotLockedOut
        <4> QED BY <2>3, <4>1, <4>2
      <3> QED BY <3>1, <3>2
    <2> QED BY <2>2, <2>4 DEF ContextNotLockedOut
  <1>3. ASSUME NEW t \in Threads \ ended, ThreadExits(t) PROVE ContextNotLockedOut'
    <2>1. /\ cur[t] = Null /\ UNCHANGED flag /\ ended' = ended \cup {t}
          /\ cur' = [cur EXCEPT ![t] = Null]
      BY <1>3 DEF ThreadExits, ThreadEnds
    <2>2. \A u \in Threads \ {t} : cur'[u] = cur[u]
      BY <2>1 DEF GuestTypes
    <2>3. ASSUME NEW x \in flag PROVE \E u \in Threads \ (ended \cup {t}) : cur'[u] = x
      <3>1. PICK u \in Threads \ ended : cur[u] = x
        BY DEF ContextNotLockedOut
      <3>2. x # Null
        BY NullAssumption DEF GuestTypes
      <3> QED BY <2>1, <2>2, <3>1, <3>2
    <2> QED BY <2>1, <2>3 DEF ContextNotLockedOut
  <1>4. ASSUME NEW t \in Threads \ ended, HostMakesCurrent(t) \/ HostExecutes(t)
        PROVE  UNCHANGED <<cur, flag>> /\ UNCHANGED ended
    <2>1. UNCHANGED <<cur, flag>>
      BY <1>4 DEF HostMakesCurrent, HostExecutes, egls
    <2>2. UNCHANGED ended
      BY <1>4 DEF HostMakesCurrent, HostExecutes, BindContext, UnbindContext, Rebind, vars,
                  SetWindowSurfaceColorBuffer, EraseHandle
    <2> QED BY <2>1, <2>2
  <1>5. ASSUME NEW t \in Threads \ ended, NEW a \in Addrs, EglSwapBuffers(t, a)
        PROVE  UNCHANGED <<cur, flag>> /\ UNCHANGED ended
    BY <1>5 DEF EglSwapBuffers, FlushWindowSurfaceColorBuffer, egls
  <1>6. ASSUME NEW t \in Threads \ ended, NEW c \in Contexts,
               EglCreateContext(t, c) \/ EglDestroyContext(t, c)
        PROVE  UNCHANGED <<cur, flag>> /\ UNCHANGED ended
    BY <1>6 DEF EglCreateContext, EglDestroyContext, CreateRenderContext, vars
  <1>7. ASSUME NEW t \in Threads \ ended, NEW a \in Addrs, NEW w \in Windows, NEW b \in Buffers,
               EglCreateWindowSurface(t, a, w, b)
        PROVE  UNCHANGED <<cur, flag>> /\ UNCHANGED ended
    BY <1>7 DEF EglCreateWindowSurface, CreateWindowSurface, egls
  <1>8. ASSUME NEW t \in Threads \ ended, NEW a \in Addrs, EglDestroySurface(t, a)
        PROVE  UNCHANGED <<cur, flag>> /\ UNCHANGED ended
    BY <1>8 DEF EglDestroySurface, egls, vars
  <1>9. ASSUME NEW t \in Threads \ ended, NEW c, NEW d, NEW r, EglMakeCurrent(t, c, d, r)
        PROVE  UNCHANGED <<cur, flag>> /\ UNCHANGED ended
    BY <1>9 DEF EglMakeCurrent, egls, vars
  <1>10. ASSUME NEW t \in Threads \ ended, NEW b \in Buffers, PostBuffer(t, b)
        PROVE  UNCHANGED <<cur, flag>> /\ UNCHANGED ended
    BY <1>10 DEF PostBuffer, UseColorBuffer, gvars, egls
  <1>11. CASE UNCHANGED allvars
    BY <1>1, <1>11 DEF allvars, gvars, egls, vars
  <1> QED BY <1>1, <1>2, <1>3, <1>4, <1>5, <1>6, <1>7, <1>8, <1>9, <1>10, <1>11 DEF GuestNext

\* If threads release their context before they end, no IS_CURRENT is ever left behind:
\* a context that eglMakeCurrent refuses as "current to another thread" (egl.cpp:945) is
\* some running thread's, whatever else applications do and however the three steps of
\* several eglMakeCurrent interleave.
THEOREM ContextNeverLockedOut ==
  ASSUME "release" \in GuestRules
  PROVE  GuestSpec => []ContextNotLockedOut
  <1>1. GuestInit => ContextNotLockedOut
    BY DEF GuestInit, ContextNotLockedOut
  <1>2. TypeInv /\ ContextNotLockedOut /\ [GuestNext]_allvars => ContextNotLockedOut'
    BY NextNotLockedOut
  <1> QED BY <1>1, <1>2, GuestInitTypes, GuestNextTypes, PTL DEF GuestSpec

-----------------------------------------------------------------------------
(* Part 5: the guest and the host agree *)

\* the buffers of the windows have one size, and so have the surfaces
OneSize ==
    /\ Buffers \subseteq table
    /\ \A b, e \in Buffers : cbSize[e] = cbSize[b]
    /\ \A w \in Windows \cap made : win[w].live /\ \A b \in Buffers : win[w].size = cbSize[b]

HostInv == SizeInv /\ EglInv /\ OwnerInv /\ OneSize

\* u has surface w current in EGL
HasCurrent(u, w) == egl[u] # Unbound /\ w \in {tinfo[u].draw, tinfo[u].read}

\* A surface is current in one thread only.
LEMMA OneHolder ==
  ASSUME EglInv, NEW t \in Threads, NEW u \in Threads \ {t}, NEW w, HasCurrent(t, w)
  PROVE  ~HasCurrent(u, w)
  <1> SUFFICES ASSUME HasCurrent(u, w) PROVE FALSE
    OBVIOUS
  <1>1. /\ BindingOf(egl[t], tinfo[t], win) /\ BindingOf(egl[u], tinfo[u], win)
        /\ Apart(egl[t], egl[u])
    BY DEF EglInv, HasCurrent
  <1>2. <<w, win[w].gen>> \in {egl[t].draw, egl[t].read}
    BY <1>1 DEF HasCurrent, BindingOf, Backs
  <1>3. <<w, win[w].gen>> \in {egl[u].draw, egl[u].read}
    BY <1>1 DEF HasCurrent, BindingOf, Backs
  <1> QED BY <1>1, <1>2, <1>3 DEF Apart

\* The creations of the host: the new window surface has the size of the buffers.
LEMMA CreateHost ==
  ASSUME HostInv, NEW t \in Threads, NEW c, NEW w, NEW b,
         CreateRenderContext(c) \/ (CreateWindowSurface(w, cbSize[b]) /\ b \in Buffers),
         SizeInv'
  PROVE  /\ HostInv' /\ UNCHANGED <<egl, tinfo, ended, cbSize>> /\ table \subseteq table'
         /\ made \subseteq made'
         /\ \A v \in Windows \cap made : win'[v] = win[v]
         /\ CreateWindowSurface(w, cbSize[b]) => w \in Windows \ made /\ w \in table'
  <1> USE DEF HostInv
  <1>1. UNCHANGED <<egl, prev, tinfo>> /\ EglInv'
    BY UseKeepsEgl
  <1>2. CASE CreateRenderContext(c)
    <2>1. /\ UNCHANGED <<win, cbSize, ended>> /\ made' = made \cup {c} /\ table' = table \cup {c}
          /\ c \in Contexts
      BY <1>2 DEF CreateRenderContext
    <2>2. OwnerInv'
      BY <1>1, <2>1, OwnerFrame
    <2>3. OneSize'
      BY <2>1, HandlesAssumption DEF OneSize
    <2>4. ~CreateWindowSurface(w, cbSize[b])
      BY <1>2, <2>1, HandlesAssumption DEF CreateWindowSurface, CreateRenderContext
    <2> QED BY <1>1, <2>1, <2>2, <2>3, <2>4
  <1>3. CASE CreateWindowSurface(w, cbSize[b]) /\ b \in Buffers
    <2> DEFINE new == [NewWindow EXCEPT !.size = cbSize[b], !.pbuf = cbSize[b],
                                        !.gen = 1, !.live = TRUE]
    <2>1. /\ UNCHANGED <<cbSize, ended>> /\ made' = made \cup {w} /\ table' = table \cup {w}
          /\ w \in Windows \ made /\ win' = [win EXCEPT ![w] = new]
      BY <1>3 DEF CreateWindowSurface
    <2>2. new.live /\ new.size = cbSize[b]
      BY DEF NewWindow
    <2> HIDE DEF new
    <2>3. win'[w] = new /\ \A v \in Windows \ {w} : win'[v] = win[v]
      BY <2>1 DEF SizeInv, TypeOK
    <2>4. \A v \in Windows : win[v].live => v # w /\ win'[v].draw = win[v].draw
      BY <2>1, <2>3 DEF SizeInv, PbuffersCounted
    <2>5. OwnerInv'
      BY <1>1, <2>1, <2>4, OwnerFrame
    <2>6. OneSize'
      BY <1>3, <2>1, <2>2, <2>3 DEF OneSize
    <2> QED BY <1>1, <2>1, <2>3, <2>5, <2>6
  <1> QED BY <1>2, <1>3

\* A context or a window surface is destroyed, a buffer is posted.
LEMMA UseHost ==
  ASSUME HostInv, NEW t \in Threads, NEW h, NEW b,
         (EraseHandle(t, h) /\ h \in Contexts \cup Windows) \/ UseColorBuffer(t, b), SizeInv'
  PROVE  /\ HostInv' /\ UNCHANGED <<egl, tinfo, ended, win, made, cbSize>>
         /\ table \ {h} \subseteq table'
  <1> USE DEF HostInv
  <1>1. UNCHANGED <<egl, prev, tinfo>> /\ EglInv'
    BY UseKeepsEgl
  <1>2. /\ UNCHANGED <<win, made, cbSize, ended>>
        /\ table' = table \/ (table' = table \ {h} /\ h \in Contexts \cup Windows)
    BY DEF EraseHandle, UseColorBuffer
  <1>3. OwnerInv'
    BY <1>1, <1>2, OwnerFrame
  <1>4. OneSize'
    BY <1>2, HandlesAssumption DEF OneSize
  <1> QED BY <1>1, <1>2, <1>3, <1>4

\* A buffer of the surface's own size is attached without resizing the pbuffer, so it
\* does not matter who has the surface current.
LEMMA AttachHost ==
  ASSUME HostInv, NEW t \in Threads, NEW w \in Windows, NEW b \in Buffers,
         SetWindowSurfaceColorBuffer(t, w, b), SizeInv'
  PROVE  /\ HostInv' /\ UNCHANGED <<egl, tinfo, ended, made, table, cbSize>>
         /\ win'[w].cb = b /\ \A v \in Windows \ {w} : win'[v] = win[v]
  <1> USE DEF HostInv
  <1> DEFINE attached == Attached(w, b)
             st == Destructors(DeadBuffers(table, tinfo, attached), t, EglState,
                               table, tinfo, attached)
  <1>0. win[w].size \in Sizes \cup {Null}
    BY DEF SizeInv, TypeOK, WindowSurfaces
  <1>1. OnlyBuffer(attached, w, b, win[w].size)
    BY <1>0, AttachedFrame DEF SizeInv
  <1>2. \A v \in Windows : attached[v].live = win[v].live /\ attached[v].gen = win[v].gen
    BY <1>1 DEF OnlyBuffer
  <1>3. w \in made /\ UNCHANGED <<made, table, cbSize, tinfo, ended>>
    BY DEF SetWindowSurfaceColorBuffer, SizeInv, TypeOK
  <1>4. cbSize[b] = win[w].size
    BY <1>3 DEF OneSize
  <1>5. win' = attached /\ SetEgl(st)
    BY <1>4 DEF SetWindowSurfaceColorBuffer, Attached
  <1> HIDE DEF attached
  <1>6. st = EglState
    BY <1>2, EglRestored DEF SizeInv
  <1>7. UNCHANGED <<egl, prev, tinfo>>
    BY <1>3, <1>5, <1>6 DEF SetEgl, EglState
  <1> HIDE DEF st
  <1>8. /\ \A v \in Windows : /\ win'[v].live = win[v].live /\ win'[v].gen = win[v].gen
                              /\ win'[v].draw = win[v].draw /\ win'[v].size = win[v].size
        /\ win'[w].cb = b /\ \A v \in Windows \ {w} : win'[v] = win[v]
    BY <1>1, <1>5 DEF OnlyBuffer
  <1>9. EglInv'
    BY <1>7, <1>8, EglInvFrame
  <1>10. OwnerInv'
    BY <1>3, <1>7, <1>8, OwnerFrame
  <1>11. OneSize'
    BY <1>3, <1>8 DEF OneSize
  <1> QED BY <1>3, <1>7, <1>8, <1>9, <1>10, <1>11

\* A thread that made its binding current gives way to nothing the host is asked for
\* meanwhile; bindContext changes the binding of its own thread.
LEMMA BindHost ==
  ASSUME HostInv, NEW t \in Threads, NEW c \in Contexts, NEW d \in Windows,
         NEW r \in Windows, BindContext(t, c, d, r), SizeInv'
  PROVE  /\ HostInv' /\ UNCHANGED <<ended, made, table, cbSize>>
         /\ tinfo'[t] = [ctx |-> c, draw |-> d, read |-> r]
         /\ \A u \in Threads \ {t} : tinfo'[u] = tinfo[u] /\ egl'[u] = egl[u]
         /\ \A w \in Windows : win'[w].cb = win[w].cb
         /\ \A u \in Threads \ {t} : ~HasCurrent(u, d) /\ ~HasCurrent(u, r)
  <1> USE DEF HostInv
  <1> DEFINE i == [ctx |-> c, draw |-> d, read |-> r]
  <1>1. /\ EglInv' /\ OnlyContexts(win', c, d, r) /\ BindingOf(egl'[t], i, win)
        /\ \A u \in Threads \ {t} : Apart(egl'[t], egl[u]) /\ egl'[u] = egl[u]
    BY BindEgl
  <1>2. OwnerInv'
    BY BindOwner
  <1>3. tinfo' = [tinfo EXCEPT ![t] = i] /\ UNCHANGED <<ended, made, table, cbSize>>
    BY DEF BindContext, Rebind
  <1>4. tinfo'[t] = i /\ \A u \in Threads \ {t} : tinfo'[u] = tinfo[u]
    BY <1>3 DEF SizeInv, TypeOK
  <1>5. OneSize'
    BY <1>1, <1>3 DEF OneSize, OnlyContexts
  <1>6. ASSUME NEW u \in Threads \ {t}, NEW w \in {d, r} PROVE ~HasCurrent(u, w)
    <2> SUFFICES ASSUME HasCurrent(u, w) PROVE FALSE
      OBVIOUS
    <2>1. BindingOf(egl[u], tinfo[u], win) /\ Apart(egl'[t], egl[u])
      BY <1>1 DEF EglInv, HasCurrent
    <2>2. <<w, win[w].gen>> \in {egl[u].draw, egl[u].read}
      BY <2>1 DEF HasCurrent, BindingOf, Backs
    <2>3. <<w, win[w].gen>> \in {egl'[t].draw, egl'[t].read}
      BY <1>1, <1>6 DEF BindingOf, Backs
    <2> QED BY <2>1, <2>2, <2>3 DEF Apart
  <1> QED BY <1>1, <1>2, <1>3, <1>4, <1>5, <1>6 DEF OnlyContexts

\* rcMakeCurrent(0, 0, 0) by a thread that has a context: its surfaces lose their contexts
\* and nothing else changes (FrameBuffer.cpp:653-736).
LEMMA UnbindHost ==
  ASSUME HostInv, NEW t \in Threads \ ended, tinfo[t].ctx # Null, UnbindContext(t), SizeInv'
  PROVE  /\ HostInv' /\ UNCHANGED <<ended, made, table, cbSize>>
         /\ tinfo'[t].ctx = Null /\ egl'[t] = Unbound
         /\ \A u \in Threads \ {t} : tinfo'[u] = tinfo[u] /\ egl'[u] = egl[u]
         /\ \A w \in Windows : win'[w].cb = win[w].cb
  <1> USE DEF HostInv
  <1> DEFINE i == [ctx |-> Null, draw |-> tinfo[t].draw, read |-> tinfo[t].read]
  <1>1. EglInv' /\ Released(t) /\ OnlyContexts(win', Null, tinfo[t].draw, tinfo[t].read)
    BY UnbindEgl
  <1>2. OwnerInv'
    BY UnbindOwner
  <1>3. tinfo' = [tinfo EXCEPT ![t] = i] /\ UNCHANGED <<ended, made, table, cbSize>>
    BY DEF UnbindContext, Rebind
  <1>4. /\ tinfo'[t] = i /\ egl'[t] = Unbound
        /\ \A u \in Threads \ {t} : tinfo'[u] = tinfo[u] /\ egl'[u] = egl[u]
    BY <1>1, <1>3 DEF SizeInv, TypeOK, Released
  <1>5. OneSize'
    BY <1>1, <1>3 DEF OneSize, OnlyContexts
  <1> QED BY <1>1, <1>2, <1>3, <1>4, <1>5 DEF OnlyContexts

\* The render thread of a guest thread that exits: only its own EGL binding goes.
LEMMA EndHost ==
  ASSUME HostInv, NEW t \in Threads, ThreadEnds(t), SizeInv'
  PROVE  /\ HostInv' /\ UNCHANGED <<tinfo, win, made, table, cbSize>>
         /\ ended' = ended \cup {t} /\ egl'[t] = Unbound
         /\ \A u \in Threads \ {t} : egl'[u] = egl[u]
  <1> USE DEF HostInv
  <1>1. /\ egl'[t] = Unbound /\ \A u \in Threads \ {t} : egl'[u] = egl[u]
        /\ ended' = ended \cup {t} /\ UNCHANGED <<tinfo, win, made, table, cbSize>>
    BY DEF ThreadEnds, SizeInv, TypeOK
  <1>2. EglInv'
    BY EndEgl
  <1>3. OwnerInv'
    BY <1>1 DEF OwnerInv
  <1>4. OneSize'
    BY <1>1 DEF OneSize
  <1> QED BY <1>1, <1>2, <1>3, <1>4

\* flushWindowSurfaceColorBuffer changes what is drawn, never who is bound to what.
LEMMA FlushHost ==
  ASSUME HostInv, NEW t \in Threads, NEW w \in Windows, FlushWindowSurfaceColorBuffer(t, w),
         SizeInv'
  PROVE  HostInv' /\ UNCHANGED <<egl, tinfo, ended, win, made, table, cbSize>>
  <1> USE DEF HostInv
  <1>1. UNCHANGED <<egl, prev, tinfo, win>> /\ EglInv'
    BY FlushEgl
  <1>2. UNCHANGED <<ended, made, table, cbSize>>
    BY DEF FlushWindowSurfaceColorBuffer
  <1>3. OwnerInv'
    BY <1>1, <1>2, OwnerFrame
  <1>4. OneSize'
    BY <1>1, <1>2 DEF OneSize
  <1> QED BY <1>1, <1>2, <1>3, <1>4

\* a step that leaves the host alone
LEMMA IdleHost ==
  ASSUME HostInv, UNCHANGED vars
  PROVE  HostInv'
  <1>1. SizeInv'
    BY NextSizeInv DEF HostInv
  <1>2. EglInv'
    BY EglInvFrame DEF HostInv, vars
  <1>3. OwnerInv'
    BY OwnerFrame DEF HostInv, vars
  <1>4. OneSize'
    BY DEF HostInv, OneSize, vars
  <1> QED BY <1>1, <1>2, <1>3, <1>4 DEF HostInv

\* rcSetWindowColorBuffer(w, b) is the next call of t's connection, from a swap or from the
\* creation of w; rcDestroyWindowSurface of w is among its calls
Sets(t, w, b) == pending[t] # <<>> /\ pending[t][1] = SetCall(w, b)
Attaches(t, w, b) == pending[t] # <<>> /\ pending[t][1] = AttachCall(w, b)
Destroys(t, w) ==
    \E i \in 1 .. Len(pending[t]) : pending[t][i].op = "destroy" /\ pending[t][i].target = w

\* a surface is at one address and its handle is in the table as long as it is there;
\* handles of calls were returned to the guest; a surface that is being destroyed is at
\* no address, and has no buffer; a surface is created once
SurfacesInv ==
    /\ \A a, e \in Addrs : surf[a] # Null /\ surf[a] = surf[e] => a = e
    /\ \A a \in Addrs : surf[a] # Null => surf[a] \in table
    /\ \A t \in Threads, w \in Windows :
          Destroys(t, w) => w \in made /\ \A a \in Addrs : surf[a] # w
    /\ \A t \in Threads, w \in Windows, b \in Buffers :
          Sets(t, w, b) \/ Attaches(t, w, b) => w \in made
    /\ \A t, u \in Threads, w \in Windows, b, e \in Buffers :
          Attaches(t, w, b) /\ Attaches(u, w, e) => t = u
    /\ \A w \in Windows : dequeued[w] # Null => \E a \in Addrs : surf[a] = w

\* an eglMakeCurrent names surfaces that exist, and one that releases has something to
CallsInv ==
    \A t \in Threads :
        /\ call[t].draw # Null => surf[call[t].draw] # Null
        /\ call[t].read # Null => surf[call[t].read] # Null
        /\ call[t].at = "sent" /\ call[t].ctx = Null => cur[t] # Null

\* until the host has replied the host has what the guest has, afterwards what the call
\* in progress asked for
AgreeInv ==
    \A t \in Threads \ ended :
        /\ call[t].at # "replied" =>
              /\ cur[t] = tinfo[t].ctx
              /\ cur[t] # Null => /\ Handle(bound[cur[t]].draw) = tinfo[t].draw
                                  /\ Handle(bound[cur[t]].read) = tinfo[t].read
        /\ call[t].at = "replied" =>
              /\ call[t].ctx = tinfo[t].ctx
              /\ call[t].ctx # Null => /\ Handle(call[t].draw) = tinfo[t].draw
                                       /\ Handle(call[t].read) = tinfo[t].read

\* a buffer that a swap is attaching is the one the surface has dequeued, if any, and the
\* thread that swapped still has the surface: it waits for nothing else meanwhile
SetInv ==
    \A t \in Threads, w \in Windows, b \in Buffers : Sets(t, w, b) =>
        dequeued[w] \in {b, Null} /\ HasCurrent(t, w)

\* the buffer a surface has dequeued is attached to it, or about to be, unless the first
\* attachment of the surface went astray
Awaits(w, b) ==
    \/ \E t \in Threads : Sets(t, w, b)
    \/ win[w].cb = Null /\ \E t \in Threads : Attaches(t, w, b)
DequeuedInv ==
    \A w \in Windows, b \in Buffers : dequeued[w] = b =>
        win[w].cb = b \/ w \in astray \/ Awaits(w, b)

GuestInv == /\ TypeInv /\ HostInv /\ SurfacesInv /\ CallsInv /\ AgreeInv
            /\ SetInv /\ DequeuedInv

\* the connections after a destruction, after an attachment and after an execution
LEMMA QueuesDestroy ==
  ASSUME GuestTypes, NEW t \in Threads, NEW h \in Windows \cup Contexts,
         Queues(t, DestroyCall(h))
  PROVE  /\ \A u \in Threads : \A w, b : Sets(u, w, b)' <=> Sets(u, w, b)
         /\ \A u \in Threads : \A w, b : Attaches(u, w, b)' <=> Attaches(u, w, b)
         /\ \A u \in Threads : \A w : Destroys(u, w)' => Destroys(u, w) \/ w = h
  <1>1. DestroyCall(h) \in PendingCalls
    BY CallTypes
  <1>2. /\ \A u \in Threads \ {t} : pending'[u] = pending[u]
        /\ Len(pending[t]) \in Nat /\ Len(pending'[t]) = Len(pending[t]) + 1
        /\ \A i \in 1 .. Len(pending[t]) : pending'[t][i] = pending[t][i]
        /\ pending'[t][Len(pending[t]) + 1] = DestroyCall(h)
        /\ pending[t] = <<>> => Len(pending[t]) = 0
        /\ pending[t] # <<>> => 1 \in 1 .. Len(pending[t])
        /\ pending'[t] # <<>>
    BY <1>1, QueuesFacts
  <1>3. ASSUME NEW w, NEW b
        PROVE  (Sets(t, w, b)' <=> Sets(t, w, b)) /\ (Attaches(t, w, b)' <=> Attaches(t, w, b))
    <2>1. CASE pending[t] = <<>>
      <3>1. pending'[t][1] = DestroyCall(h)
        BY <1>2, <2>1
      <3>2. DestroyCall(h) # SetCall(w, b) /\ DestroyCall(h) # AttachCall(w, b)
        BY DEF DestroyCall, SetCall, AttachCall
      <3> QED BY <2>1, <3>1, <3>2 DEF Sets, Attaches
    <2>2. CASE pending[t] # <<>>
      BY <1>2, <2>2 DEF Sets, Attaches
    <2> QED BY <2>1, <2>2
  <1>4. ASSUME NEW w, Destroys(t, w)' PROVE Destroys(t, w) \/ w = h
    <2>1. PICK i \in 1 .. Len(pending'[t]) :
              pending'[t][i].op = "destroy" /\ pending'[t][i].target = w
      BY <1>4 DEF Destroys
    <2>2. i \in 1 .. Len(pending[t]) \/ i = Len(pending[t]) + 1
      BY <1>2, <2>1
    <2>3. DestroyCall(h).target = h
      BY DEF DestroyCall
    <2> QED BY <1>2, <2>1, <2>2, <2>3 DEF Destroys
  <1>5. /\ \A u \in Threads \ {t} : \A w, b : Sets(u, w, b)' <=> Sets(u, w, b)
        /\ \A u \in Threads \ {t} : \A w, b : Attaches(u, w, b)' <=> Attaches(u, w, b)
    BY <1>2 DEF Sets, Attaches
  <1>6. \A u \in Threads \ {t} : \A w : Destroys(u, w)' <=> Destroys(u, w)
    BY <1>2 DEF Destroys
  <1> QED BY <1>3, <1>4, <1>5, <1>6

\* Sending rcSetWindowColorBuffer after everything else was executed: it is the only
\* attachment of its thread on the way.
LEMMA QueuesSet ==
  ASSUME GuestTypes, NEW t \in Threads, NEW v \in Windows, NEW e \in Buffers,
         pending[t] = <<>>, NEW k \in {SetCall(v, e), AttachCall(v, e)}, Queues(t, k)
  PROVE  /\ \A u \in Threads \ {t} : \A w, b : Sets(u, w, b)' <=> Sets(u, w, b)
         /\ \A u \in Threads \ {t} : \A w, b : Attaches(u, w, b)' <=> Attaches(u, w, b)
         /\ \A w, b : Sets(t, w, b)' <=> w = v /\ b = e /\ k.op = "set"
         /\ \A w, b : Attaches(t, w, b)' <=> w = v /\ b = e /\ k.op = "attach"
         /\ \A u \in Threads : \A w : Destroys(u, w)' => Destroys(u, w)
  <1>1. k \in PendingCalls
    BY CallTypes
  <1>2. /\ \A u \in Threads \ {t} : pending'[u] = pending[u]
        /\ Len(pending[t]) = 0 /\ Len(pending'[t]) = 1
        /\ pending'[t][1] = k /\ pending'[t] # <<>>
    <2>1. /\ \A u \in Threads \ {t} : pending'[u] = pending[u]
          /\ Len(pending'[t]) = Len(pending[t]) + 1
          /\ pending'[t][Len(pending[t]) + 1] = k
          /\ pending[t] = <<>> => Len(pending[t]) = 0
          /\ pending'[t] # <<>>
      BY <1>1, QueuesFacts
    <2> QED BY <2>1
  <1>3. /\ \A w, b : Sets(t, w, b)' <=> w = v /\ b = e /\ k.op = "set"
        /\ \A w, b : Attaches(t, w, b)' <=> w = v /\ b = e /\ k.op = "attach"
    BY <1>2 DEF Sets, Attaches, SetCall, AttachCall
  <1>4. k.op # "destroy"
    BY DEF SetCall, AttachCall
  <1>5. \A w : ~Destroys(t, w)'
    <2> SUFFICES ASSUME NEW i \in 1 .. Len(pending'[t]), pending'[t][i].op = "destroy"
                 PROVE  FALSE
      BY DEF Destroys
    <2>1. i = 1
      BY <1>2
    <2> QED BY <1>2, <1>4, <2>1
  <1>6. /\ \A u \in Threads \ {t} : \A w, b : Sets(u, w, b)' <=> Sets(u, w, b)
        /\ \A u \in Threads \ {t} : \A w, b : Attaches(u, w, b)' <=> Attaches(u, w, b)
        /\ \A u \in Threads \ {t} : \A w : Destroys(u, w)' <=> Destroys(u, w)
    BY <1>2 DEF Sets, Attaches, Destroys
  <1> QED BY <1>3, <1>5, <1>6

\* The host executes the first call of t: no attachment of t is on the way any more.
LEMMA RunsSets ==
  ASSUME GuestTypes, CallsOK, NEW t \in Threads, pending[t] # <<>>, Runs(t)
  PROVE  /\ \A u \in Threads \ {t} : \A w, b : Sets(u, w, b)' <=> Sets(u, w, b)
         /\ \A u \in Threads \ {t} : \A w, b : Attaches(u, w, b)' <=> Attaches(u, w, b)
         /\ \A w, b : ~Sets(t, w, b)' /\ ~Attaches(t, w, b)'
         /\ \A u \in Threads : \A w : Destroys(u, w)' => Destroys(u, w)
  <1>1. /\ \A u \in Threads \ {t} : pending'[u] = pending[u]
        /\ \A i \in 1 .. Len(pending'[t]) :
               /\ i + 1 \in 1 .. Len(pending[t]) /\ i + 1 # 1
               /\ pending'[t][i] = pending[t][i + 1]
        /\ pending'[t] # <<>> => 1 \in 1 .. Len(pending'[t])
    BY RunsFacts
  <1>2. ASSUME NEW w, NEW b PROVE ~Sets(t, w, b)' /\ ~Attaches(t, w, b)'
    <2> SUFFICES ASSUME pending'[t] # <<>>,
                        NEW k \in {SetCall(w, b), AttachCall(w, b)}, pending'[t][1] = k
                 PROVE  FALSE
      BY DEF Sets, Attaches
    <2>1. 1 + 1 \in 1 .. Len(pending[t]) /\ pending[t][1 + 1] = k
      BY <1>1
    <2>2. k.op \in Attaching
      BY DEF SetCall, AttachCall, Attaching
    <2> QED BY <2>1, <2>2 DEF CallsOK, SetsFirst
  <1>3. ASSUME NEW w, Destroys(t, w)' PROVE Destroys(t, w)
    BY <1>1, <1>3 DEF Destroys
  <1>4. /\ \A u \in Threads \ {t} : \A w, b : Sets(u, w, b)' <=> Sets(u, w, b)
        /\ \A u \in Threads \ {t} : \A w, b : Attaches(u, w, b)' <=> Attaches(u, w, b)
        /\ \A u \in Threads \ {t} : \A w : Destroys(u, w)' <=> Destroys(u, w)
    BY <1>1 DEF Sets, Attaches, Destroys
  <1> QED BY <1>2, <1>3, <1>4

\* A running thread that has a context, according to the guest, has the two surfaces of
\* that context current in EGL.
LEMMA RunningBinding ==
  ASSUME GuestInv, NEW t \in Threads \ ended, call[t].at # "replied", cur[t] # Null
  PROVE  /\ tinfo[t].ctx = cur[t] /\ cur[t] \in Contexts /\ egl[t] # Unbound
         /\ BindingOf(egl[t], tinfo[t], win)
         /\ bound[cur[t]].draw \in Addrs /\ surf[bound[cur[t]].draw] = tinfo[t].draw
         /\ bound[cur[t]].read \in Addrs /\ surf[bound[cur[t]].read] = tinfo[t].read
         /\ tinfo[t].draw \in Windows /\ tinfo[t].read \in Windows
         /\ HasCurrent(t, tinfo[t].draw) /\ HasCurrent(t, tinfo[t].read)
  <1>1. /\ cur[t] = tinfo[t].ctx /\ Handle(bound[cur[t]].draw) = tinfo[t].draw
        /\ Handle(bound[cur[t]].read) = tinfo[t].read
    BY DEF GuestInv, AgreeInv
  <1>2. egl[t] # Unbound /\ BindingOf(egl[t], tinfo[t], win)
    BY <1>1 DEF GuestInv, HostInv, OwnerInv, EglInv
  <1>3. tinfo[t].draw \in Windows /\ tinfo[t].read \in Windows
    BY <1>2 DEF BindingOf, Backs
  <1>4. cur[t] \in Contexts /\ bound[cur[t]] \in BoundSurfaces
    BY DEF GuestInv, TypeInv, GuestTypes
  <1>5. bound[cur[t]].draw \in Addrs /\ bound[cur[t]].read \in Addrs
    BY <1>1, <1>3, <1>4, NullAssumption DEF BoundSurfaces, Handle
  <1> QED BY <1>1, <1>2, <1>3, <1>4, <1>5, AddrsAssumption DEF Handle, HasCurrent

\* So does one whose eglMakeCurrent has been replied to, with the surfaces of the call.
LEMMA RepliedBinding ==
  ASSUME GuestInv, NEW t \in Threads \ ended, call[t].at = "replied", call[t].ctx # Null
  PROVE  /\ tinfo[t].ctx = call[t].ctx /\ call[t].ctx \in Contexts /\ egl[t] # Unbound
         /\ BindingOf(egl[t], tinfo[t], win)
         /\ call[t].draw \in Addrs /\ surf[call[t].draw] = tinfo[t].draw
         /\ call[t].read \in Addrs /\ surf[call[t].read] = tinfo[t].read
         /\ tinfo[t].draw \in Windows /\ tinfo[t].read \in Windows
  <1>1. /\ call[t].ctx = tinfo[t].ctx /\ Handle(call[t].draw) = tinfo[t].draw
        /\ Handle(call[t].read) = tinfo[t].read
    BY DEF GuestInv, AgreeInv
  <1>2. egl[t] # Unbound /\ BindingOf(egl[t], tinfo[t], win)
    BY <1>1 DEF GuestInv, HostInv, OwnerInv, EglInv
  <1>3. tinfo[t].draw \in Windows /\ tinfo[t].read \in Windows
    BY <1>2 DEF BindingOf, Backs
  <1>4. call[t] \in GuestCalls
    BY DEF GuestInv, TypeInv, GuestTypes
  <1>5. call[t].draw \in Addrs /\ call[t].read \in Addrs /\ call[t].ctx \in Contexts
    BY <1>1, <1>3, <1>4, NullAssumption DEF GuestCalls, Handle
  <1> QED BY <1>1, <1>2, <1>3, <1>5, AddrsAssumption DEF Handle

\* Steps that leave the guest's surfaces, bindings and buffers alone.
LEMMA GuestFrame ==
  ASSUME GuestInv, TypeInv', HostInv', made \subseteq made',
         \A a \in Addrs : surf[a] # Null => surf[a] \in table',
         UNCHANGED <<egl, tinfo, ended, cur, bound, surf, dequeued, astray>>,
         \A w \in Windows : dequeued[w] # Null => win'[w].cb = win[w].cb,
         \A u \in Threads : \A w, b : Sets(u, w, b)' <=> Sets(u, w, b),
         \A u \in Threads : \A w, b : Attaches(u, w, b)' <=> Attaches(u, w, b),
         \A u \in Threads : \A w \in Windows : Destroys(u, w)' => Destroys(u, w),
         CallsInv',
         \A u \in Threads : (call'[u].at = "replied") <=> (call[u].at = "replied"),
         \A u \in Threads : call[u].at = "replied" => call'[u] = call[u]
  PROVE  GuestInv'
  <1> USE DEF GuestInv
  <1>1. SurfacesInv'
    BY DEF SurfacesInv
  <1>2. AgreeInv'
    <2>1. \A x : Handle(x)' = Handle(x)
      BY DEF Handle
    <2>2. \A u \in Threads \ ended : /\ Handle(bound[cur[u]].draw)' = Handle(bound[cur[u]].draw)
                                     /\ Handle(bound[cur[u]].read)' = Handle(bound[cur[u]].read)
                                     /\ call[u].at = "replied" =>
                                          /\ Handle(call[u].draw)' = Handle(call[u].draw)
                                          /\ Handle(call[u].read)' = Handle(call[u].read)
      BY DEF Handle
    <2> QED BY <2>2 DEF AgreeInv
  <1>3. SetInv'
    <2>1. \A u \in Threads : \A w : HasCurrent(u, w)' <=> HasCurrent(u, w)
      BY DEF HasCurrent
    <2> QED BY <2>1 DEF SetInv
  <1>4. DequeuedInv'
    BY NullAssumption DEF DequeuedInv, Awaits
  <1> QED BY <1>1, <1>2, <1>3, <1>4

\* no connection and no call changes
QuietCalls == UNCHANGED <<call, pending>>

\* A step that binds, attaches and dequeues nothing keeps the invariant.
LEMMA QuietStep ==
  ASSUME GuestInv, TypeInv', HostInv', made \subseteq made', QuietCalls,
         \A a \in Addrs : surf[a] # Null => surf[a] \in table',
         UNCHANGED <<egl, tinfo, ended, cur, bound, surf, dequeued, astray>>,
         \A w \in Windows : dequeued[w] # Null => win'[w].cb = win[w].cb
  PROVE  GuestInv'
  <1>1. /\ \A u \in Threads : \A w, b : Sets(u, w, b)' <=> Sets(u, w, b)
        /\ \A u \in Threads : \A w, b : Attaches(u, w, b)' <=> Attaches(u, w, b)
    BY DEF Sets, Attaches, QuietCalls
  <1>2. \A u \in Threads : \A w \in Windows : Destroys(u, w)' => Destroys(u, w)
    BY DEF Destroys, QuietCalls
  <1>3. CallsInv'
    BY DEF CallsInv, GuestInv, QuietCalls
  <1>4. \A u \in Threads : call'[u] = call[u]
    BY DEF QuietCalls
  <1> QED BY <1>1, <1>2, <1>3, <1>4, GuestFrame

\* eglCreateContext and a post touch nothing the agreement is about.
LEMMA CreateContextStep ==
  ASSUME GuestInv, TypeInv', NEW t \in Threads, NEW c \in Contexts, EglCreateContext(t, c)
  PROVE  GuestInv'
  <1>1. CreateRenderContext(c) /\ UNCHANGED <<cur, bound, surf, dequeued, call, pending, astray>>
    BY DEF EglCreateContext
  <1>2. /\ HostInv' /\ UNCHANGED <<egl, tinfo, ended>> /\ table \subseteq table'
        /\ made \subseteq made'
    BY <1>1, CreateHost DEF GuestInv, TypeInv
  <1>3. UNCHANGED win
    BY <1>1 DEF CreateRenderContext
  <1>4. \A a \in Addrs : surf[a] # Null => surf[a] \in table'
    BY <1>2 DEF GuestInv, SurfacesInv
  <1> QED BY <1>1, <1>2, <1>3, <1>4, QuietStep DEF QuietCalls

\* rcFBPost and the composer's other uses of a buffer keep the invariant.
LEMMA PostStep ==
  ASSUME GuestInv, TypeInv', NEW t \in Threads, NEW b, PostBuffer(t, b)
  PROVE  GuestInv'
  <1>1. UseColorBuffer(t, b) /\ UNCHANGED <<cur, bound, surf, dequeued, call, pending, astray>>
    BY DEF PostBuffer, gvars, egls
  <1>2. HostInv' /\ UNCHANGED <<egl, tinfo, ended, win, made>>
    BY <1>1, UseHost DEF GuestInv, TypeInv
  <1>3. UNCHANGED table
    BY <1>1 DEF UseColorBuffer
  <1>4. \A a \in Addrs : surf[a] # Null => surf[a] \in table'
    BY <1>3 DEF GuestInv, SurfacesInv
  <1> QED BY <1>1, <1>2, <1>4, QuietStep DEF QuietCalls

\* A stutter keeps the invariant.
LEMMA StutterStep ==
  ASSUME GuestInv, TypeInv', UNCHANGED allvars
  PROVE  GuestInv'
  <1>1. UNCHANGED <<vars, cur, bound, surf, dequeued, call, pending, astray>>
    BY DEF allvars, gvars, egls
  <1>2. HostInv'
    BY <1>1, IdleHost DEF GuestInv
  <1>3. \A a \in Addrs : surf[a] # Null => surf[a] \in table'
    BY <1>1 DEF GuestInv, SurfacesInv, vars
  <1> QED BY <1>1, <1>2, <1>3, QuietStep DEF QuietCalls, vars

\* eglDestroyContext: the context's own release is a call without surfaces, the rest a
\* message about the context, which is no surface (egl.cpp:895-915).
LEMMA DestroyContextStep ==
  ASSUME GuestInv, TypeInv', NEW t \in Threads, NEW c \in Contexts, EglDestroyContext(t, c)
  PROVE  GuestInv'
  <1>1. UNCHANGED <<cur, bound, surf, dequeued, astray, vars>> /\ call[t].at = "idle"
    BY DEF EglDestroyContext, InCall
  <1>2. HostInv'
    BY <1>1, IdleHost DEF GuestInv
  <1>3. \A a \in Addrs : surf[a] # Null => surf[a] \in table'
    BY <1>1 DEF GuestInv, SurfacesInv, vars
  <1>4. CASE cur[t] = c
    <2> DEFINE k == [Idle EXCEPT !.at = "sent", !.destroy = TRUE]
    <2>1. call' = [call EXCEPT ![t] = k] /\ UNCHANGED pending
      BY <1>4, NullAssumption DEF EglDestroyContext
    <2>2. k.at = "sent" /\ k.draw = Null /\ k.read = Null
      BY DEF Idle
    <2> HIDE DEF k
    <2>3. call'[t] = k /\ \A u \in Threads \ {t} : call'[u] = call[u]
      BY <2>1 DEF GuestInv, TypeInv, GuestTypes
    <2>4. CallsInv'
      BY <1>1, <1>4, <2>2, <2>3, NullAssumption DEF GuestInv, CallsInv
    <2>5. /\ \A u \in Threads : \A w, b : Sets(u, w, b)' <=> Sets(u, w, b)
          /\ \A u \in Threads : \A w, b : Attaches(u, w, b)' <=> Attaches(u, w, b)
          /\ \A u \in Threads : \A w \in Windows : Destroys(u, w)' => Destroys(u, w)
      BY <2>1 DEF Sets, Attaches, Destroys
    <2> QED BY <1>1, <1>2, <1>3, <2>2, <2>3, <2>4, <2>5, GuestFrame DEF vars
  <1>5. CASE cur[t] # c
    <2>1. Queues(t, DestroyCall(c)) /\ UNCHANGED call
      BY <1>5 DEF EglDestroyContext, ContextDeleted, Queues
    <2>2. /\ \A u \in Threads : \A w, b : Sets(u, w, b)' <=> Sets(u, w, b)
          /\ \A u \in Threads : \A w, b : Attaches(u, w, b)' <=> Attaches(u, w, b)
          /\ \A u \in Threads : \A w : Destroys(u, w)' => Destroys(u, w) \/ w = c
      BY <2>1, QueuesDestroy DEF GuestInv, TypeInv
    <2>3. \A u \in Threads : \A w \in Windows : Destroys(u, w)' => Destroys(u, w)
      BY <2>2, HandlesAssumption
    <2>4. CallsInv'
      BY <1>1, <2>1 DEF GuestInv, CallsInv
    <2>5. \A u \in Threads : call'[u] = call[u]
      BY <2>1
    <2> QED BY <1>1, <1>2, <1>3, <2>2, <2>3, <2>4, <2>5, GuestFrame DEF vars
  <1> QED BY <1>4, <1>5

\* eglMakeCurrent, up to its call (egl.cpp:917-955).
LEMMA MakeCurrentStep ==
  ASSUME GuestInv, TypeInv', NEW t \in Threads,
         NEW c \in Contexts \cup {Null}, NEW d \in Addrs \cup {Null}, NEW r \in Addrs \cup {Null},
         EglMakeCurrent(t, c, d, r)
  PROVE  GuestInv'
  <1> DEFINE k == [at |-> "sent", ctx |-> c, draw |-> d, read |-> r, destroy |-> FALSE]
  <1>1. /\ UNCHANGED <<cur, bound, surf, dequeued, vars, pending, astray>>
        /\ call[t].at = "idle"
        /\ call' = [call EXCEPT ![t] = k] /\ Proceeds(t, c, d, r)
        /\ \A a \in {d, r} \ {Null} : surf[a] # Null
    BY DEF EglMakeCurrent, InCall, egls
  <1>2. HostInv'
    BY <1>1, IdleHost DEF GuestInv
  <1>3. \A a \in Addrs : surf[a] # Null => surf[a] \in table'
    BY <1>1 DEF GuestInv, SurfacesInv, vars
  <1>4. k.at = "sent" /\ k.draw = d /\ k.read = r /\ k.ctx = c
    OBVIOUS
  <1> HIDE DEF k
  <1>5. call'[t] = k /\ \A u \in Threads \ {t} : call'[u] = call[u]
    BY <1>1 DEF GuestInv, TypeInv, GuestTypes
  <1>6. c = Null => cur[t] # Null
    BY <1>1 DEF Proceeds
  <1>7. CallsInv'
    BY <1>1, <1>4, <1>5, <1>6 DEF GuestInv, CallsInv
  <1>8. /\ \A u \in Threads : \A w, b : Sets(u, w, b)' <=> Sets(u, w, b)
        /\ \A u \in Threads : \A w, b : Attaches(u, w, b)' <=> Attaches(u, w, b)
        /\ \A u \in Threads : \A w \in Windows : Destroys(u, w)' => Destroys(u, w)
    BY <1>1 DEF Sets, Attaches, Destroys
  <1> QED BY <1>1, <1>2, <1>3, <1>4, <1>5, <1>7, <1>8, GuestFrame DEF vars

\* Other addresses keep their surfaces when address a gets one or loses it.
LEMMA OtherHandles ==
  ASSUME GuestTypes, NEW a \in Addrs, NEW h, surf' = [surf EXCEPT ![a] = h]
  PROVE  /\ surf'[a] = h /\ \A e \in Addrs \ {a} : surf'[e] = surf[e]
         /\ \A e \in (Addrs \cup {Null}) \ {a} :
               (IF e = Null THEN Null ELSE surf'[e]) = Handle(e)
  BY AddrsAssumption DEF GuestTypes, Handle

\* When the surface at address a changes, which no binding and no call names, the
\* agreement stays.
LEMMA AgreeOtherSurface ==
  ASSUME GuestInv, NEW a \in Addrs, NEW h, surf' = [surf EXCEPT ![a] = h],
         UNCHANGED <<tinfo, ended, cur, bound, call>>,
         \A u \in Threads : a \notin {call[u].draw, call[u].read},
         \A u \in Threads \ ended : call[u].at # "replied" /\ cur[u] # Null =>
             a \notin {bound[cur[u]].draw, bound[cur[u]].read}
  PROVE  AgreeInv'
  <1>1. /\ surf'[a] = h /\ \A e \in Addrs \ {a} : surf'[e] = surf[e]
        /\ \A e \in (Addrs \cup {Null}) \ {a} :
               (IF e = Null THEN Null ELSE surf'[e]) = Handle(e)
    BY OtherHandles DEF GuestInv, TypeInv
  <1>2. ASSUME NEW u \in Threads \ ended, call[u].at # "replied", cur[u] # Null
        PROVE  /\ Handle(bound[cur[u]].draw)' = tinfo[u].draw
               /\ Handle(bound[cur[u]].read)' = tinfo[u].read
    <2>1. /\ bound[cur[u]].draw \in Addrs \ {a} /\ surf[bound[cur[u]].draw] = tinfo[u].draw
          /\ bound[cur[u]].read \in Addrs \ {a} /\ surf[bound[cur[u]].read] = tinfo[u].read
      BY <1>2, RunningBinding
    <2> QED BY <1>1, <2>1, AddrsAssumption DEF Handle
  <1>3. ASSUME NEW u \in Threads \ ended, call[u].at = "replied", call[u].ctx # Null
        PROVE  /\ Handle(call[u].draw)' = tinfo[u].draw
               /\ Handle(call[u].read)' = tinfo[u].read
    <2>1. /\ call[u].draw \in Addrs \ {a} /\ surf[call[u].draw] = tinfo[u].draw
          /\ call[u].read \in Addrs \ {a} /\ surf[call[u].read] = tinfo[u].read
      BY <1>3, RepliedBinding
    <2> QED BY <1>1, <2>1, AddrsAssumption DEF Handle
  <1>4. \A u \in Threads \ ended : /\ call[u].at # "replied" => cur[u] = tinfo[u].ctx
                                   /\ call[u].at = "replied" => call[u].ctx = tinfo[u].ctx
    BY DEF GuestInv, AgreeInv
  <1> QED BY <1>2, <1>3, <1>4 DEF AgreeInv

\* The calls in progress name the surfaces they named before.
LEMMA CallsOtherSurface ==
  ASSUME GuestInv, NEW a \in Addrs, NEW h, surf' = [surf EXCEPT ![a] = h],
         UNCHANGED <<cur, call>>,
         \A u \in Threads : a \notin {call[u].draw, call[u].read}
  PROVE  CallsInv'
  <1>1. /\ surf'[a] = h /\ \A e \in Addrs \ {a} : surf'[e] = surf[e]
        /\ \A e \in (Addrs \cup {Null}) \ {a} :
               (IF e = Null THEN Null ELSE surf'[e]) = Handle(e)
    BY OtherHandles DEF GuestInv, TypeInv
  <1>2. ASSUME NEW u \in Threads
        PROVE  /\ call[u].draw \in (Addrs \cup {Null}) \ {a}
               /\ call[u].read \in (Addrs \cup {Null}) \ {a}
    BY DEF GuestInv, TypeInv, GuestTypes, GuestCalls
  <1> QED BY <1>1, <1>2 DEF GuestInv, CallsInv

\* eglCreateWindowSurface: the handle is new, so nothing on the way and no thread is
\* about it (egl.cpp:264-294, 611-660).
LEMMA CreateSurfaceStep ==
  ASSUME GuestInv, TypeInv', NEW t \in Threads, NEW a \in Addrs, NEW w \in Windows,
         NEW b \in Buffers, EglCreateWindowSurface(t, a, w, b)
  PROVE  GuestInv'
  <1> USE DEF GuestInv
  <1>1. /\ pending[t] = <<>> /\ surf[a] = Null /\ Queues(t, AttachCall(w, b))
        /\ CreateWindowSurface(w, cbSize[b]) /\ surf' = [surf EXCEPT ![a] = w]
        /\ dequeued' = [dequeued EXCEPT ![w] = b] /\ UNCHANGED <<cur, bound, call, astray>>
    BY DEF EglCreateWindowSurface, Executed, Queues, egls
  <1>2. /\ HostInv' /\ UNCHANGED <<egl, tinfo, ended>> /\ table \subseteq table'
        /\ made \subseteq made' /\ w \notin made /\ w \in table'
        /\ \A v \in Windows \cap made : win'[v] = win[v]
    BY <1>1, CreateHost DEF TypeInv
  <1>3. table \subseteq made /\ table' \subseteq made'
    BY DEF TypeInv, SizeInv, TypeOK
  <1>4. surf'[a] = w /\ \A e \in Addrs \ {a} : surf'[e] = surf[e] /\ surf[e] # w
    <2>1. \A e \in Addrs : surf[e] # w
      BY <1>2, <1>3, NullAssumption DEF SurfacesInv
    <2> QED BY <1>1, <2>1 DEF TypeInv, GuestTypes
  <1>5. dequeued'[w] = b /\ \A v \in Windows \ {w} : dequeued'[v] = dequeued[v]
    BY <1>1 DEF TypeInv, GuestTypes
  <1>6. /\ \A u \in Threads \ {t} : \A v, e : Sets(u, v, e)' <=> Sets(u, v, e)
        /\ \A u \in Threads \ {t} : \A v, e : Attaches(u, v, e)' <=> Attaches(u, v, e)
        /\ \A v, e : Attaches(t, v, e)' <=> v = w /\ e = b
        /\ \A v, e : ~Sets(t, v, e)'
        /\ \A u \in Threads : \A v : Destroys(u, v)' => Destroys(u, v)
    <2>1. PICK k \in {SetCall(w, b), AttachCall(w, b)} : k = AttachCall(w, b)
      OBVIOUS
    <2>2. k.op = "attach"
      BY <2>1 DEF AttachCall
    <2> QED BY <1>1, <2>1, <2>2, QueuesSet DEF TypeInv
  <1>7. \A u \in Threads : a \notin {call[u].draw, call[u].read}
    BY <1>1, AddrsAssumption DEF CallsInv
  <1>8. CallsInv'
    BY <1>1, <1>7, CallsOtherSurface
  <1>9. AgreeInv'
    <2>1. ASSUME NEW u \in Threads \ ended, call[u].at # "replied", cur[u] # Null
          PROVE  a \notin {bound[cur[u]].draw, bound[cur[u]].read}
      BY <1>1, <2>1, RunningBinding, NullAssumption
    <2> QED BY <1>1, <1>2, <1>7, <2>1, AgreeOtherSurface
  <1>10. SurfacesInv'
    <2>1. \A e, f \in Addrs : surf'[e] # Null /\ surf'[e] = surf'[f] => e = f
      BY <1>4 DEF SurfacesInv
    <2>2. \A e \in Addrs : surf'[e] # Null => surf'[e] \in table'
      BY <1>2, <1>4 DEF SurfacesInv
    <2>3. ASSUME NEW u \in Threads, NEW v \in Windows, Destroys(u, v)'
          PROVE  v \in made' /\ \A e \in Addrs : surf'[e] # v
      <3>1. v \in made /\ \A e \in Addrs : surf[e] # v
        BY <1>6, <2>3 DEF SurfacesInv
      <3> QED BY <1>2, <1>4, <3>1
    <2>4. ASSUME NEW u \in Threads, NEW v \in Windows, NEW e \in Buffers,
                 Sets(u, v, e)' \/ Attaches(u, v, e)'
          PROVE  v \in made'
      BY <1>2, <1>3, <1>6, <2>4 DEF SurfacesInv
    <2>6. ASSUME NEW u \in Threads, NEW v \in Threads, NEW x \in Windows, NEW e \in Buffers,
                 NEW f \in Buffers, Attaches(u, x, e)', Attaches(v, x, f)'
          PROVE  u = v
      <3>1. CASE x = w
        <4>1. \A z \in Threads \ {t} : ~Attaches(z, x, e) /\ ~Attaches(z, x, f)
          BY <1>2, <3>1 DEF SurfacesInv
        <4> QED BY <1>6, <2>6, <4>1
      <3>2. CASE x # w
        BY <1>6, <2>6, <3>2 DEF SurfacesInv
      <3> QED BY <3>1, <3>2
    <2>5. ASSUME NEW v \in Windows, dequeued'[v] # Null PROVE \E e \in Addrs : surf'[e] = v
      <3>1. CASE v = w
        BY <1>4, <3>1
      <3>2. CASE v # w
        <4>1. PICK e \in Addrs : surf[e] = v
          BY <1>5, <2>5, <3>2 DEF SurfacesInv
        <4>2. e # a
          BY <1>1, <4>1, NullAssumption
        <4> QED BY <1>4, <4>1, <4>2
      <3> QED BY <3>1, <3>2
    <2> QED BY <2>1, <2>2, <2>3, <2>4, <2>5, <2>6 DEF SurfacesInv
  <1>11. SetInv'
    <2> SUFFICES ASSUME NEW v \in Threads, NEW x \in Windows, NEW e \in Buffers, Sets(v, x, e)'
                 PROVE  dequeued'[x] \in {e, Null} /\ HasCurrent(v, x)'
      BY DEF SetInv
    <2>1. HasCurrent(v, x)' <=> HasCurrent(v, x)
      BY <1>2 DEF HasCurrent
    <2>2. v # t /\ Sets(v, x, e) /\ x \in made
      BY <1>6 DEF SurfacesInv
    <2>3. x # w
      BY <1>2, <2>2
    <2> QED BY <1>5, <2>1, <2>2, <2>3 DEF SetInv
  <1>12. DequeuedInv'
    <2> SUFFICES ASSUME NEW x \in Windows, NEW e \in Buffers, e = dequeued'[x]
                 PROVE  win'[x].cb = e \/ x \in astray \/ Awaits(x, e)'
      BY <1>1 DEF DequeuedInv
    <2>1. CASE x = w
      <3>1. win'[w].cb = Null
        <4>1. win' = [win EXCEPT ![w] = [NewWindow EXCEPT !.size = cbSize[b], !.pbuf = cbSize[b],
                                                          !.gen = 1, !.live = TRUE]]
          BY <1>1 DEF CreateWindowSurface
        <4> QED BY <4>1 DEF NewWindow, TypeInv, SizeInv, TypeOK
      <3> QED BY <1>5, <1>6, <2>1, <3>1 DEF Awaits
    <2>2. CASE x # w
      <3>1. e = dequeued[x]
        BY <1>5, <2>2
      <3>2. win[x].cb = e \/ x \in astray \/ Awaits(x, e)
        BY <3>1 DEF DequeuedInv
      <3>3. x \in made
        <4>1. PICK f \in Addrs : surf[f] = x
          BY <3>1, NullAssumption DEF SurfacesInv
        <4> QED BY <1>3, <4>1, NullAssumption DEF SurfacesInv
      <3>4. \A u \in Threads : Sets(u, x, e) \/ Attaches(u, x, e) => u # t
        BY <1>1 DEF Sets, Attaches
      <3> QED BY <1>2, <1>6, <3>2, <3>3, <3>4 DEF Awaits
    <2> QED BY <2>1, <2>2
  <1> QED BY <1>2, <1>8, <1>9, <1>10, <1>11, <1>12

\* eglDestroySurface: with "surface", no binding and no call names the surface, and the
\* host hears of it after what the thread sent before (egl.cpp:707-733).
LEMMA DestroySurfaceStep ==
  ASSUME "surface" \in GuestRules, GuestInv, TypeInv', NEW t \in Threads, NEW a \in Addrs,
         EglDestroySurface(t, a)
  PROVE  GuestInv'
  <1> USE DEF GuestInv
  <1>1. /\ surf[a] # Null /\ Queues(t, DestroyCall(surf[a]))
        /\ \A u \in Threads : ~CurrentIn(u, a) /\ a \notin {call[u].draw, call[u].read}
        /\ dequeued' = [dequeued EXCEPT ![surf[a]] = Null]
        /\ surf' = [surf EXCEPT ![a] = Null] /\ UNCHANGED <<cur, bound, call, astray, vars>>
    BY DEF EglDestroySurface, Queues, egls
  <1>2. PICK w \in Windows : w = surf[a]
    BY <1>1 DEF TypeInv, GuestTypes
  <1>3. HostInv'
    BY <1>1, IdleHost
  <1>4. surf'[a] = Null /\ \A e \in Addrs \ {a} : surf'[e] = surf[e] /\ surf[e] # w
    BY <1>1, <1>2 DEF TypeInv, GuestTypes, SurfacesInv
  <1>5. dequeued'[w] = Null /\ \A v \in Windows \ {w} : dequeued'[v] = dequeued[v]
    BY <1>1, <1>2 DEF TypeInv, GuestTypes
  <1>6. /\ \A u \in Threads : \A v, e : Sets(u, v, e)' <=> Sets(u, v, e)
        /\ \A u \in Threads : \A v, e : Attaches(u, v, e)' <=> Attaches(u, v, e)
        /\ \A u \in Threads : \A v : Destroys(u, v)' => Destroys(u, v) \/ v = w
    BY <1>1, <1>2, QueuesDestroy DEF TypeInv
  <1>7. CallsInv'
    BY <1>1, CallsOtherSurface
  <1>8. AgreeInv'
    BY <1>1, AgreeOtherSurface DEF CurrentIn, vars
  <1>9. SurfacesInv'
    <2>1. w \in made
      BY <1>1, <1>2 DEF SurfacesInv, TypeInv, SizeInv, TypeOK
    <2>2. \A e, f \in Addrs : surf'[e] # Null /\ surf'[e] = surf'[f] => e = f
      BY <1>4 DEF SurfacesInv
    <2>3. \A e \in Addrs : surf'[e] # Null => surf'[e] \in table'
      BY <1>1, <1>4 DEF SurfacesInv, vars
    <2>4. ASSUME NEW u \in Threads, NEW v \in Windows, Destroys(u, v)'
          PROVE  v \in made' /\ \A e \in Addrs : surf'[e] # v
      <3>1. v = w \/ (v \in made /\ \A e \in Addrs : surf[e] # v)
        BY <1>6, <2>4 DEF SurfacesInv
      <3> QED BY <1>1, <1>4, <2>1, <3>1, NullAssumption DEF vars
    <2>5. /\ \A u \in Threads, v \in Windows, e \in Buffers :
                Sets(u, v, e)' \/ Attaches(u, v, e)' => v \in made'
          /\ \A u, v \in Threads, x \in Windows, e, f \in Buffers :
                Attaches(u, x, e)' /\ Attaches(v, x, f)' => u = v
      BY <1>1, <1>6 DEF SurfacesInv, vars
    <2>6. ASSUME NEW v \in Windows, dequeued'[v] # Null PROVE \E e \in Addrs : surf'[e] = v
      <3>1. v # w /\ \E e \in Addrs : surf[e] = v
        BY <1>5, <2>6 DEF SurfacesInv
      <3> QED BY <1>2, <1>4, <3>1
    <2> QED BY <2>2, <2>3, <2>4, <2>5, <2>6 DEF SurfacesInv
  <1>10. SetInv'
    <2>1. \A u \in Threads : \A y : HasCurrent(u, y)' <=> HasCurrent(u, y)
      BY <1>1 DEF HasCurrent, vars
    <2> QED BY <1>5, <1>6, <2>1 DEF SetInv
  <1>11. DequeuedInv'
    <2> SUFFICES ASSUME NEW x \in Windows, NEW e \in Buffers, e = dequeued'[x]
                 PROVE  win'[x].cb = e \/ x \in astray \/ Awaits(x, e)'
      BY <1>1 DEF DequeuedInv
    <2>1. e = dequeued[x]
      BY <1>5, NullAssumption
    <2> QED BY <1>1, <1>6, <2>1 DEF DequeuedInv, Awaits, vars
  <1> QED BY <1>3, <1>7, <1>8, <1>9, <1>10, <1>11

\* eglSwapBuffers: with "swap", the thread has the surface current, so no other thread
\* has it and no other buffer is on its way to it (egl.cpp:313-335, 1096-1125).
LEMMA SwapStep ==
  ASSUME "swap" \in GuestRules, GuestInv, TypeInv', NEW t \in Threads \ ended, NEW a \in Addrs,
         EglSwapBuffers(t, a)
  PROVE  GuestInv'
  <1> USE DEF GuestInv
  <1>1. /\ call[t].at = "idle" /\ surf[a] # Null /\ cur[t] # Null /\ bound[cur[t]].draw = a
        /\ pending[t] = <<>> /\ FlushWindowSurfaceColorBuffer(t, surf[a])
        /\ UNCHANGED <<cur, bound, surf, call, astray>>
    BY DEF EglSwapBuffers, InCall, Executed, egls
  <1>2. PICK w \in Windows : w = surf[a]
    BY <1>1 DEF TypeInv, GuestTypes
  <1>3. HostInv' /\ UNCHANGED <<egl, tinfo, ended, win, made, table>>
    BY <1>1, <1>2, FlushHost DEF TypeInv
  <1>4. HasCurrent(t, w)
    BY <1>1, <1>2, RunningBinding
  <1>5. \A u \in Threads \ {t} : ~HasCurrent(u, w)
    BY <1>4, OneHolder DEF HostInv
  <1>6. PICK b \in Buffers \cup {Null} :
            /\ dequeued' = [dequeued EXCEPT ![w] = b]
            /\ b # Null => Queues(t, SetCall(w, b))
            /\ b = Null => UNCHANGED pending
    <2>1. \/ \E b \in Buffers : /\ dequeued' = [dequeued EXCEPT ![w] = b]
                                /\ Queues(t, SetCall(w, b))
          \/ dequeued' = [dequeued EXCEPT ![w] = Null] /\ UNCHANGED pending
      BY <1>2 DEF EglSwapBuffers, Queues
    <2> QED BY <2>1, NullAssumption
  <1>7. dequeued'[w] = b /\ \A v \in Windows \ {w} : dequeued'[v] = dequeued[v]
    BY <1>6 DEF TypeInv, GuestTypes
  <1>8. /\ \A u \in Threads \ {t} : \A v, e : Sets(u, v, e)' <=> Sets(u, v, e)
        /\ \A u \in Threads \ {t} : \A v, e : Attaches(u, v, e)' <=> Attaches(u, v, e)
        /\ \A v \in Windows, e \in Buffers : Sets(t, v, e)' <=> v = w /\ e = b
        /\ \A v, e : ~Attaches(t, v, e)'
        /\ \A u \in Threads : \A v : Destroys(u, v)' => Destroys(u, v)
    <2>1. CASE b # Null
      <3>1. PICK k \in {SetCall(w, b), AttachCall(w, b)} : k = SetCall(w, b)
        OBVIOUS
      <3>2. k.op = "set"
        BY <3>1 DEF SetCall
      <3> QED BY <1>1, <1>6, <2>1, <3>1, <3>2, QueuesSet DEF TypeInv
    <2>2. CASE b = Null
      BY <1>1, <1>6, <2>2, NullAssumption DEF Sets, Attaches, Destroys
    <2> QED BY <2>1, <2>2
  <1>10. CallsInv'
    BY <1>1 DEF CallsInv
  <1>11. AgreeInv'
    <2>1. \A u \in Threads \ ended : /\ Handle(bound[cur[u]].draw)' = Handle(bound[cur[u]].draw)
                                     /\ Handle(bound[cur[u]].read)' = Handle(bound[cur[u]].read)
                                     /\ Handle(call[u].draw)' = Handle(call[u].draw)
                                     /\ Handle(call[u].read)' = Handle(call[u].read)
      BY <1>1 DEF Handle
    <2> QED BY <1>1, <1>3, <2>1 DEF AgreeInv
  <1>12. SurfacesInv'
    <2>1. w \in made
      BY <1>1, <1>2 DEF SurfacesInv, TypeInv, SizeInv, TypeOK
    <2>2. /\ \A u \in Threads, v \in Windows, e \in Buffers :
                Sets(u, v, e)' \/ Attaches(u, v, e)' => v \in made'
          /\ \A u, v \in Threads, x \in Windows, e, f \in Buffers :
                Attaches(u, x, e)' /\ Attaches(v, x, f)' => u = v
      BY <1>3, <1>8, <2>1 DEF SurfacesInv
    <2>3. \A u \in Threads, v \in Windows :
             Destroys(u, v)' => v \in made' /\ \A e \in Addrs : surf'[e] # v
      BY <1>1, <1>3, <1>8 DEF SurfacesInv
    <2>4. \A v \in Windows : dequeued'[v] # Null => \E e \in Addrs : surf'[e] = v
      BY <1>1, <1>2, <1>7 DEF SurfacesInv
    <2> QED BY <1>1, <1>3, <2>2, <2>3, <2>4 DEF SurfacesInv
  <1>13. SetInv'
    <2> SUFFICES ASSUME NEW v \in Threads, NEW x \in Windows, NEW e \in Buffers, Sets(v, x, e)'
                 PROVE  dequeued'[x] \in {e, Null} /\ HasCurrent(v, x)'
      BY DEF SetInv
    <2>1. HasCurrent(v, x)' <=> HasCurrent(v, x)
      BY <1>3 DEF HasCurrent
    <2>2. CASE v = t
      BY <1>4, <1>7, <1>8, <2>1, <2>2
    <2>3. CASE v # t
      <3>1. Sets(v, x, e) /\ HasCurrent(v, x)
        BY <1>8, <2>3 DEF SetInv
      <3>2. x # w
        BY <1>5, <2>3, <3>1
      <3> QED BY <1>7, <2>1, <3>1, <3>2 DEF SetInv
    <2> QED BY <2>2, <2>3
  <1>14. DequeuedInv'
    <2> SUFFICES ASSUME NEW x \in Windows, NEW e \in Buffers, e = dequeued'[x]
                 PROVE  win'[x].cb = e \/ x \in astray \/ Awaits(x, e)'
      BY <1>1 DEF DequeuedInv
    <2>1. CASE x = w
      BY <1>7, <1>8, <2>1 DEF Awaits
    <2>2. CASE x # w
      <3>1. win[x].cb = e \/ x \in astray \/ Awaits(x, e)
        BY <1>7, <2>2 DEF DequeuedInv
      <3>2. \A u \in Threads : Sets(u, x, e) \/ Attaches(u, x, e) => u # t
        BY <1>1 DEF Sets, Attaches
      <3> QED BY <1>3, <1>8, <3>1, <3>2 DEF Awaits
    <2> QED BY <2>1, <2>2
  <1> QED BY <1>3, <1>10, <1>11, <1>12, <1>13, <1>14

\* What the host replied is recorded, or the call is over.
LEMMA RepliedCall ==
  ASSUME GuestTypes, NEW t \in Threads, call' = [call EXCEPT ![t].at = "replied"]
  PROVE  /\ call'[t].at = "replied" /\ call'[t].ctx = call[t].ctx
         /\ call'[t].draw = call[t].draw /\ call'[t].read = call[t].read
         /\ \A u \in Threads \ {t} : call'[u] = call[u]
  <1>1. call[t] \in GuestCalls /\ call \in [Threads -> GuestCalls]
    BY DEF GuestTypes
  <1>2. /\ call'[t] = [call[t] EXCEPT !.at = "replied"]
        /\ \A u \in Threads \ {t} : call'[u] = call[u]
    BY <1>1
  <1> QED BY <1>1, <1>2 DEF GuestCalls

\* rcMakeCurrent changes the host's binding of t: how the guest's invariants see it.
LEMMA RepliedStep ==
  ASSUME GuestInv, TypeInv', HostInv', NEW t \in Threads, t \notin ended, pending[t] = <<>>,
         call' = [call EXCEPT ![t].at = "replied"],
         UNCHANGED <<cur, bound, surf, dequeued, pending, astray, ended, made, table>>,
         \A u \in Threads \ {t} : tinfo'[u] = tinfo[u] /\ egl'[u] = egl[u],
         \A w \in Windows : win'[w].cb = win[w].cb,
         tinfo'[t].ctx = call[t].ctx,
         call[t].ctx # Null => /\ Handle(call[t].draw) = tinfo'[t].draw
                               /\ Handle(call[t].read) = tinfo'[t].read
  PROVE  GuestInv'
  <1> USE DEF GuestInv
  <1>1. /\ call'[t].at = "replied" /\ call'[t].ctx = call[t].ctx
        /\ call'[t].draw = call[t].draw /\ call'[t].read = call[t].read
        /\ \A u \in Threads \ {t} : call'[u] = call[u]
    BY RepliedCall DEF TypeInv
  <1>2. /\ \A u \in Threads : \A w, b : Sets(u, w, b)' <=> Sets(u, w, b)
        /\ \A u \in Threads : \A w, b : Attaches(u, w, b)' <=> Attaches(u, w, b)
        /\ \A u \in Threads : \A w : Destroys(u, w)' <=> Destroys(u, w)
        /\ \A w, b : ~Sets(t, w, b)
    BY DEF Sets, Attaches, Destroys
  <1>3. SurfacesInv'
    BY <1>2 DEF SurfacesInv
  <1>4. CallsInv'
    BY <1>1 DEF CallsInv
  <1>5. AgreeInv'
    <2>1. \A u \in Threads \ ended : /\ Handle(bound[cur[u]].draw)' = Handle(bound[cur[u]].draw)
                                     /\ Handle(bound[cur[u]].read)' = Handle(bound[cur[u]].read)
      BY DEF Handle
    <2>2. \A u \in Threads \ ended : /\ Handle(call[u].draw)' = Handle(call[u].draw)
                                     /\ Handle(call[u].read)' = Handle(call[u].read)
      BY <1>1 DEF Handle
    <2>3. ASSUME NEW u \in Threads \ ended, u # t
          PROVE  /\ call'[u].at # "replied" =>
                      /\ cur'[u] = tinfo'[u].ctx
                      /\ cur'[u] # Null => /\ Handle(bound[cur[u]].draw)' = tinfo'[u].draw
                                           /\ Handle(bound[cur[u]].read)' = tinfo'[u].read
                 /\ call'[u].at = "replied" =>
                      /\ call'[u].ctx = tinfo'[u].ctx
                      /\ call'[u].ctx # Null => /\ Handle(call[u].draw)' = tinfo'[u].draw
                                                /\ Handle(call[u].read)' = tinfo'[u].read
      BY <1>1, <2>1, <2>2, <2>3 DEF AgreeInv
    <2> QED BY <1>1, <2>2, <2>3 DEF AgreeInv
  <1>6. SetInv'
    <2>1. \A u \in Threads \ {t} : \A y : HasCurrent(u, y)' <=> HasCurrent(u, y)
      BY DEF HasCurrent
    <2> QED BY <1>2, <2>1 DEF SetInv
  <1>7. DequeuedInv'
    BY <1>2 DEF DequeuedInv, Awaits
  <1> QED BY <1>3, <1>4, <1>5, <1>6, <1>7

\* rcMakeCurrent in the host (egl.cpp:955, FrameBuffer.cpp:652-739).
LEMMA HostMakesCurrentKeeps ==
  ASSUME GuestInv, TypeInv', NEW t \in Threads \ ended, HostMakesCurrent(t)
  PROVE  GuestInv'
  <1> USE DEF GuestInv
  <1> DEFINE c == call[t].ctx
             d == Handle(call[t].draw)
             r == Handle(call[t].read)
  <1>1. /\ call[t].at = "sent" /\ pending[t] = <<>>
        /\ UNCHANGED <<cur, bound, surf, dequeued, pending, astray>>
    BY DEF HostMakesCurrent, Executed, egls
  <1>2. c \in Contexts \cup {Null} /\ d \in Windows \cup {Null} /\ r \in Windows \cup {Null}
    <2>1. call[t] \in GuestCalls /\ GuestTypes
      BY DEF TypeInv, GuestTypes
    <2> QED BY <2>1, HandleTypes DEF GuestCalls
  <1>3. CASE c = Null /\ UnbindContext(t) /\ call' = [call EXCEPT ![t].at = "replied"]
    <2>1. tinfo[t].ctx # Null
      BY <1>1, <1>3 DEF CallsInv, AgreeInv
    <2>2. /\ HostInv' /\ UNCHANGED <<ended, made, table>>
          /\ tinfo'[t].ctx = Null /\ egl'[t] = Unbound
          /\ \A u \in Threads \ {t} : tinfo'[u] = tinfo[u] /\ egl'[u] = egl[u]
          /\ \A w \in Windows : win'[w].cb = win[w].cb
      BY <1>3, <2>1, UnbindHost DEF TypeInv
    <2> QED BY <1>1, <1>3, <2>2, RepliedStep
  <1>4. CASE c # Null /\ BindContext(t, c, d, r) /\ call' = [call EXCEPT ![t].at = "replied"]
    <2>1. Null \notin table
      BY NullAssumption DEF TypeInv, SizeInv, TypeOK
    <2>2. d \in Windows /\ r \in Windows /\ c \in Contexts
      BY <1>2, <1>4, <2>1 DEF BindContext
    <2> HIDE DEF c, d, r
    <2>3. /\ HostInv' /\ UNCHANGED <<ended, made, table>>
          /\ tinfo'[t] = [ctx |-> c, draw |-> d, read |-> r]
          /\ \A u \in Threads \ {t} : tinfo'[u] = tinfo[u] /\ egl'[u] = egl[u]
          /\ \A w \in Windows : win'[w].cb = win[w].cb
      BY <1>4, <2>2, BindHost DEF TypeInv
    <2>4. tinfo'[t].ctx = c /\ tinfo'[t].draw = d /\ tinfo'[t].read = r
      BY <2>3
    <2>6. tinfo'[t].ctx = call[t].ctx /\ Handle(call[t].draw) = tinfo'[t].draw
          /\ Handle(call[t].read) = tinfo'[t].read
      BY <2>4 DEF c, d, r
    <2> QED BY <1>1, <1>4, <2>3, <2>6, RepliedStep
  <1>5. CASE UNCHANGED vars /\ call' = [call EXCEPT ![t] = Idle]
    <2>1. HostInv'
      BY <1>5, IdleHost
    <2>2. \A a \in Addrs : surf[a] # Null => surf[a] \in table'
      BY <1>5 DEF SurfacesInv, vars
    <2>3. call'[t] = Idle /\ \A u \in Threads \ {t} : call'[u] = call[u]
      BY <1>5 DEF TypeInv, GuestTypes
    <2>4. CallsInv'
      BY <1>1, <2>3, CallTypes DEF CallsInv
    <2>5. /\ \A u \in Threads : \A w, b : Sets(u, w, b)' <=> Sets(u, w, b)
          /\ \A u \in Threads : \A w, b : Attaches(u, w, b)' <=> Attaches(u, w, b)
          /\ \A u \in Threads : \A w \in Windows : Destroys(u, w)' => Destroys(u, w)
      BY <1>1 DEF Sets, Attaches, Destroys
    <2> QED BY <1>1, <1>5, <2>1, <2>2, <2>3, <2>4, <2>5, CallTypes, GuestFrame DEF vars
  <1> QED BY <1>3, <1>4, <1>5 DEF HostMakesCurrent, Refused

\* The local bind: no other thread can have the context the host just gave to this one
\* (egl.cpp:957-1019).
LEMMA LocalBindStep ==
  ASSUME GuestInv, TypeInv', NEW t \in Threads \ ended, LocalBind(t)
  PROVE  GuestInv'
  <1> USE DEF GuestInv
  <1> DEFINE s == [draw |-> call[t].draw, read |-> call[t].read]
  <1>1. PICK c \in Contexts \cup {Null} : c = call[t].ctx
    BY DEF TypeInv, GuestTypes, GuestCalls
  <1>2. /\ call[t].at = "replied" /\ UNCHANGED <<vars, surf, dequeued, astray>>
        /\ bound' = (IF c = Null THEN bound ELSE [bound EXCEPT ![c] = s])
        /\ cur' = [cur EXCEPT ![t] = c] /\ call' = [call EXCEPT ![t] = Idle]
    BY <1>1 DEF LocalBind
  <1>3. HostInv'
    BY <1>2, IdleHost
  <1>4. /\ cur'[t] = c /\ \A u \in Threads \ {t} : cur'[u] = cur[u]
        /\ call'[t] = Idle /\ \A u \in Threads \ {t} : call'[u] = call[u]
        /\ \A x \in Contexts \ {c} : bound'[x] = bound[x]
        /\ c # Null => bound'[c] = s
    BY <1>2 DEF TypeInv, GuestTypes
  <1>5. s.draw = call[t].draw /\ s.read = call[t].read
    OBVIOUS
  <1> HIDE DEF s
  <1>6. /\ \A u \in Threads : \A w, b : Sets(u, w, b)' <=> Sets(u, w, b)
        /\ \A u \in Threads : \A w, b : Attaches(u, w, b)' <=> Attaches(u, w, b)
        /\ \A u \in Threads : \A w \in Windows : Destroys(u, w)' => Destroys(u, w)
    <2>1. CASE ~call[t].destroy
      <3>1. UNCHANGED pending
        BY <2>1 DEF LocalBind
      <3> QED BY <3>1 DEF Sets, Attaches, Destroys
    <2>2. CASE call[t].destroy
      <3>1. PICK y \in Contexts : y = cur[t]
        BY <2>2 DEF TypeInv, CallsOK, GuestTypes
      <3>2. Queues(t, DestroyCall(y))
        BY <2>2, <3>1 DEF LocalBind, ContextDeleted, Queues
      <3>3. /\ \A u \in Threads : \A w, b : Sets(u, w, b)' <=> Sets(u, w, b)
            /\ \A u \in Threads : \A w, b : Attaches(u, w, b)' <=> Attaches(u, w, b)
            /\ \A u \in Threads : \A w : Destroys(u, w)' => Destroys(u, w) \/ w = y
        BY <3>2, QueuesDestroy DEF TypeInv
      <3> QED BY <3>3, HandlesAssumption
    <2> QED BY <2>1, <2>2
  <1>7. SurfacesInv'
    BY <1>2, <1>6 DEF SurfacesInv, vars
  <1>8. CallsInv'
    BY <1>2, <1>4, CallTypes DEF CallsInv
  <1>9. AgreeInv'
    <2>1. \A x : Handle(x)' = Handle(x)
      BY <1>2 DEF Handle
    <2>2. /\ cur'[t] = tinfo[t].ctx
          /\ c # Null => /\ Handle(bound[cur[t]].draw)' = tinfo[t].draw
                         /\ Handle(bound[cur[t]].read)' = tinfo[t].read
      <3>1. c = tinfo[t].ctx
        BY <1>1, <1>2 DEF AgreeInv
      <3>2. c # Null => Handle(s.draw) = tinfo[t].draw /\ Handle(s.read) = tinfo[t].read
        BY <1>1, <1>2, <1>5 DEF AgreeInv
      <3> QED BY <1>2, <1>4, <3>1, <3>2 DEF Handle
    <2>3. ASSUME NEW u \in Threads \ ended, u # t, call[u].at # "replied", cur[u] # Null
          PROVE  /\ Handle(bound[cur[u]].draw)' = tinfo[u].draw
                 /\ Handle(bound[cur[u]].read)' = tinfo[u].read
      <3>1. /\ cur[u] \in Contexts /\ BindingOf(egl[u], tinfo[u], win) /\ tinfo[u].ctx = cur[u]
        BY <2>3, RunningBinding
      <3>2. cur[u] # c
        <4> SUFFICES ASSUME cur[u] = c PROVE FALSE
          OBVIOUS
        <4>1. BindingOf(egl[t], tinfo[t], win) /\ tinfo[t].ctx = c /\ egl[t] # Unbound
          BY <1>1, <1>2, <2>3, RepliedBinding
        <4>2. Apart(egl[t], egl[u])
          BY <2>3, <4>1 DEF HostInv, EglInv
        <4> QED BY <3>1, <4>1, <4>2 DEF BindingOf, Apart
      <3>3. /\ Handle(bound[cur[u]].draw) = tinfo[u].draw
            /\ Handle(bound[cur[u]].read) = tinfo[u].read
        BY <2>3 DEF AgreeInv
      <3>4. bound'[cur'[u]] = bound[cur[u]]
        BY <1>4, <2>3, <3>1, <3>2
      <3> QED BY <1>2, <3>3, <3>4 DEF Handle
    <2>4. ASSUME NEW u \in Threads \ ended, u # t, call[u].at = "replied", call[u].ctx # Null
          PROVE  /\ Handle(call[u].draw)' = tinfo[u].draw
                 /\ Handle(call[u].read)' = tinfo[u].read
      BY <1>2, <1>4, <2>4 DEF Handle, AgreeInv
    <2>5. UNCHANGED <<ended, tinfo>>
      BY <1>2 DEF vars
    <2>6. \A u \in Threads \ ended : u # t => /\ call[u].at # "replied" => cur[u] = tinfo[u].ctx
                                              /\ call[u].at = "replied" => call[u].ctx = tinfo[u].ctx
      BY DEF AgreeInv
    <2> QED BY <1>4, <2>2, <2>3, <2>4, <2>5, <2>6, CallTypes DEF AgreeInv
  <1>10. SetInv'
    <2>1. \A u \in Threads : \A y : HasCurrent(u, y)' <=> HasCurrent(u, y)
      BY <1>2 DEF HasCurrent, vars
    <2> QED BY <1>2, <1>6, <2>1 DEF SetInv
  <1>11. DequeuedInv'
    BY <1>2, <1>6 DEF DequeuedInv, Awaits, vars
  <1> QED BY <1>3, <1>7, <1>8, <1>9, <1>10, <1>11

\* The host executes a call late: an attachment gives the surface the buffer it has
\* dequeued, or is a first attachment that went astray, or finds no surface; a destruction
\* is of a surface the guest has forgotten.
LEMMA HostExecutesKeeps ==
  ASSUME GuestInv, TypeInv', NEW t \in Threads \ ended, HostExecutes(t)
  PROVE  GuestInv'
  <1> USE DEF GuestInv
  <1>1. PICK k \in PendingCalls : k = Head(pending[t]) /\ k = pending[t][1]
    BY FirstCall DEF HostExecutes, TypeInv
  <1>2. /\ pending[t] # <<>> /\ Runs(t) /\ UNCHANGED <<cur, bound, surf, dequeued, call>>
    BY DEF HostExecutes, Runs, egls
  <1>3. /\ \A u \in Threads \ {t} : \A w, b : Sets(u, w, b)' <=> Sets(u, w, b)
        /\ \A u \in Threads \ {t} : \A w, b : Attaches(u, w, b)' <=> Attaches(u, w, b)
        /\ \A w, b : ~Sets(t, w, b)' /\ ~Attaches(t, w, b)'
        /\ \A u \in Threads : \A w : Destroys(u, w)' => Destroys(u, w)
    BY <1>2, RunsSets DEF TypeInv
  <1>4. 1 \in 1 .. Len(pending[t])
    BY <1>2, FirstCall DEF TypeInv
  <1>5. /\ \A u \in Threads : \A v, e : Sets(u, v, e)' => Sets(u, v, e)
        /\ \A u \in Threads : \A v, e : Attaches(u, v, e)' => Attaches(u, v, e)
    BY <1>3
  <1>6. CallsInv'
    BY <1>2 DEF CallsInv
  <1>7. CASE k.op = "destroy" /\ EraseHandle(t, k.target) /\ UNCHANGED astray
    <2>1. PICK h \in Windows \cup Contexts : h = k.target
      BY <1>1 DEF PendingCalls
    <2>3. HostInv' /\ UNCHANGED <<egl, tinfo, ended, win, made>> /\ table \ {h} \subseteq table'
      BY <1>7, <2>1, UseHost DEF TypeInv
    <2>4. \A w, b : ~Sets(t, w, b) /\ ~Attaches(t, w, b)
      BY <1>1, <1>7 DEF Sets, SetCall, Attaches, AttachCall
    <2>5. h \in Windows => \A a \in Addrs : surf[a] # h
      <3>1. SUFFICES ASSUME h \in Windows PROVE Destroys(t, h)
        BY <3>1 DEF SurfacesInv
      <3> QED BY <1>1, <1>4, <1>7, <2>1 DEF Destroys
    <2>6. \A a \in Addrs : surf[a] # Null => surf[a] \in table'
      BY <2>3, <2>5, HandlesAssumption DEF SurfacesInv, TypeInv, GuestTypes
    <2>7. /\ \A u \in Threads : \A w, b : Sets(u, w, b)' <=> Sets(u, w, b)
          /\ \A u \in Threads : \A w, b : Attaches(u, w, b)' <=> Attaches(u, w, b)
      BY <1>3, <2>4
    <2>8. \A u \in Threads : call'[u] = call[u]
      BY <1>2
    <2> QED BY <1>2, <1>3, <1>6, <1>7, <2>3, <2>6, <2>7, <2>8, GuestFrame
  <1>8. ASSUME NEW w \in Windows, NEW b \in Buffers, k \in {SetCall(w, b), AttachCall(w, b)},
               HostInv', UNCHANGED <<egl, tinfo, ended, made, table>>,
               \A v \in Windows \ {w} : win'[v] = win[v],
               dequeued[w] = Null \/ win'[w].cb = b, astray' = AstrayAfter(k)
        PROVE  GuestInv'
    <2>1. /\ k.target = w /\ k.op \in {"set", "attach"}
          /\ k.op = "set" => Sets(t, w, b) /\ \A v, e : ~Attaches(t, v, e)
          /\ k.op = "attach" => Attaches(t, w, b) /\ \A v, e : ~Sets(t, v, e)
          /\ \A v, e : Sets(t, v, e) \/ Attaches(t, v, e) => v = w /\ e = b
      BY <1>1, <1>2, <1>8 DEF Sets, SetCall, Attaches, AttachCall
    <2>2. SurfacesInv'
      BY <1>2, <1>3, <1>5, <1>8 DEF SurfacesInv
    <2>3. AgreeInv'
      <3>1. \A u \in Threads \ ended : /\ Handle(bound[cur[u]].draw)' = Handle(bound[cur[u]].draw)
                                       /\ Handle(bound[cur[u]].read)' = Handle(bound[cur[u]].read)
                                       /\ Handle(call[u].draw)' = Handle(call[u].draw)
                                       /\ Handle(call[u].read)' = Handle(call[u].read)
        BY <1>2 DEF Handle
      <3> QED BY <1>2, <1>8, <3>1 DEF AgreeInv
    <2>4. SetInv'
      <3>1. \A u \in Threads : \A y : HasCurrent(u, y)' <=> HasCurrent(u, y)
        BY <1>8 DEF HasCurrent
      <3> QED BY <1>2, <1>5, <3>1 DEF SetInv
    <2>5. DequeuedInv'
      <3> SUFFICES ASSUME NEW x \in Windows, NEW e \in Buffers, e = dequeued[x]
                   PROVE  win'[x].cb = e \/ x \in astray' \/ Awaits(x, e)'
        BY <1>2 DEF DequeuedInv
      <3>1. win[x].cb = e \/ x \in astray \/ Awaits(x, e)
        BY DEF DequeuedInv
      <3>2. CASE x = w /\ k.op = "set"
        BY <1>8, <2>1, <3>2, NullAssumption DEF SetInv
      <3>3. CASE x = w /\ k.op = "attach" /\ win[w].cb # Null
        BY <1>8, <2>1, <3>3 DEF AstrayAfter
      <3>4. CASE x = w /\ k.op = "attach" /\ win[w].cb = Null
        <4>1. win[x].cb # e /\ e # Null
          BY <3>4, NullAssumption
        <4>2. astray' = astray
          BY <1>8, <2>1, <3>4 DEF AstrayAfter
        <4>3. ASSUME NEW u \in Threads, Sets(u, x, e) PROVE Sets(u, x, e)'
          BY <1>3, <2>1, <3>4, <4>3
        <4>4. ASSUME NEW u \in Threads, Attaches(u, x, e) PROVE e = b
          BY <2>1, <3>4, <4>4 DEF SurfacesInv
        <4> QED BY <1>8, <3>1, <3>4, <4>1, <4>2, <4>3, <4>4 DEF Awaits
      <3>5. CASE x # w
        <4>1. x \in astray => x \in astray'
          BY <1>8, <2>1, <3>5 DEF AstrayAfter
        <4>2. win'[x] = win[x]
          BY <1>8, <3>5
        <4>3. ASSUME NEW u \in Threads
              PROVE  (Sets(u, x, e) => Sets(u, x, e)') /\ (Attaches(u, x, e) => Attaches(u, x, e)')
          BY <1>3, <2>1, <3>5
        <4> QED BY <3>1, <4>1, <4>2, <4>3 DEF Awaits
      <3> QED BY <2>1, <3>2, <3>3, <3>4, <3>5
    <2> QED BY <1>6, <1>8, <2>2, <2>3, <2>4, <2>5
  <1>9. CASE /\ k.op \in Attaching /\ astray' = AstrayAfter(k)
             /\ \/ SetWindowSurfaceColorBuffer(t, k.target, k.buffer)
                \/ ~({k.target, k.buffer} \subseteq table) /\ UNCHANGED vars
    <2>1. k.target \in Windows /\ k.buffer \in Buffers
      BY <1>1, <1>4, <1>9 DEF TypeInv, CallsOK, SetsFirst
    <2>2. PICK w \in Windows, b \in Buffers : w = k.target /\ b = k.buffer
      BY <2>1
    <2>3. k \in {SetCall(w, b), AttachCall(w, b)}
      BY <1>1, <1>9, <2>2 DEF PendingCalls, SetCall, AttachCall, Attaching
    <2>4. CASE SetWindowSurfaceColorBuffer(t, w, b)
      <3>1. /\ HostInv' /\ UNCHANGED <<egl, tinfo, ended, made, table>>
            /\ win'[w].cb = b /\ \A v \in Windows \ {w} : win'[v] = win[v]
        BY <2>4, AttachHost DEF TypeInv
      <3> QED BY <1>8, <1>9, <2>3, <3>1
    <2>5. CASE ~({w, b} \subseteq table) /\ UNCHANGED vars
      <3>1. HostInv' /\ UNCHANGED <<egl, tinfo, ended, made, table, win>>
        BY <2>5, IdleHost DEF vars
      <3>2. w \notin table
        BY <2>5 DEF HostInv, OneSize
      <3>3. dequeued[w] = Null
        BY <3>2, NullAssumption DEF SurfacesInv
      <3> QED BY <1>8, <1>9, <2>3, <3>1, <3>3
    <2> QED BY <1>9, <2>2, <2>4, <2>5
  <1> QED BY <1>1, <1>7, <1>9 DEF HostExecutes, Attaching

\* With "release" a thread that ends has nothing current.  A first attachment that is lost
\* with its connection is counted among those that went astray.
LEMMA ThreadExitsStep ==
  ASSUME "release" \in GuestRules, GuestInv, TypeInv', NEW t \in Threads \ ended, ThreadExits(t)
  PROVE  GuestInv'
  <1> USE DEF GuestInv
  <1>1. /\ call[t].at = "idle" /\ cur[t] = Null /\ ThreadEnds(t)
        /\ pending[t] # <<>> => Head(pending[t]).op # "set"
        /\ cur' = [cur EXCEPT ![t] = Null] /\ pending' = [pending EXCEPT ![t] = <<>>]
        /\ astray' = astray \cup {w \in Windows : FirstAttachment(t, w) /\ win[w].cb = Null}
        /\ UNCHANGED <<bound, surf, dequeued, call>>
    BY DEF ThreadExits, InCall
  <1>2. /\ cur' = cur /\ pending'[t] = <<>> /\ Len(pending'[t]) = 0
        /\ \A u \in Threads \ {t} : pending'[u] = pending[u]
    BY <1>1, EmptySeq DEF TypeInv, GuestTypes
  <1>3. /\ HostInv' /\ UNCHANGED <<tinfo, win, made, table>>
        /\ ended' = ended \cup {t} /\ egl'[t] = Unbound
        /\ \A u \in Threads \ {t} : egl'[u] = egl[u]
    BY <1>1, EndHost DEF TypeInv
  <1>4. /\ \A w, b : ~Sets(t, w, b)' /\ ~Attaches(t, w, b)'
        /\ \A w : ~Destroys(t, w)'
        /\ \A u \in Threads \ {t} : \A w, b : /\ Sets(u, w, b)' <=> Sets(u, w, b)
                                              /\ Attaches(u, w, b)' <=> Attaches(u, w, b)
        /\ \A u \in Threads \ {t} : \A w : Destroys(u, w)' <=> Destroys(u, w)
    BY <1>2 DEF Sets, Attaches, Destroys
  <1>5. /\ \A w, b : ~Sets(t, w, b)
        /\ \A w, b : Attaches(t, w, b) => FirstAttachment(t, w)
    <2>1. SUFFICES ASSUME pending[t] # <<>>
                   PROVE  /\ \A w, b : ~Sets(t, w, b)
                          /\ \A w, b : Attaches(t, w, b) => FirstAttachment(t, w)
      BY <2>1 DEF Sets, Attaches
    <2>2. Head(pending[t]) = pending[t][1]
      BY <2>1, FirstCall DEF TypeInv
    <2> QED BY <1>1, <2>1, <2>2 DEF Sets, SetCall, Attaches, AttachCall, FirstAttachment
  <1>6. SurfacesInv' /\ CallsInv'
    BY <1>1, <1>2, <1>3, <1>4 DEF SurfacesInv, CallsInv
  <1>7. AgreeInv'
    <2>1. \A u \in Threads \ ended : /\ Handle(bound[cur[u]].draw)' = Handle(bound[cur[u]].draw)
                                     /\ Handle(bound[cur[u]].read)' = Handle(bound[cur[u]].read)
                                     /\ Handle(call[u].draw)' = Handle(call[u].draw)
                                     /\ Handle(call[u].read)' = Handle(call[u].read)
      BY <1>1, <1>2 DEF Handle
    <2> QED BY <1>1, <1>2, <1>3, <2>1 DEF AgreeInv
  <1>8. SetInv'
    <2> SUFFICES ASSUME NEW v \in Threads, NEW x \in Windows, NEW e \in Buffers, Sets(v, x, e)'
                 PROVE  dequeued'[x] \in {e, Null} /\ HasCurrent(v, x)'
      BY DEF SetInv
    <2>1. v # t /\ Sets(v, x, e)
      BY <1>4
    <2>2. dequeued[x] \in {e, Null} /\ HasCurrent(v, x)
      BY <2>1 DEF SetInv
    <2> QED BY <1>1, <1>3, <2>1, <2>2 DEF HasCurrent
  <1>9. DequeuedInv'
    <2> SUFFICES ASSUME NEW x \in Windows, NEW e \in Buffers, dequeued[x] = e
                 PROVE  win'[x].cb = e \/ x \in astray' \/ Awaits(x, e)'
      BY <1>1 DEF DequeuedInv
    <2>1. win[x].cb = e \/ x \in astray \/ Awaits(x, e)
      BY DEF DequeuedInv
    <2>2. CASE win[x].cb = e \/ x \in astray
      BY <1>1, <1>3, <2>2
    <2>3. ASSUME NEW u \in Threads, Sets(u, x, e) PROVE Awaits(x, e)'
      BY <1>4, <1>5, <2>3 DEF Awaits
    <2>4. ASSUME NEW u \in Threads, win[x].cb = Null, Attaches(u, x, e)
          PROVE  x \in astray' \/ Awaits(x, e)'
      <3>1. CASE u = t
        BY <1>1, <1>5, <2>4, <3>1
      <3>2. CASE u # t
        BY <1>3, <1>4, <2>4, <3>2 DEF Awaits
      <3> QED BY <3>1, <3>2
    <2> QED BY <2>1, <2>2, <2>3, <2>4 DEF Awaits
  <1> QED BY <1>3, <1>6, <1>7, <1>8, <1>9

\* The process starts with nothing current and nothing on the way.
LEMMA GuestInitInv == GuestInit => GuestInv
  <1> SUFFICES ASSUME GuestInit PROVE GuestInv
    OBVIOUS
  <1>1. TypeInv
    BY GuestInitTypes
  <1>2. PICK size \in Sizes : cbSize = [b \in Buffers |-> size]
    BY DEF GuestInit
  <1>3. HostInv
    <2>1. EglInv /\ OwnerInv
      BY DEF GuestInit, EglInv, OwnerInv, Unbound
    <2>2. OneSize
      BY <1>2, HandlesAssumption DEF GuestInit, OneSize
    <2> QED BY <1>1, <2>1, <2>2 DEF HostInv, TypeInv
  <1>4. \A t \in Threads : pending[t] = <<>> /\ Len(pending[t]) = 0
    BY EmptySeq DEF GuestInit
  <1>5. \A t \in Threads : \A w : ~Destroys(t, w) /\ \A b : ~Sets(t, w, b) /\ ~Attaches(t, w, b)
    BY <1>4 DEF Sets, Attaches, Destroys
  <1>6. SurfacesInv
    BY <1>5 DEF GuestInit, SurfacesInv
  <1>7. CallsInv
    BY CallTypes DEF GuestInit, CallsInv
  <1>8. AgreeInv
    BY CallTypes DEF GuestInit, AgreeInv, Unbound
  <1>9. SetInv /\ DequeuedInv
    BY <1>5, NullAssumption DEF GuestInit, SetInv, DequeuedInv
  <1> QED BY <1>1, <1>3, <1>6, <1>7, <1>8, <1>9 DEF GuestInv

\* the rules under which the guest and the host agree
AgreementRules == {"surface", "swap", "release"}

\* Every step keeps the invariant when applications keep the AgreementRules.
LEMMA GuestNextInv ==
  ASSUME AgreementRules \subseteq GuestRules
  PROVE  GuestInv /\ [GuestNext]_allvars => GuestInv'
  <1> SUFFICES ASSUME GuestInv, [GuestNext]_allvars PROVE GuestInv'
    OBVIOUS
  <1>1. TypeInv'
    BY GuestNextTypes DEF GuestInv
  <1>2. {"surface", "swap", "release"} \subseteq GuestRules
    BY DEF AgreementRules
  <1>3. CASE UNCHANGED allvars
    BY <1>1, <1>3, StutterStep
  <1>4. CASE GuestNext
    BY <1>1, <1>2, <1>4, CreateContextStep, DestroyContextStep, CreateSurfaceStep,
       DestroySurfaceStep, SwapStep, MakeCurrentStep, HostMakesCurrentKeeps, LocalBindStep,
       HostExecutesKeeps, ThreadExitsStep, PostStep
    DEF GuestNext
  <1> QED BY <1>3, <1>4

\* The agreement of the guest and the host holds in every reachable state.
THEOREM GuestInvariance ==
  ASSUME AgreementRules \subseteq GuestRules
  PROVE  GuestSpec => []GuestInv
  BY GuestInitInv, GuestNextInv, PTL DEF GuestSpec

\* "Nothing to do if no binding change has made" (egl.cpp:936) is right: if surfaces are
\* not destroyed while current and swapped only by the thread that draws on them, and
\* threads release before they end, then outside of eglMakeCurrent the host has bound for a
\* thread what the guest believes to be current, for any number of threads, contexts and
\* surfaces.
THEOREM GuestAlwaysAgrees ==
  ASSUME AgreementRules \subseteq GuestRules
  PROVE  GuestSpec => []GuestHostAgree
  <1>1. GuestInv => GuestHostAgree
    <2> SUFFICES ASSUME GuestInv, NEW t \in Threads \ ended, ~InCall(t)
                 PROVE  /\ cur[t] = tinfo[t].ctx
                        /\ cur[t] # Null => /\ Handle(bound[cur[t]].draw) = tinfo[t].draw
                                            /\ Handle(bound[cur[t]].read) = tinfo[t].read
      BY DEF GuestHostAgree
    <2>1. call[t].at # "replied"
      BY DEF InCall
    <2> QED BY <2>1 DEF GuestInv, AgreeInv
  <1> QED BY <1>1, GuestInvariance, PTL

\* The three things FrameBuffer asks of its clients and does not check are kept by egl.cpp
\* under the same rules of the applications: they need not be assumed of this guest.  The
\* first attachment of a surface, which its creator does not flush, may come when another
\* thread has the surface current; it does not resize it.
THEOREM GuestAlwaysKeepsRules ==
  ASSUME AgreementRules \subseteq GuestRules
  PROVE  GuestSpec => []GuestKeepsRules
  <1>1. GuestInv => GuestKeepsRules
    <2> SUFFICES ASSUME GuestInv, NEW t \in Threads \ ended
                 PROVE  /\ pending[t] # <<>> /\ Head(pending[t]).op = "set" =>
                              LET s == EglSurface(Head(pending[t]).target) IN
                              s = Null \/ \A u \in Threads \ {t} : s \notin {egl[u].draw, egl[u].read}
                        /\ ~InCall(t) /\ Executed(t) /\ cur[t] # Null =>
                              \A w \in Windows :
                                 Handle(bound[cur[t]].draw) = w => egl[t].draw = EglSurface(w)
                        /\ call[t].at = "sent" /\ call[t].ctx = Null => tinfo[t].ctx # Null
      BY DEF GuestKeepsRules
    <2> USE DEF GuestInv
    <2>1. ASSUME pending[t] # <<>>, Head(pending[t]).op = "set", NEW u \in Threads \ {t},
                 NEW s, s = EglSurface(Head(pending[t]).target), s \in {egl[u].draw, egl[u].read},
                 s # Null
          PROVE  FALSE
      <3>1. PICK k \in PendingCalls : k = Head(pending[t]) /\ k = pending[t][1]
        BY <2>1, FirstCall DEF TypeInv
      <3>2. 1 \in 1 .. Len(pending[t])
        BY <2>1, FirstCall DEF TypeInv
      <3>3. PICK w \in Windows, b \in Buffers : w = k.target /\ b = k.buffer
        BY <2>1, <3>1, <3>2 DEF TypeInv, CallsOK, SetsFirst, Attaching
      <3>4. k = SetCall(w, b)
        BY <2>1, <3>1, <3>3 DEF PendingCalls, SetCall
      <3>5. ~HasCurrent(u, w)
        <4>1. HasCurrent(t, w)
          BY <2>1, <3>1, <3>4 DEF Sets, SetInv
        <4> QED BY <4>1, OneHolder DEF HostInv
      <3>6. s = EglSurface(w)
        BY <2>1, <3>1, <3>3
      <3>7. s = <<w, win[w].gen>> /\ win[w].live
        BY <2>1, <3>6 DEF EglSurface
      <3>8. egl[u] # Unbound
        BY <2>1 DEF Unbound
      <3>9. BindingOf(egl[u], tinfo[u], win)
        BY <3>8 DEF HostInv, EglInv
      <3>10. w \in {tinfo[u].draw, tinfo[u].read}
        BY <2>1, <3>7, <3>9 DEF BindingOf, Backs
      <3> QED BY <3>5, <3>8, <3>10 DEF HasCurrent
    <2>2. ASSUME ~InCall(t), cur[t] # Null, NEW w \in Windows, Handle(bound[cur[t]].draw) = w
          PROVE  egl[t].draw = EglSurface(w)
      <3>1. call[t].at # "replied"
        BY <2>2 DEF InCall
      <3>2. /\ bound[cur[t]].draw \in Addrs /\ surf[bound[cur[t]].draw] = tinfo[t].draw
            /\ BindingOf(egl[t], tinfo[t], win)
        BY <2>2, <3>1, RunningBinding
      <3>3. tinfo[t].draw = w
        BY <2>2, <3>2, AddrsAssumption DEF Handle
      <3> QED BY <3>2, <3>3 DEF BindingOf, Backs, EglSurface
    <2>3. call[t].at = "sent" /\ call[t].ctx = Null => tinfo[t].ctx # Null
      BY DEF CallsInv, AgreeInv
    <2> QED BY <2>1, <2>2, <2>3
  <1> QED BY <1>1, GuestInvariance, PTL

\* A swap copies into the buffer the surface has dequeued: the attachment sent at the last
\* swap was executed, although nobody waited for it (egl.cpp:326).  So was the one sent at
\* the creation (egl.cpp:278), unless the surface went to another thread before the thread
\* that created it flushed its connection: the surface then has no buffer yet, or one that
\* came late, until the next swap.
THEOREM AlwaysSwapsIntoDequeued ==
  ASSUME AgreementRules \subseteq GuestRules
  PROVE  GuestSpec => []SwapsIntoDequeued
  <1>1. GuestInv => SwapsIntoDequeued
    <2> SUFFICES ASSUME GuestInv, NEW t \in Threads \ ended, ~InCall(t), Executed(t),
                        cur[t] # Null, NEW w, w = surf[bound[cur[t]].draw], dequeued[w] # Null
                 PROVE  \/ win[w].cb = dequeued[w]
                        \/ w \in astray
                        \/ win[w].cb = Null /\ \E u \in Threads : FirstAttachment(u, w)
      BY DEF SwapsIntoDequeued
    <2> USE DEF GuestInv
    <2>1. call[t].at # "replied"
      BY DEF InCall
    <2>2. w \in Windows /\ HasCurrent(t, w)
      BY <2>1, RunningBinding
    <2>3. PICK b \in Buffers : b = dequeued[w]
      BY <2>2 DEF TypeInv, GuestTypes
    <2>4. ASSUME NEW u \in Threads, Sets(u, w, b) PROVE FALSE
      <3>1. u # t
        BY <2>4 DEF Sets, Executed
      <3>2. HasCurrent(u, w)
        BY <2>2, <2>4 DEF SetInv
      <3> QED BY <2>2, <3>1, <3>2, OneHolder DEF HostInv
    <2>5. ASSUME NEW u \in Threads, Attaches(u, w, b) PROVE FirstAttachment(u, w)
      <3>1. pending[u] # <<>> /\ Head(pending[u]) = pending[u][1]
        BY <2>5, FirstCall DEF Attaches, TypeInv
      <3> QED BY <2>5, <3>1 DEF Attaches, AttachCall, FirstAttachment
    <2>6. win[w].cb = b \/ w \in astray \/ Awaits(w, b)
      BY <2>2, <2>3 DEF DequeuedInv
    <2> QED BY <2>3, <2>4, <2>5, <2>6 DEF Awaits
  <1> QED BY <1>1, GuestInvariance, PTL

\* The theorem on flushes of Part 3, with nothing assumed of the host's clients but what
\* applications keep: the surface a thread has current is copied when it is swapped.
THEOREM GuestFlushAlwaysUpdates ==
  ASSUME AgreementRules \subseteq GuestRules
  PROVE  GuestSpec => []FlushOfCurrentUpdates
  <1>1. GuestInv => FlushOfCurrentUpdates
    BY CurrentFlushUpdates DEF GuestInv, HostInv, FlushOfCurrentUpdates
  <1> QED BY <1>1, GuestInvariance, PTL

\* No thread of the host has dereferenced a NULL RenderContext.
HostAlive == crashed = FALSE

\* The host survives the guest: no NULL RenderContext is dereferenced by a flush
\* (WindowSurface.cpp:143-171), the FrameBuffer's context is left current in no thread,
\* and every thread renders into its own context.
THEOREM GuestNeverCrashesHost ==
  ASSUME AgreementRules \subseteq GuestRules
  PROVE  GuestSpec => [](HostAlive /\ FBContextReleased /\ RendersIntoOwnContext)
  <1>1. GuestInit => HostAlive
    BY DEF GuestInit, HostAlive
  <1>2. GuestInv /\ HostAlive /\ [GuestNext]_allvars => HostAlive'
    <2> SUFFICES ASSUME GuestInv, crashed = FALSE, [GuestNext]_allvars PROVE crashed' = FALSE
      BY DEF HostAlive
    <2>1. ASSUME NEW t \in Threads \ ended, NEW a \in Addrs, EglSwapBuffers(t, a)
          PROVE  crashed' = FALSE
      <3>1. /\ call[t].at = "idle" /\ surf[a] # Null /\ cur[t] # Null /\ bound[cur[t]].draw = a
            /\ FlushWindowSurfaceColorBuffer(t, surf[a])
        BY <2>1 DEF EglSwapBuffers, InCall, AgreementRules
      <3>2. PICK w \in Windows : w = surf[a] /\ w = tinfo[t].draw
        BY <3>1, RunningBinding
      <3>3. BindingOf(egl[t], tinfo[t], win)
        BY <3>1, RunningBinding
      <3>4. win[w].live /\ egl[t].draw = EglSurface(w)
        BY <3>2, <3>3 DEF BindingOf, Backs, EglSurface
      <3>5. win[w].cb # Null /\ win[w].size # Empty => FlushOutcome(t, w) # "null context"
        BY <3>4, CurrentFlushUpdates DEF GuestInv, HostInv, FlushOutcome
      <3>6. FlushOutcome(t, w) # "null context"
        BY <3>5 DEF FlushOutcome
      <3> QED BY <3>1, <3>2, <3>6 DEF FlushWindowSurfaceColorBuffer
    <2>2. ASSUME NEW t \in Threads \ ended, HostMakesCurrent(t) \/ HostExecutes(t)
          PROVE  UNCHANGED crashed
      BY <2>2 DEF HostMakesCurrent, HostExecutes, BindContext, UnbindContext, Rebind, vars,
                  SetWindowSurfaceColorBuffer, EraseHandle
    <2>3. ASSUME NEW t \in Threads \ ended, NEW c \in Contexts,
                 EglCreateContext(t, c) \/ EglDestroyContext(t, c)
          PROVE  UNCHANGED crashed
      BY <2>3 DEF EglCreateContext, EglDestroyContext, CreateRenderContext, vars
    <2>4. ASSUME NEW t \in Threads \ ended, NEW a \in Addrs, NEW w \in Windows, NEW b \in Buffers,
                 EglCreateWindowSurface(t, a, w, b)
          PROVE  UNCHANGED crashed
      BY <2>4 DEF EglCreateWindowSurface, CreateWindowSurface
    <2>5. ASSUME NEW t \in Threads \ ended, NEW a \in Addrs, EglDestroySurface(t, a)
          PROVE  UNCHANGED crashed
      BY <2>5 DEF EglDestroySurface, vars
    <2>6. ASSUME NEW t \in Threads \ ended, NEW c, NEW d, NEW r, EglMakeCurrent(t, c, d, r)
          PROVE  UNCHANGED crashed
      BY <2>6 DEF EglMakeCurrent, vars
    <2>7. ASSUME NEW t \in Threads \ ended, NEW b \in Buffers,
                 PostBuffer(t, b)
          PROVE  UNCHANGED crashed
      BY <2>7 DEF PostBuffer, UseColorBuffer
    <2>8. ASSUME NEW t \in Threads \ ended, LocalBind(t) \/ ThreadExits(t)
          PROVE  UNCHANGED crashed
      BY <2>8 DEF LocalBind, ThreadExits, ThreadEnds, vars
    <2>9. CASE UNCHANGED allvars
      BY <2>9 DEF allvars, vars
    <2>10. CASE GuestNext
      BY <2>1, <2>2, <2>3, <2>4, <2>5, <2>6, <2>7, <2>8, <2>10 DEF GuestNext
    <2> QED BY <2>9, <2>10
  <1>3. GuestInv => FBContextReleased /\ RendersIntoOwnContext
    BY NoFBContext DEF GuestInv, HostInv, FBContextReleased, RendersIntoOwnContext
  <1> QED BY <1>1, <1>2, <1>3, GuestInvariance, PTL DEF GuestSpec

=============================================================================
