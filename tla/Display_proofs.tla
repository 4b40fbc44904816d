--------------------------- MODULE Display_proofs ---------------------------
(***************************************************************************)
(* Proofs about Display, for any buffers, angles and number of frames.     *)
(*                                                                         *)
(* RotationApplied is not inductive: it says nothing while the             *)
(* application's thread is between its unlocked write of m_zRot and its    *)
(* post().  RotationPending adds what holds in between: the handle it read *)
(* is still the last posted one, or a guest's post has drawn at the new    *)
(* angle, or the buffer is gone for good (a handle is not created twice).  *)
(***************************************************************************)
EXTENDS Display, TLAPS

\* m_lastPostedColorBuffer is a handle that was once created, and nothing is
\* shown while there is no subwindow
PostedWasMade ==
    /\ lastPosted \in made \cup {NoBuffer}
    /\ ~subWin => screen = {}

\* a picture at an old angle is one the application's thread will replace
RotationPending ==
    \/ missed
    \/ \A p \in screen : p.rot = zRot
    \/ lastPosted \notin open
    \/ host = <<lastPosted>>

IInv == TypeOK /\ ScreenIsLastPosted /\ PostedWasMade /\ RotationPending

-----------------------------------------------------------------------------
\* Nothing is posted or shown before the first call.
LEMMA InitIInv == Init => IInv
  <1> SUFFICES ASSUME Init PROVE IInv
    OBVIOUS
  <1>1. TypeOK
    <2>1. content \in [Buffers -> 0 .. MaxFrame] /\ 0 \in 0 .. MaxFrame
      BY MaxFrameAssumption DEF Init
    <2> QED BY <2>1 DEF Init, TypeOK
  <1> QED BY <1>1 DEF Init, IInv, ScreenIsLastPosted, PostedWasMade, RotationPending

\* The picture drawn by post() of an open buffer (FrameBuffer.cpp:798-867) is
\* of that buffer and at the current angle.
LEMMA ShownPicture ==
  ASSUME TypeOK, NEW b \in open
  PROVE  /\ Shown(b) \in SUBSET Picture
         /\ \A p \in Shown(b) : p.buffer = b /\ p.rot = zRot
  BY DEF TypeOK, Shown, Picture

\* FrameBuffer::post keeps the screen, the last posted handle and the angle in
\* agreement, whoever calls it.
LEMMA PostPreserves ==
  ASSUME IInv, NEW b \in Buffers, Post(b), host' \in {host, <<>>},
         host' # host => host = <<b>>,
         UNCHANGED <<frame, surface, target, made, open, content, subWin, zRot>>
  PROVE  IInv'
  <1> USE DEF IInv
  <1>1. CASE b \notin open
    <2>1. UNCHANGED <<lastPosted, screen, missed>>
      BY <1>1 DEF Post
    <2>2. TypeOK'
      BY <2>1 DEF TypeOK
    <2>3. ScreenIsLastPosted' /\ PostedWasMade'
      BY <2>1 DEF ScreenIsLastPosted, PostedWasMade
    <2>4. RotationPending'
      BY <1>1, <2>1 DEF RotationPending
    <2> QED BY <2>2, <2>3, <2>4
  <1>2. CASE b \in open /\ ~subWin
    <2>1. lastPosted' = b /\ UNCHANGED <<screen, missed>> /\ screen = {}
      BY <1>2 DEF Post, PostedWasMade
    <2> QED BY <1>2, <2>1 DEF TypeOK, ScreenIsLastPosted, PostedWasMade, RotationPending
  <1>3. CASE b \in open /\ subWin /\ screen' = Shown(b) /\ missed' = FALSE
    <2>1. lastPosted' = b
      BY <1>3 DEF Post
    <2>2. TypeOK'
      BY <1>3, <2>1, ShownPicture DEF TypeOK
    <2>3. ScreenIsLastPosted' /\ RotationPending'
      BY <1>3, <2>1, ShownPicture DEF ScreenIsLastPosted, RotationPending
    <2> QED BY <1>3, <2>1, <2>2, <2>3 DEF PostedWasMade, TypeOK
  <1>4. CASE b \in open /\ subWin /\ UNCHANGED screen /\ missed' = TRUE
    <2>1. lastPosted' = b
      BY <1>4 DEF Post
    <2> QED BY <1>4, <2>1 DEF TypeOK, ScreenIsLastPosted, PostedWasMade, RotationPending
  <1> QED BY <1>1, <1>2, <1>3, <1>4 DEF Post

\* The guest's steps that post nothing leave the screen alone; a handle that
\* is created is a new one, so it does not bring a closed last posted buffer
\* back (FrameBuffer.cpp, ColorBuffer.cpp).
LEMMA GuestPreserves ==
  ASSUME IInv, NEW b \in Buffers,
         \/ Draw \/ FlushWindowSurfaceColorBuffer \/ CreateColorBuffer(b)
         \/ CloseColorBuffer(b) \/ SetWindowSurfaceColorBuffer(b) \/ UpdateColorBuffer(b)
  PROVE  IInv'
  <1> USE DEF IInv
  <1>1. UNCHANGED <<lastPosted, subWin, zRot, screen, missed, host>>
    BY DEF Draw, FlushWindowSurfaceColorBuffer, CreateColorBuffer, CloseColorBuffer,
           SetWindowSurfaceColorBuffer, UpdateColorBuffer
  <1>2. TypeOK'
    <2>1. CASE Draw
      BY <2>1, MaxFrameAssumption DEF Draw, TypeOK
    <2>2. CASE FlushWindowSurfaceColorBuffer
      BY <2>2 DEF FlushWindowSurfaceColorBuffer, TypeOK
    <2>3. CASE CreateColorBuffer(b)
      BY <2>3, MaxFrameAssumption DEF CreateColorBuffer, TypeOK
    <2>4. CASE CloseColorBuffer(b)
      BY <2>4 DEF CloseColorBuffer, TypeOK
    <2>5. CASE SetWindowSurfaceColorBuffer(b)
      BY <2>5 DEF SetWindowSurfaceColorBuffer, TypeOK
    <2>6. CASE UpdateColorBuffer(b)
      BY <2>6, MaxFrameAssumption DEF UpdateColorBuffer, TypeOK
    <2> QED BY <2>1, <2>2, <2>3, <2>4, <2>5, <2>6
  <1>3. made \subseteq made' /\ (lastPosted \in open' => lastPosted \in open)
    BY NoBufferAssumption
    DEF Draw, FlushWindowSurfaceColorBuffer, CreateColorBuffer, CloseColorBuffer,
        SetWindowSurfaceColorBuffer, UpdateColorBuffer, PostedWasMade
  <1> QED BY <1>1, <1>2, <1>3 DEF ScreenIsLastPosted, PostedWasMade, RotationPending

\* Creating and removing the subwindow (FrameBuffer.cpp:403-470): what is drawn
\* into a new subwindow is the last posted buffer at the angle just set.
LEMMA SubWindowPreserves ==
  ASSUME IInv, NEW rot \in Rotations, SetupSubWindow(rot) \/ RemoveSubWindow
  PROVE  IInv'
  <1> USE DEF IInv
  <1>1. CASE RemoveSubWindow
    BY <1>1 DEF RemoveSubWindow, TypeOK, ScreenIsLastPosted, PostedWasMade, RotationPending
  <1>2. CASE SetupSubWindow(rot)
    <2>1. /\ subWin' = TRUE /\ screen = {}
          /\ UNCHANGED <<frame, surface, target, made, open, content, lastPosted, host>>
      BY <1>2 DEF SetupSubWindow, PostedWasMade
    <2>2. zRot' \in Rotations /\ missed' \in BOOLEAN
      BY <1>2 DEF SetupSubWindow, TypeOK
    <2>3. \A p \in screen' : p \in Picture /\ p.buffer = lastPosted /\ p.rot = zRot'
      BY <1>2, <2>1 DEF SetupSubWindow, TypeOK, Picture
    <2>4. TypeOK'
      BY <2>1, <2>2, <2>3 DEF TypeOK
    <2> QED BY <2>1, <2>3, <2>4 DEF ScreenIsLastPosted, PostedWasMade, RotationPending
  <1> QED BY <1>1, <1>2

\* The unlocked half of repost() and setDisplayRotation: the handle to post is
\* the last posted one when the angle is written (FrameBuffer.h:88-91).
LEMMA RotationPreserves ==
  ASSUME IInv, NEW rot \in Rotations, Repost \/ SetDisplayRotation(rot)
  PROVE  IInv'
  <1> USE DEF IInv
  <1>1. CASE Repost
    BY <1>1, NoBufferAssumption
    DEF Repost, TypeOK, ScreenIsLastPosted, PostedWasMade, RotationPending
  <1>2. CASE SetDisplayRotation(rot)
    <2>1. NoBuffer \notin open
      BY NoBufferAssumption DEF TypeOK
    <2> QED BY <1>2, <2>1
            DEF SetDisplayRotation, TypeOK, ScreenIsLastPosted, PostedWasMade, RotationPending
  <1> QED BY <1>1, <1>2

\* Every step, of a render thread or of the application's thread, preserves
\* the inductive invariant.
LEMMA NextIInv == IInv /\ [Next]_vars => IInv'
  <1> SUFFICES ASSUME IInv, [Next]_vars PROVE IInv'
    OBVIOUS
  <1>1. ASSUME NEW b \in Buffers, RcFBPost(b) PROVE IInv'
    BY <1>1, PostPreserves DEF RcFBPost
  <1>2. CASE RepostPosts
    <2>1. PICK b \in Buffers : host = <<b>>
      BY <1>2 DEF RepostPosts, IInv, TypeOK
    <2> QED BY <1>2, <2>1, PostPreserves DEF RepostPosts
  <1>3. CASE FlushWindowSurfaceColorBuffer
    <2>1. target \in Buffers
      BY <1>3 DEF FlushWindowSurfaceColorBuffer, IInv, TypeOK
    <2> QED BY <1>3, <2>1, GuestPreserves
  <1>4. ASSUME NEW rot \in Rotations, SetupSubWindow(rot) \/ SetDisplayRotation(rot)
        PROVE  IInv'
    BY <1>4, SubWindowPreserves, RotationPreserves
  <1>5. CASE RemoveSubWindow \/ Repost
    <2>1. PICK rot \in Rotations : TRUE
      BY RotationsAssumption
    <2> QED BY <1>5, <2>1, SubWindowPreserves, RotationPreserves
  <1>6. ASSUME NEW b \in Buffers,
               \/ CreateColorBuffer(b) \/ CloseColorBuffer(b)
               \/ SetWindowSurfaceColorBuffer(b) \/ UpdateColorBuffer(b)
        PROVE  IInv'
    BY <1>6, GuestPreserves
  <1>7. CASE Draw
    BY <1>7, MaxFrameAssumption
    DEF Draw, IInv, TypeOK, ScreenIsLastPosted, PostedWasMade, RotationPending
  <1>8. CASE UNCHANGED vars
    BY <1>8 DEF vars, IInv, TypeOK, ScreenIsLastPosted, PostedWasMade, RotationPending, Picture
  <1> QED BY <1>1, <1>2, <1>3, <1>4, <1>5, <1>6, <1>7, <1>8 DEF Next

\* The inductive invariant holds in every reachable state.
THEOREM Invariance == Spec => []IInv
  BY InitIInv, NextIInv, PTL DEF Spec

\* The state of the display always has its type: the pictures shown, the
\* attached buffer and the posted handle are ones the code can hold.
THEOREM TypeCorrectness == Spec => []TypeOK
  <1>1. IInv => TypeOK
    BY DEF IInv
  <1> QED BY <1>1, Invariance, PTL

\* What the subwindow shows is the buffer m_lastPostedColorBuffer names unless
\* the last post could not bind the subwindow (FrameBuffer.cpp:798-867).
THEOREM ScreenAlwaysLastPosted == Spec => []ScreenIsLastPosted
  <1>1. IInv => ScreenIsLastPosted
    BY DEF IInv
  <1> QED BY <1>1, Invariance, PTL

\* A rotation reaches the screen although setDisplayRotation writes m_zRot and
\* reads the last posted handle without m_lock (FrameBuffer.h:88-91,
\* FrameBuffer.cpp:869-876).
THEOREM RotationAlwaysApplied == Spec => []RotationApplied
  <1>1. IInv => RotationApplied
    BY DEF IInv, RotationPending, RotationApplied
  <1> QED BY <1>1, Invariance, PTL
=============================================================================
