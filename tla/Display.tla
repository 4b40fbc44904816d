------------------------------ MODULE Display ------------------------------
(***************************************************************************)
(* From a guest's drawing to the screen: a window surface is drawn on, its *)
(* content is copied into the color buffer attached to it, and a posted    *)
(* buffer is drawn into the subwindow (WindowSurface.cpp, ColorBuffer.cpp, *)
(* FrameBuffer.cpp).  The application's thread creates and destroys the    *)
(* subwindow, rotates and repaints it (render_api.cpp).                    *)
(*                                                                         *)
(* Operations under m_lock are one step.  setDisplayRotation and repost    *)
(* are not: they write m_zRot and read m_lastPostedColorBuffer without the *)
(* lock, and take it only inside post().                                   *)
(*                                                                         *)
(* Pixels are abstracted to the number of the frame they come from.        *)
(***************************************************************************)
EXTENDS Integers

CONSTANTS
    Buffers,    \* color buffer handles
    NoBuffer,   \* the null handle
    Rotations,  \* the angles the application sets
    MaxFrame    \* bound on the frames drawn

ASSUME NoBufferAssumption == NoBuffer \notin Buffers
ASSUME RotationsAssumption == Rotations # {}
ASSUME MaxFrameAssumption == MaxFrame \in Nat

VARIABLES
    frame,       \* the last frame a guest has drawn
    surface,     \* the frame on the window surface's pbuffer
    target,      \* its m_attachedColorBuffer
    made,        \* the handles createColorBuffer has returned
    open,        \* the handles in m_colorbuffers
    content,     \* the frame in each color buffer
    lastPosted,  \* m_lastPostedColorBuffer
    subWin,      \* m_subWin # NULL
    zRot,        \* m_zRot
    screen,      \* what the subwindow shows: a set of at most one picture
    missed,      \* the last post could not bind the subwindow
    host         \* the application's thread: <<>>, or <<h>> between the two
                 \* steps of repost(), h being the handle it read

vars == <<frame, surface, target, made, open, content, lastPosted,
          subWin, zRot, screen, missed, host>>

Picture == [buffer : Buffers, frame : 0 .. MaxFrame, rot : Rotations]

Init ==
    /\ frame = 0 /\ surface = 0 /\ target = NoBuffer
    /\ made = {} /\ open = {} /\ content = [b \in Buffers |-> 0]
    /\ lastPosted = NoBuffer
    /\ subWin = FALSE /\ screen = {} /\ missed = FALSE
    /\ zRot \in Rotations
    /\ host = <<>>

-----------------------------------------------------------------------------
(* The guest, through its render threads *)

\* handles are not reused here: HandleTables has the counter and its wrap
CreateColorBuffer(b) ==
    /\ b \in Buffers \ made
    /\ made' = made \cup {b}
    /\ open' = open \cup {b}
    /\ content' = [content EXCEPT ![b] = 0]
    /\ UNCHANGED <<frame, surface, target, lastPosted, subWin, zRot, screen,
                   missed, host>>

\* the last client reference is dropped; m_lastPostedColorBuffer may still hold
\* the handle, and an attached surface still points to the buffer
CloseColorBuffer(b) ==
    /\ b \in open
    /\ open' = open \ {b}
    /\ UNCHANGED <<frame, surface, target, made, content, lastPosted, subWin, zRot,
                   screen, missed, host>>

\* GL commands draw the next frame on the current window surface
Draw ==
    /\ frame < MaxFrame
    /\ frame' = frame + 1 /\ surface' = frame + 1
    /\ UNCHANGED <<target, made, open, content, lastPosted, subWin, zRot, screen,
                   missed, host>>

\* rcFlushWindowColorBuffer: the surface is copied into the attached buffer
FlushWindowSurfaceColorBuffer ==
    /\ target # NoBuffer
    /\ content' = [content EXCEPT ![target] = surface]
    /\ UNCHANGED <<frame, surface, target, made, open, lastPosted, subWin, zRot,
                   screen, missed, host>>

\* rcSetWindowColorBuffer, between buffers of one size: attach, no copy
SetWindowSurfaceColorBuffer(b) ==
    /\ b \in open
    /\ target' = b
    /\ UNCHANGED <<frame, surface, made, open, content, lastPosted, subWin, zRot,
                   screen, missed, host>>

\* rcUpdateColorBuffer: pixels rendered in software
UpdateColorBuffer(b) ==
    /\ b \in open /\ frame < MaxFrame
    /\ frame' = frame + 1
    /\ content' = [content EXCEPT ![b] = frame + 1]
    /\ UNCHANGED <<surface, target, made, open, lastPosted, subWin, zRot, screen,
                   missed, host>>

\* the picture post(b) draws
Shown(b) == {[buffer |-> b, frame |-> content[b], rot |-> zRot]}

\* mutant: the handle is recorded before it is looked up
PostBeforeLookup(b) ==
    /\ lastPosted' = b
    /\ IF b \notin open \/ ~subWin
       THEN UNCHANGED <<screen, missed>>
       ELSE screen' = Shown(b) /\ missed' = FALSE

\* FrameBuffer::post(b): nothing if b is not found; m_lastPostedColorBuffer is
\* set before the subwindow is looked for and before it is bound
Post(b) ==
    IF b \notin open
    THEN UNCHANGED <<lastPosted, screen, missed>>
    ELSE /\ lastPosted' = b
         /\ IF ~subWin
            THEN UNCHANGED <<screen, missed>>
            ELSE \/ screen' = Shown(b) /\ missed' = FALSE
                 \/ UNCHANGED screen /\ missed' = TRUE   \* bindSubwin_locked failed

RcFBPost(b) ==
    /\ b \in open
    /\ Post(b)
    /\ UNCHANGED <<frame, surface, target, made, open, content, subWin, zRot, host>>

-----------------------------------------------------------------------------
(* The application's thread *)

\* setupSubWindow: the angle is set and the last posted buffer drawn.  Outside
\* the success path only a failing bindSubwin_locked leaves a subwindow behind
SetupSubWindow(rot) ==
    /\ host = <<>> /\ ~subWin
    /\ subWin' = TRUE
    /\ \/ /\ zRot' = rot
          /\ IF lastPosted \in open
             THEN \/ /\ screen' = {[buffer |-> lastPosted, frame |-> content[lastPosted],
                                     rot |-> rot]}
                     /\ missed' = FALSE
                  \/ UNCHANGED screen /\ missed' = TRUE   \* the one in post() failed
             ELSE UNCHANGED <<screen, missed>>
       \/ /\ missed' = TRUE          \* bindSubwin_locked failed
          /\ UNCHANGED <<zRot, screen>>
    /\ UNCHANGED <<frame, surface, target, made, open, content, lastPosted, host>>

RemoveSubWindow ==
    /\ host = <<>> /\ subWin
    /\ subWin' = FALSE /\ screen' = {}
    /\ UNCHANGED <<frame, surface, target, made, open, content, lastPosted, zRot,
                   missed, host>>

\* mutant: the null handle is not tested for
RepostUnchecked ==
    /\ host = <<>>
    /\ host' = <<lastPosted>>
    /\ UNCHANGED <<frame, surface, target, made, open, content, lastPosted,
                   subWin, zRot, screen, missed>>

\* repost() up to the call of post(): an unlocked read
Repost ==
    /\ host = <<>> /\ lastPosted # NoBuffer
    /\ host' = <<lastPosted>>
    /\ UNCHANGED <<frame, surface, target, made, open, content, lastPosted, subWin,
                   zRot, screen, missed>>

\* mutant: the angle is stored and nothing is redrawn
SetRotationOnly(rot) ==
    /\ host = <<>> /\ rot # zRot
    /\ zRot' = rot
    /\ UNCHANGED <<frame, surface, target, made, open, content, lastPosted,
                   subWin, screen, missed, host>>

\* setDisplayRotation: an unlocked write, then repost()
SetDisplayRotation(rot) ==
    /\ host = <<>> /\ rot # zRot
    /\ zRot' = rot
    /\ host' = IF lastPosted = NoBuffer THEN <<>> ELSE <<lastPosted>>
    /\ UNCHANGED <<frame, surface, target, made, open, content, lastPosted, subWin,
                   screen, missed>>

\* the post() of repost()
RepostPosts ==
    /\ host # <<>>
    /\ Post(host[1])
    /\ host' = <<>>
    /\ UNCHANGED <<frame, surface, target, made, open, content, subWin, zRot>>

Next ==
    \/ Draw \/ FlushWindowSurfaceColorBuffer
    \/ \E b \in Buffers : \/ CreateColorBuffer(b) \/ CloseColorBuffer(b)
                          \/ SetWindowSurfaceColorBuffer(b) \/ UpdateColorBuffer(b)
                          \/ RcFBPost(b)
    \/ \E rot \in Rotations : SetupSubWindow(rot) \/ SetDisplayRotation(rot)
    \/ RemoveSubWindow \/ Repost \/ RepostPosts

Spec == Init /\ [][Next]_vars

-----------------------------------------------------------------------------
TypeOK ==
    /\ frame \in 0 .. MaxFrame /\ surface \in 0 .. MaxFrame
    /\ target \in Buffers \cup {NoBuffer}
    /\ made \in SUBSET Buffers /\ open \in SUBSET made
    /\ content \in [Buffers -> 0 .. MaxFrame]
    /\ lastPosted \in Buffers \cup {NoBuffer}
    /\ subWin \in BOOLEAN /\ missed \in BOOLEAN
    /\ zRot \in Rotations
    /\ screen \in SUBSET Picture
    /\ host \in {<<>>} \cup {<<b>> : b \in Buffers}

\* What is on the screen is the buffer m_lastPostedColorBuffer names, unless
\* the last post could not bind the subwindow: the unlocked accesses of the
\* application's thread never make the two disagree.
ScreenIsLastPosted ==
    \A p \in screen : missed \/ p.buffer = lastPosted

\* A rotation reaches the screen although m_zRot is written without m_lock:
\* when setDisplayRotation is over, the picture of a buffer that still exists
\* is drawn at the current angle.
RotationApplied ==
    host = <<>> /\ lastPosted \in open /\ ~missed => \A p \in screen : p.rot = zRot
=============================================================================
