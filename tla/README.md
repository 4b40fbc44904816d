# TLA+ models of the OpenGL renderer

This directory models the emulator's OpenGL renderer (`src/emulator/opengl`): the
server a guest's GL commands are sent to, the threads that decode them, the
objects they create and the window the result is shown in; on the guest's side
the EGL library and the graphics buffers that call it; and, beside the renderer,
the qemud daemon (`src/emulator/qemud`). Paths below are relative to `src/emulator/opengl`; files without a
directory are in `host/libs/libOpenglRender`.

## The system

| component | state | operations | interacts with |
|---|---|---|---|
| renderer API (`render_api.cpp`) | `s_renderThread`, `s_theFrameBuffer`, the port | init, stop, create/destroy subwindow, rotate, repaint | starts and joins the server; calls FrameBuffer from the application's thread |
| render server (`RenderServer.cpp`) | the set of render threads, the listening socket | accept, read clientFlags, start a thread, reap finished ones, wait for all, finalize | owns the RenderThread objects |
| threads (`RenderThread.cpp`, `shared/OpenglOsUtils/osThreadUnix.cpp`) | `m_isRunning`, `m_finished`, `m_lock` | start, wait, `thread_main` | run on objects the server deletes |
| command stream (`ReadBuffer.cpp`, `RenderThread::Main`, the `decode()` that `host/tools/emugen/ApiGen.cpp` generates) | `m_buf`, `m_size`, `m_readPtr`, `m_validData` | getData, decode by three decoders in turn, consume | reads the connection (`shared/OpenglCodecCommon`) |
| handle tables (`FrameBuffer.cpp`) | `m_contexts`, `m_windows`, `m_colorbuffers`, `s_nextHandle`, `refcount` | create, destroy, open, close | shared by all render threads under `m_lock` |
| contexts, surfaces, buffers (`WindowSurface.cpp`, `ColorBuffer.cpp`, `RenderContext.cpp`, `ThreadInfo.cpp`) | attached buffer, sizes, remembered contexts, each thread's binding, `m_prev*` | bindContext, setColorBuffer, flush, update, destructors | EGL, whose current context is per thread |
| display (`FrameBuffer.cpp`) | `m_subWin`, `m_lastPostedColorBuffer`, `m_zRot` | post, repost, setup/remove subwindow, rotate | render threads and the application's thread |
| render control (`RenderControl.cpp`) | none | forwards each rc call to FrameBuffer | called by the decoders |
| guest EGL (`system/egl/egl.cpp`) | current context of each thread, `IS_CURRENT`, draw and read surface of a context, the dequeued buffer | create/destroy context and surface, eglMakeCurrent, eglSwapBuffers | render control calls over one connection per thread |
| guest gralloc (`system/gralloc/gralloc.cpp`) | alloc list, registrations, post count | alloc, free, register, unregister, lock, unlock, post | opens and closes color buffers from several processes |
| shared group (`shared/OpenglCodecCommon/GLSharedGroup.cpp`, `system/GLESv2_enc/GL2Encoder.cpp`) | records of shaders and programs, reference counts, uniform tables | create, source, attach, detach, delete, link, getUniformLocation | shared by the contexts of a share group under `m_lock`; mirrors the host's GL objects |
| connections (`system/OpenglSystemCommon`, `IOStream.h`, `shared/OpenglCodecCommon`) | write buffer, socket | alloc, flush, readback, deletion with the thread | calls without a result wait in the write buffer |
| qemud (`src/emulator/qemud/qemud.c`) | hooks, FDHandlers and their queues, clients, channels | looper, accept, receive, send, shutdown, registration | clients over sockets, the emulator over a serial line |

What is hard: render threads start, end and are deleted around unlocked reads of
`m_isRunning` and `m_finished`; objects outlive their handles through `SmartPtr`;
EGL allows a context in one thread only while every operation on a color buffer
borrows the FrameBuffer's own context and gives it back; the application's
thread posts and rotates without the lock; packets arrive in pieces and are
shared out among three decoders; clients die anywhere; handles are 32-bit. In the
guest, egl.cpp takes no lock around its checks and its calls; calls without a
result are executed late, calls of two connections in any order, and unflushed
ones are lost with their thread; the shared group changes before the host has
heard of it, and the host uses names again. qemud frees handlers and closes descriptors
while their hooks are still in the looper's array.
`PROJECT.json` lists these hazards at their lines, with the properties that
cover each.

## The modules

| module | models | extended or instantiated by |
|---|---|---|
| `RenderServer` | renderer API (init, stop), server, threads | `MCRenderServer`, `RenderServer_proofs` |
| `HandleTables` | handle generator, the three tables, reference counts | `MCHandleTables`, `HandleTables_proofs` |
| `FrameBuffer` | contexts, surfaces, buffers and the EGL bindings | `MCFrameBuffer`, `FrameBuffer_proofs` |
| `Display` | post, repost, rotation, subwindow | `MCDisplay`, `Display_proofs` |
| `CommandStream` | ReadBuffer, decoding loop, generated `decode()` | `MCCommandStream`, `CommandStream_proofs` |
| `CommandFifo` | abstract specification: a FIFO of commands | instantiated by `CommandStream` |
| `Gralloc` | guest gralloc in several processes, their connections, the host's counts | `MCGralloc`, `Gralloc_proofs`; instantiates `HandleTables` |
| `GuestEgl` | guest EGL in one process, over the host's actions | `MCGuestEgl`, `FrameBuffer_proofs`; extends `FrameBuffer` |
| `SharedGroup` | shaders and programs of GLSharedGroup, the calls of GL2Encoder on them | `MCSharedGroup`, `SharedGroup_proofs` |
| `Qemud` | the daemon, with the emulator and clients as environment | `MCQemud`, `Qemud_proofs` |

**RenderServer.** A RenderThread object lives at an address of `Addrs`; `mem`
says whether it is live or freed. A load from a freed object returns any value,
a store is lost or kills the process, and `operator new` may return a freed
address if `ReuseFreed`. `Init*`, `Stop*` are the two API functions, cut where
they block or read without a lock; a client may send the exit flag itself
(`SendExit`); `Accept` to `Finalize` are
`RenderServer::Main`, one action per blocking call or per iteration of a loop;
`LeaveMain` and `GetDataFails` (the connection ended, or the read buffer cannot
grow), `Epilogue`, `Unlock` are the end of `RenderThread::Main` and of `thread_main`. Deleting a deleted object is taken to abort the process.

**HandleTables.** Every operation holds `m_lock` and is one action. Objects have
serial numbers so that a handle that was reused can be told from the original;
`refs` is what clients hold, which the program does not know. Clients use only
handles they hold. `ClientDies` is the end of a connection, which returns
nothing to the tables.

**FrameBuffer.** Handles are not reused. `win`, `cbSize`, `tinfo` are the members
of the objects; existence follows from who points to an object, as with
`SmartPtr`. `egl` is EGL's own binding of each thread. `Section` is
`bind_locked ... unbind_locked`, `Destructor` is `~ColorBuffer`, which unbinds
even when the bind failed. `eglMakeCurrent` is external: it succeeds if context
and surfaces exist and are not current in another thread, and a failure changes
nothing. A size is a width and a height, of which either may be 0: such a pbuffer is
never resized (`NoArea`), and a surface without dimensions is not copied (`Empty`).
`Rules` names what clients respect, and the server enforces none of it: no buffer of
another size is attached to a surface current in another thread ("attach"), only the
thread's current draw surface is flushed ("flush"), and a thread with nothing bound
does not unbind ("unbind"). How far the guest's EGL library sees to that is what
`GuestKeepsRules` of `GuestEgl` shows.

**Display.** Pixels are the number of the frame they come from. `repost()` and
`setDisplayRotation()` are two steps each, since they read or write before
`post()` takes the lock. A buffer's contents survive `closeColorBuffer` while a surface
points to it.

**CommandStream.** A byte is its position in the stream, so the buffer's
contents can be compared with the stream. A command is its protocol and its
length; "other" is an opcode no decoder knows. The arithmetic of the growth
keeps its width: `2 * size` modulo `SizeMod`, replaced by `IntMax` on overflow.

**Gralloc.** Each guest thread has a write buffer (`out`) and a socket (`wire`).
`rcOpenColorBuffer`, `rcCloseColorBuffer` are put into `out`; `Alloc`, `Lock` and
`Unlock` have results and wait until the host has executed all the thread sent
(`Answered`); `FbPost` flushes. `HostExecutes` is the render thread of a
connection executing the next call. `ThreadExits` drops what was not flushed,
`ProcessDies` returns nothing, and `RegisterFails` is the path of
`gralloc_register_buffer` that returns an error after it has told the host. The
variable `lost` counts what such events take from or leave in the count; the
program has no such variable. `Rules` are what the code leaves to its callers:
"confirm" (no reference is returned while another thread's registration of the
buffer is under way) and "exit" (a thread ends only after its calls were
flushed).

**GuestEgl.** The host's part of every step is an action of `FrameBuffer`, with
its `Rules` empty. `EglMakeCurrent` (the checks), `HostMakesCurrent` and
`LocalBind` are the three parts of `eglMakeCurrent` between which other threads
run; `eglDestroyContext` of a current context goes through them.
`rcSetWindowColorBuffer` and the destructions wait in `pending`. Guest surfaces
live at addresses that are used again, for that is how egl.cpp compares them.
The `rcSetWindowColorBuffer` of a creation ("attach" in `pending`) stays unflushed
until its thread's next call with a result, however long that takes, and other
threads may use the surface meanwhile; `astray` is a history variable with the
surfaces whose first attachment came after a later one or was lost with the thread.
All windows have one size and keep it, so an attachment never resizes a pbuffer.
`GuestRules` are what the applications of a run refrain from. They are not EGL's
rules: EGL lets an application destroy a context or surface that is current
("destroy", "surface": the deletion is to wait until it is released) and end a thread
without a release ("release"), and egl.cpp deletes at once and clears nothing; to
swap a surface that is not current ("swap") and to make a context current with one
surface only ("match") are errors in EGL, which egl.cpp does not report. What happens
without "surface" is the run `GuestEgl_destroy`.

**SharedGroup.** `m_programs`, `attached`, `indexes`, `locShiftWAR`, `refcount` and
`external` are the group, the variables with `h` the host's GL, which is external:
it keeps a deleted shader while it is attached and uses names again. A call that
sends a packet and then takes `m_lock` is two actions (`Attach`, `AttachShader`),
between which the packet is still in the write buffer (`Executable`);
`s_glShaderSource` is two because it uses the pointer after the unlock, and
`s_glLinkProgram` one per uniform. `given` is what the application was told. The
application names only objects that it has not deleted, except that it may detach a
shader it deleted while attached, and orders what its threads do to one object, as
GL asks (`Free`). A location of the host is looked
up only if the host has just given it, so that the error return of
`locationWARHostToApp` does not occur.

**Qemud.** `hooks` is the looper's array, in its order and with the deleted hooks
that are still in it; `EpollWait`, the handlers and `LoopEnds` are the three
parts of an iteration of `looper_loop`. A handler's work for EPOLLIN, EPOLLHUP
and EPOLLOUT is one step each. Freed handlers and Clients stay visible (`fh`,
`obj`), and `UseFreed` ends a run in which one of them is used; `Sigpipe` ends it when
a client hangs up between `epoll_wait` and a write to it. The emulator refuses a
service with or without a reason; qemud recognises only the refusal without
(`SerialIn`). One read of the
serial line delivers one message; `serial_fd_receive` handles a read of several
in a row without returning to the looper, which the model takes as several
iterations.

## The runs

Passing runs, with the bounds and the distinct states TLC finds:

| run | checks | bounds |
|---|---|---|
| `RenderServer` | `TypeOK`, `FinalizeAfterThreads`, `MainHasItsObject`, `StopCompletes`, `ClientsAreServed` | 2 clients, 2 addresses, 2 inits (the listening socket is never closed, so one succeeds), no reuse of freed addresses; 111,000 |
| `HandleTables` | `TypeOK`, `HandlesResolve`, `BuffersKeptUntilWrap` | 2 usable handles, 4 objects, 3 references; 45,000 |
| `FrameBuffer` | `TypeOK`, `FBContextReleased`, `RendersIntoOwnContext`, `BlitSizesAgree` | 2 threads, 2 contexts, 1 surface with up to 3 pbuffers, 2 buffers, 4 sizes (1x1, 2x1, 0x1, 0x0), all rules, EGL may fail; 208,000 |
| `Display` | `TypeOK`, `ScreenIsLastPosted`, `RotationApplied` | 3 buffers, 2 angles, 3 frames; 681,000 |
| `CommandStream` | `TypeOK`, `BufferIsStream`, `NoCommandStuck`, `ImplementsFifo`, `CommandsAreExecuted` | 3 commands of 2 or 5 bytes, header of 2, buffer of 3 growing to 12; 296,000 |
| `Gralloc` | `TypeOK`, `CountIsClientReferences`, `HeldBuffersExist`, `PostsArrive`, `ImplementsHandleTables` | 2 processes of one thread, 1 buffer, 2 registrations, 2 calls under way, both rules; 117,000 |
| `GuestEgl` | `GuestTypeOK`, `GuestHostAgree`, `GuestKeepsRules`, `ContextNotLockedOut`, `SwapsIntoDequeued`, `FlushOfCurrentUpdates` | 2 threads, 1 context, 2 surfaces, 2 buffers, 2 addresses, 1 size, 2 calls under way, all guest rules, none of FrameBuffer's, `OneSurfaceOnceAstray`; 496,000 |
| `SharedGroup` | `GroupTypeOK`, `ShaderDataKept`, `SamplersFlagged`, `LocationsRoundTrip` | 2 threads, 1 shader name, 2 programs, 3 references, 1 packet under way per thread, 2 layouts of uniforms, 2 locations held; 1,139,000 |
| `Qemud` | `QemudTypeOK`, `ChannelsAgree`, `DeliveredInOrder`, `OutputIsWatched`, `AnswersArrive` | 2 clients that send 2 and 1 packets, channels 1 to 3, 1 data packet per channel, 1 message of the emulator unread; 484,000 |

Why the bounds are enough to be interesting: two clients are one that is being
started and one that ends or is reaped (the proofs cover more); two handles and four objects make
the counter wrap with objects alive; two threads and two sizes with an area are what a resize needs, two
without one the two early returns; a buffer of three with packets of five must grow
once per packet and fails at a third doubling; three buffers let a post fall
between the two steps of a repost; two processes with two calls each under way
are all orders in which an open can meet a close; two threads, one context and
two addresses let both pass the `IS_CURRENT` check, and an address be used again
by the other thread, and a surface be used by one thread before the other has flushed
its creation; one shader in two programs of two threads is linked in one
while it is detached from or deleted with the other, and its name is used again;
two qemud clients are one that goes and one that is accepted
in the same iteration.

`OneSurfaceOnceAstray` is a bound of `GuestEgl` (a `CONSTRAINT`): a first attachment that
came too late is not combined with an `eglMakeCurrent` of different draw and read
surfaces. The run without it, twice as large, gives the same answers, and the theorems
about these invariants have no such bound.

`CHECK_DEADLOCK FALSE` is set for `FrameBuffer` (a NULL dereference or the end
of all threads stops it), `CommandStream` (a connection ends), `Gralloc`,
`GuestEgl` (threads end) and `Qemud` (it waits in epoll). `RenderServer`
says with `Terminated` when the application may stop for good.

Fairness: weak fairness for the server, each render thread and the application
inside `wait()`, since the operating system schedules the threads of the
process; in `Gralloc` for the render threads, in `Qemud` for the looper and for the
emulator's answer to a request. `Qemud_shutdown` adds strong fairness for complete
writes: a client that reads what it is sent makes room again and again. Clients,
the application's calls and failures have none.

The refinement: `ImplementsHandleTables` instantiates `HandleTables` with the
references whose calls the host has executed (`HostRefs`). What `HandleTables`
assumes of clients (that a handle is opened only by someone who holds it) is thus
shown for processes that share handles over connections that delay, reorder and
lose calls, as far as the two rules are kept. `ImplementsFifo` is the other one.

Violations, each a disagreement between the code and what a comment or a header
in the repository says of it (`PROJECT.json`, "findings"):

| run | property | what happens |
|---|---|---|
| `RenderServer_reuse` | `FinalizeAfterThreads` | a thread is reaped on `m_finished` before its last store `m_isRunning = false`; the store lands in the object allocated at that address for another client, `wait()` skips that thread's join, and the FrameBuffer is finalized while it decodes |
| `GuestEgl_destroy` | `NothingToDo` | a current surface is destroyed and another created at its address; `eglMakeCurrent` compares addresses and returns at once, while the host has the destroyed surface bound |
| `Qemud_shutdown` | `ShutdownCompletes` | a handler that shuts down sends its packets and is then neither freed nor closed |

Other limits of the code that the models contain and the properties are worded
around:

- A render thread is deleted on `m_finished`, which it sets inside `Main`, while
  `thread_main` has still to lock `m_lock`, store `m_isRunning` and unlock
  (`RenderServer.cpp:113`, `osThreadUnix.cpp:85-88`): it uses a freed object
  (`MayFault`) even when nothing else is allocated there.
- `Thread::start()` returns `m_isRunning` after its unlock, so it can return
  false for a thread that was created and has ended (`StartReturns`); the caller
  then deletes the object and inserts the pointer.
- `Thread::wait()` skips the join when `m_isRunning` is already false, so
  `stopOpenGLRenderer` can delete the RenderServer before its thread has unlocked
  the mutex inside it (`StopCheck`, `ServerUnlock`).
- The listening socket is never closed, so `initOpenGLRenderer` cannot succeed
  again on the same port after a stop (`InitOpenGLRenderer` needs `~listening`).
- When the read buffer cannot grow, `Main` ends and its stream is never closed: the
  client stays connected and nobody reads from it (`GetDataFails`).
- A surface created with a width or height of 0 keeps its pbuffer for ever, while it
  takes over the dimensions of every buffer attached to it (`WindowSurface.cpp:109`);
  `BlitSizesAgree` excepts pbuffers without area.
- `genHandle` does not look at `m_colorbuffers`: once the counter has wrapped, a
  creation can take the handle of a buffer in use. `BuffersKeptUntilWrap` stops
  there; `HandlesResolve` does not need to.
- References of a client that dies are never returned (`ClientDies`), so the
  count only bounds the client-side references from above.
- Unbinding compares two zero handles and unbinds only the draw surface; a
  different read surface keeps its `m_readContext` (`UnbindContext`).
- Without the rule "attach", a buffer of another size attached to a surface that
  another thread has current destroys the pbuffer under that thread, which then
  keeps the FrameBuffer's context (`WindowSurface.cpp:192`): set `Rules` to the
  others and `FBContextReleased` fails. Without "unbind", a second unbind takes the
  draw context from a surface another thread has bound since, and the flush there
  dereferences NULL (`FrameBuffer.cpp:707`): `FlushOfCurrentUpdates` fails.
- `repost()` reads `m_lastPostedColorBuffer` before `post()` takes the lock; a
  guest's post in between is overwritten by the older buffer (`Repost`,
  `RepostPosts`).
- Without the rule "confirm", a buffer registered in one process and freed in the
  one that allocated it is destroyed if the host hears of the free first; the
  late open is ignored (`Opened`). With `Rules` empty `HeldBuffersExist` fails.
  `system/renderControl_enc/README:82-84` says that the open adds a reference.
- `rcColorBufferCacheFlush` is a stub (`RenderControl.cpp:304-309`): when
  `gralloc_lock` returns, a post of another thread may not have been executed,
  although `system/renderControl_enc/README:115-119` says that it waits.
- `eglSwapBuffers` succeeds although dequeueing the next buffer failed
  (`egl.cpp:1109`), and the host goes on copying into the buffer the consumer has;
  `SwapsIntoDequeued` speaks only of surfaces with a buffer.
- `eglCreateWindowSurface` does not flush its `rcSetWindowColorBuffer` (`egl.cpp:278`).
  If another thread makes the surface current and swaps it first, the swap copies
  nothing, and when the creating thread flushes later the surface goes back to
  a buffer that is already queued, until the next swap. An application cannot see
  this. `SwapsIntoDequeued` and `GuestKeepsRules` except exactly this attachment.
- `deleteProgramData` does not return the references of the attached shaders, so
  their `ShaderData` is never freed unless the host uses the name again
  (`DeleteProgramData`, `CreateShader`); a second `glDeleteShader` of an attached
  shader, which GL ignores, gives back a reference that is not its own. Names of
  external samplers are never removed when a shader gets a new source, so that
  `SamplersFlagged` is an implication.
- `ProgramData::setSamplerUniform` compares the type with `GL_TEXTURE_2D`, which is
  not the type of a uniform, so `samplerValue` stays 0 and `glUseProgram` looks at
  texture unit 0 only (`GLSharedGroup.cpp:174`).
- qemud calls the handler of a pending hook that another handler of the same
  iteration has freed, a client that sends too early and hangs up at once is
  closed twice, and the receiver of a handler that is shutting down still names
  its freed Client (`UseFreed`).
- A descriptor that qemud closes and accepts again in one iteration has two
  hooks; `looper_enable` finds the one being removed, and the new client is never
  read from (`LooperEnable` in `ControlAccept`). No property says that every client
  is read: `AnswersArrive` begins when a service name has been read.
- qemud does not sign off a client that it throws out for sending before the
  answer, and the emulator keeps its channel (the last case of `ChannelsAgree`).
- Channel numbers wrap at 0xff to 0, the control channel (`NextChannel`); the run
  stays below the wrap. The request is written `connect:<name>:<id>`, not
  `connect:<id>:<name>` as `qemud.c:45` says.
- A refusal is to be `ko:connect:<id>:reason-for-failure` (`qemud.c:58-61`), but
  only the 13 bytes without a reason are recognised (`qemud.c:1453`): a refusal as
  documented is dropped, and the client waits for ever. `AnswersArrive` excepts these
  clients (`emu` is "refused"); without the exception TLC finds the client.
- A write to a client that has just hung up raises SIGPIPE, which qemud neither
  handles nor ignores (`Sigpipe`).
- `rcSetWindowColorBuffer` does not update the previous target, although
  `system/renderControl_enc/README:93-96` says so; `WindowSurface.cpp:93-94` says
  that the flush is a call of its own, as `Display` models it.

Every property of a passing run has a mutant: a definition changed as a bug
would change it, under which TLC finds the property violated. The operators are
marked "mutant" in the modules and used by nothing else.

## The proofs

**RenderServer_proofs.** `TypeCorrectness` holds for every value of the
constants. `FinalizeIsLast` and `MainKeepsItsObject` hold for any number of
clients and objects, also where freed addresses are handed out again, in every
behaviour with `[][NoStaleStore]_vars`: no late `m_isRunning = false` (`osThreadUnix.cpp:86`)
hits an object that was allocated at its address for another thread. That this one store is
all that can go wrong is what the theorems say; that it does go wrong is what the
run `RenderServer_reuse` shows. `NoReuseNoStaleStore` proves that the condition holds
under `~ReuseFreed`. The properties are not inductive: that the waiting
loop covers every thread depends on which objects are in the set or about to be
inserted, and a freed address that is still in the set may be that of a new object. `IInv` adds `Queue` (a connection is queued at most once, and only
before it has a thread), `Objects` (each thread has an object of its own, alive
and marked running and not finished while the thread is inside Main) and
`Covered` (every thread inside Main is in the set, is the one being started, or
is still to be waited for).

**HandleTables_proofs.** `TypeCorrectness`, `ContextsAndSurfacesResolve` and
`ColorBuffersKept`, for every width of a handle and without bounds on objects or
references beyond the constants. `IInv` is the three properties with `Fresh` (nobody references an
object that does not exist yet), `Below` (until the counter wraps it is at least
every handle it has given out, so the next one is new to `m_colorbuffers` too)
and `Counted` (an entry that is there has a positive count, so that a close
erases it only with the last reference).

**CommandStream_proofs.** `TypeCorrectness`, `BufferIsAlwaysStream`, `NeverStuck` and `Refinement`,
for every header length, packet length, initial size and split of the stream,
given that the memory the process can get is less than half of what a `size_t`
counts. `IInv` adds `Consecutive` (where commands start and end), `Arrival` (how
many bytes can have arrived), `Sizes` (the buffer never exceeds the memory
limit), `InStep` (the executed commands are the first ones, and the decoder
stands at the start of the next) and `Tried` (what the decoders that have
returned since the last progress could not execute).

**Display_proofs.** `TypeCorrectness`, `ScreenAlwaysLastPosted` and
`RotationAlwaysApplied`, for any threads, buffers and angles. `RotationApplied` is
not inductive: between the unlocked write of `m_zRot` and the repost the picture is
at the old angle. `IInv` adds `RotationPending`, by which such a picture is the one the
application's thread is about to repost, and `PostedWasMade` (the posted handle was
once created; without a subwindow nothing is shown).

**FrameBuffer_proofs.** `TypeCorrectness` and `SizesAlwaysAgree` hold whatever rules
the clients keep, whether or not pbuffers can be made, and for sizes without area. `SizeInv` adds
`PbuffersCounted` and `AttachedWasMade`: a surface's pbuffers are numbered in order,
and what is attached was created, so that no creation changes its size later.
`ContextAlwaysReleased` and `AlwaysOwnContext` assume `"attach" \in Rules`, as the run
does: when a client attaches a buffer of another size to a surface another thread has
current, the old pbuffer is not restorable and the context stays bound. `EglInv` says
why the rule is enough: outside an operation the saved binding is `Unbound`, each
thread's EGL binding is `Unbound` or the one its RenderThreadInfo stands for, and no
two threads share a context or surface, so that `unbind_locked` always succeeds.
`FlushAlwaysUpdates` also assumes `"unbind"` and `~EglMayFail`, and rests on a third
invariant that relates the draw context a surface remembers to the thread
that has it current.

The same module proves the properties of `GuestEgl`, whose steps on the host are
`FrameBuffer`'s, so that the lemmas about them are used again. `GuestTypeCorrectness`
holds whatever rules the applications keep; `ContextNeverLockedOut` needs only "release".
`GuestAlwaysAgrees`, `GuestAlwaysKeepsRules`, `AlwaysSwapsIntoDequeued`,
`GuestFlushAlwaysUpdates` and `GuestNeverCrashesHost` hold under `AgreementRules`, which are
"surface", "swap" and "release". Without "destroy" they speak of a guest whose memory of a
deleted context stays readable: the model keeps what egl.cpp has freed, and does not
say what a read of reused memory gives. On the host a context destroyed by another thread
leaves the table, but the RenderThreadInfo of the thread that has it current still refers to it.
Here nothing is assumed of the calls that reach the host (`FrameBuffer`'s `Rules` play no
part): what the guest keeps of "attach", "flush" and "unbind" is
`GuestAlwaysKeepsRules`, proved together with the host's invariants that need it, for
each depends on the other. A first attachment that comes when another thread has the
surface current breaks none of them, for it has the surface's size. `GuestInv` has these parts:
- `AgreeInv`: until the host has replied it has bound what the guest has, afterwards what
  the call in progress asked for. `GuestHostAgree` leaves the calls in progress out, and
  alone would not survive the next step.
- `SurfacesInv` and `CallsInv`: a surface is at one address, its handle is in the table
  as long as it is there, and a call names surfaces that are there, so that equal
  addresses mean equal surfaces although addresses are used again.
- `SetInv` and `DequeuedInv`: the attachment of a swap under way names the buffer the surface
  has dequeued, and no other thread has the surface or will get it before; the dequeued buffer
  is attached or such a call is under way, or the surface is astray or waits for its first
  attachment.
- `HostInv`: `SizeInv`, `EglInv` and the invariant behind `FlushAlwaysUpdates`, with
  `OneSize` (all windows have one size, so an attachment never makes a new pbuffer).

`HandlesAssumption`, that contexts, surfaces and buffers have different handles, is
`genHandle`'s single counter before it wraps (`FrameBuffer.cpp:472`).

**SharedGroup_proofs.** `TypeCorrectness`, `ShaderDataAlwaysKept` and
`SamplersAlwaysFlagged`, for any shaders, programs and layouts and any finite number
of threads. Neither property is inductive: a program's list, the count of a shader and the
table of a link are changed in different steps, and the host hears of them later.
`IInv` adds `GroupProtocol` (what the packets under way may name, that a deletion is
the last packet about its object but for detachments, and, by `DetachesKept`, that the host
still has the shader to be detached, through its name or its attachment), `Synchronised` (the guest's list of a program
is the host's after the packets under way), `Counted` and `Bounded` (the count
is at least the programs that list the shader plus the shader's own name, and
leaves room for the attachments begun), `NamesKnown` (what the host has or will have of a
source is recorded in the guest) and `Recording` (the entries made so far mirror the
layout, and the names the host linked as external come from attached shaders).
`LocationsAlwaysRoundTrip` says that every location an application holds leads to the
uniform and element it was asked for. It rests on `LocInv`: the guest's locations of the
uniforms of a program are disjoint and in order, none is held of a program that is deleted or being
linked, and each stands for an element whose host location is a multiple of the
stride from the base, where `hostLocsPerElement` is that stride as soon as an element other
than the first was asked for. `ApartAssumption` is what `getIndexForLocation` takes for
granted of the host (`GLSharedGroup.cpp:83`): no uniform is placed within the array of
another.

**Gralloc_proofs.** All for finitely many threads and processes. `TypeCorrectness` and
`CountAlwaysReferences` hold whatever rules the guest keeps: `CountInv` adds to the two
properties that nobody has heard of a buffer that is not allocated yet (`Fresh`; otherwise
a late open could reach a new count), that the queues are bounded, and that each post under
way was counted. `HeldBuffersAlwaysExist` assumes both rules, as the run does. The property
says what the host has now, but which calls it executes next is open: a close of one
thread may overtake an open of another. The invariant therefore speaks of every *cut*
of the queues, that is, of everything the host may have executed at some later moment: the count it
would then have (`Worth`) is not negative, and it is zero only if nobody holds the buffer
and no open of it is left (`Kept`). "confirm" keeps this when a close is sent, for then no
other thread has an open under way. A thread or process that ends drops the end of its queue,
which moves a cut; there `AllBacked` is needed: unflushed opens are no more than the
references and unflushed closes of the same processes, so that what is lost is never
negative. With `Exact` (the count is the number of references also at zero) these form `UseInv`.
`TablesRefinement` maps an allocation to `CreateColorBuffer`, the host's execution of an
open or a close to `OpenColorBuffer` or `CloseColorBuffer`, and every other step to a stutter.
`HandleTables` bounds the references of a buffer, so `LossBounded` bounds what all processes
can hold, have under way and lose: a process dies once.

**Qemud_proofs.** `TypeCorrectness` and `OutputAlwaysWatched`, for any clients, channels and
packets, also after the channel numbers wrap. The property speaks of the hook of a
client, but `looper_enable`, `looper_disable` and `looper_del` look hooks up by
descriptor and take the first, so `IInv` describes the array: the first two hooks stay
(`Shape`), each other belongs to one client, is deleted exactly when that client's handler
was freed and watches what is queued (`Owned`, `OneHook`, `Hooked`), and open descriptors
differ (`Separate`). Two hooks with one descriptor do occur. `Twins` says that it is
harmless for output: it happens only after the serial line was served in this
iteration, and the new hook has no event, so nothing looks that descriptor up
for output or to delete it until the old hook is gone. Only the
`looper_enable` of the accept itself may find the wrong hook (see above), and it sets
EPOLLIN. `SerialLine` and `Tidy` tie the serial line's hook to its queue and the
Clients to their handlers.

`ChannelsAlwaysAgree` and `AlwaysDeliveredInOrder` hold for any clients, channels and packets as
long as the channel numbers have not started again: their hypothesis `[][NoWrap]_vars` says that
`last_channel` only grows. After a wrap (`qemud.c:1551`) a late message about
the old owner of a number reaches the new one, and neither property is
claimed; the run stays below the wrap too. Every step is first reduced to what it does to one
client and to the two directions of the serial line (`Effect`, `StepEffect`), and the
invariants are then shown for the effects instead of for each action. `ChanInv` follows a
channel through its life: only numbers that were given out are spoken of, each has one owner, it
is asked for once and answered once, once ended it stays closed and is signed off, and an open channel
has an owner or one of the messages or clients that account for its absence. `DelInv` describes
what is on the line: on a channel the answer comes first and nothing follows a refusal
or the end (`WireOrder`), before the answer all data is still on the line (`Starts`,
`DataAfterOk`), who waits was at most refused (`Refused`, `Unanswered`), who was
disconnected gets nothing more (`Done`), and what a registered client received and
what is on the line for it are together the packets sent, in order (`Delivered`).

Every invariant and safety property of a passing run is thus stated by a theorem, some of
them under the hypotheses named here. Only model-checked are the liveness properties
(`StopCompletes`, `ClientsAreServed`, `CommandsAreExecuted`, `PostsArrive`,
`AnswersArrive`), which the prover cannot do, and the three violations.

## Not modelled

Vertex arrays, textures and buffer contents in the guest's GL encoders (a thread's
own state, without control of its own); pbuffers, images and
syncs of guest EGL; the Translator and the separate renderer process, which the
build leaves out; X11, EGL and GL themselves; GL object state behind the
decoders; emugen as a text processor; the framing of qemud's serial messages; the
sensor and GPS modules and the emulator's tools. See "components" in
`PROJECT.json`.

Most of the repository's lines are copies of bionic, libcutils, liblog,
libcorkscrew, the Android headers and the desktop-GL Translator. They are
third-party code or not part of the build, so the models cover the renderer's own
control logic and only a small share of all lines.

## Plan

1. *Done:* the server's life cycle, the handle tables, the EGL bindings, the
   display, the command stream and its abstract FIFO; proofs of three of them.
2. *Done:* guest gralloc over one connection per thread, refining `HandleTables`;
   guest EGL over `FrameBuffer`, showing which rules the guest keeps; the shared
   group; qemud.
3. *Done:* proofs of the invariants of every module, with the refinements of
   `CommandFifo` and `HandleTables`.
4. The static entry points against `finalize` (`Display` composed with
   `RenderServer`), and the framing of qemud's serial line.
