---------------------------- MODULE RenderServer ----------------------------
(***************************************************************************)
(* The life cycle of the renderer: the host application's thread that      *)
(* calls initOpenGLRenderer and stopOpenGLRenderer (render_api.cpp), the   *)
(* RenderServer thread that accepts connections, and one RenderThread per  *)
(* connection, all built on osUtils::Thread (osThreadUnix.cpp).            *)
(*                                                                         *)
(* A RenderThread object lives at an address; the server deletes it, and   *)
(* the thread that runs on it goes on using it until it has released       *)
(* m_lock in Thread::thread_main.  The model therefore keeps the memory    *)
(* explicit: mem[a] tells whether address a holds a live object, a load    *)
(* from a freed object returns anything, a store into one is lost or kills *)
(* the process, and the allocator may hand out a freed address again.      *)
(*                                                                         *)
(* Steps are as fine as the code's unlocked accesses: the m_isRunning that *)
(* start() returns is read after m_lock was released, wait() tests         *)
(* m_isRunning without m_lock, isFinished() reads m_finished without one.  *)
(***************************************************************************)
EXTENDS Integers, Sequences, FiniteSets

CONSTANTS
    Conns,       \* the client connections, one RenderThread for each
    Addrs,       \* the addresses a RenderThread can be allocated at
    NoAddr,      \* the NULL RenderThread pointer
    NoConn,      \* no connection is being handled
    Exit,        \* the dummy connection stopOpenGLRenderer opens
    ReuseFreed,  \* may operator new return the address of a deleted object?
    MaxInits     \* bound on the calls of initOpenGLRenderer

ASSUME ConnsAssumption == NoConn \notin Conns /\ Exit \notin Conns /\ NoConn # Exit
ASSUME AddrsAssumption == NoAddr \notin Addrs
ASSUME ReuseAssumption == ReuseFreed \in BOOLEAN
ASSUME InitsAssumption == MaxInits \in Nat

VARIABLES
    host,        \* where the application's thread is
    inits,       \* calls of initOpenGLRenderer so far (capped by MaxInits)
    fb,          \* s_theFrameBuffer # NULL
    listening,   \* the listening socket is open
    backlog,     \* connections the kernel holds for accept()
    conn,        \* what each client has done with its connection
    spc,         \* where the RenderServer thread is
    srvLive,     \* the RenderServer object has not been deleted
    srvRunning,  \* m_isRunning of the RenderServer
    cur,         \* the connection RenderServer::Main is handling
    rt,          \* its RenderThread pointer, or the one being waited for
    threads,     \* the RenderThreadsSet of RenderServer::Main
    scan,        \* the part of it an iteration has still to visit
    mem,         \* "unused", "live" or "freed" for each address
    running,     \* m_isRunning of the RenderThread at an address
    finished,    \* m_finished of the RenderThread at an address
    owner,       \* m_thread: the thread created on the object at an address
    addr,        \* the object each render thread runs on ("self", "this")
    tpc,         \* where each render thread is
    crashed      \* the process was killed by a memory fault

hostVars == <<host, inits, fb, listening>>
connVars == <<backlog, conn>>
srvVars  == <<spc, srvLive, srvRunning, cur, rt, threads, scan>>
objVars  == <<mem, running, finished, owner>>
thrVars  == <<addr, tpc>>
vars == <<hostVars, connVars, srvVars, objVars, thrVars, crashed>>

HostPCs == {"out", "up", "check", "join"}
SrvPCs  == {"none", "accept", "flags", "start", "started", "reap",
            "wait", "join", "epilogue", "unlock", "dead"}
ThrPCs  == {"none", "main", "epilogue", "unlock", "exited"}
\* idle, connected without clientFlags, with them, closed without, closed after;
\* "exit" when the client itself sent IOSTREAM_CLIENT_EXIT_SERVER
ConnStates == {"idle", "silent", "ready", "exit", "gone", "done"}

Init ==
    /\ host = "out" /\ inits = 0 /\ fb = FALSE /\ listening = FALSE
    /\ backlog = <<>>
    /\ conn = [c \in Conns |-> "idle"]
    /\ spc = "none" /\ srvLive = FALSE /\ srvRunning = FALSE
    /\ cur = NoConn /\ rt = NoAddr /\ threads = {} /\ scan = {}
    /\ mem = [a \in Addrs |-> "unused"]
    /\ running = [a \in Addrs |-> FALSE]
    /\ finished = [a \in Addrs |-> FALSE]
    /\ owner = [a \in Addrs |-> NoConn]
    /\ addr = [c \in Conns |-> NoAddr]
    /\ tpc = [c \in Conns |-> "none"]
    /\ crashed = FALSE

-----------------------------------------------------------------------------
(* Memory *)

\* what a load of a BOOLEAN member of the object at a may return
Load(member, a) == IF mem[a] = "live" THEN {member[a]} ELSE BOOLEAN

\* the member after a store that did not fault: lost if the object is freed
Stored(member, a, v) ==
    IF mem[a] = "live" THEN [member EXCEPT ![a] = v] ELSE member

\* operator delete: deleting a deleted object aborts the process
Delete(a) ==
    /\ mem' = [mem EXCEPT ![a] = "freed"]
    /\ crashed' = (mem[a] # "live")

\* addresses operator new may return
Allocatable == {a \in Addrs : mem[a] = "unused" \/ (ReuseFreed /\ mem[a] = "freed")}

-----------------------------------------------------------------------------
(* The application: render_api.cpp *)

\* FrameBuffer::initialize fails: nothing is left behind
InitFrameBufferFails ==
    /\ ~crashed /\ host = "out" /\ inits < MaxInits /\ ~fb
    /\ inits' = inits + 1
    /\ UNCHANGED <<host, fb, listening, connVars, srvVars, objVars, thrVars, crashed>>

\* RenderServer::create fails because listen() fails, as it must when the port
\* is still held by the socket of an earlier server; the FrameBuffer stays
InitListenFails ==
    /\ ~crashed /\ host = "out" /\ inits < MaxInits
    /\ inits' = inits + 1
    /\ fb' = TRUE
    /\ UNCHANGED <<host, listening, connVars, srvVars, objVars, thrVars, crashed>>

\* initOpenGLRenderer returns true: the server thread is running
InitOpenGLRenderer ==
    /\ ~crashed /\ host = "out" /\ inits < MaxInits /\ ~listening
    /\ inits' = inits + 1
    /\ host' = "up" /\ fb' = TRUE /\ listening' = TRUE
    /\ spc' = "accept" /\ srvLive' = TRUE /\ srvRunning' = TRUE
    /\ UNCHANGED <<connVars, cur, rt, threads, scan, objVars, thrVars, crashed>>

\* stopOpenGLRenderer: connect, send IOSTREAM_CLIENT_EXIT_SERVER
StopConnect ==
    /\ ~crashed /\ host = "up" /\ listening
    /\ host' = "check"
    /\ backlog' = Append(backlog, Exit)
    /\ UNCHANGED <<inits, fb, listening, conn, srvVars, objVars, thrVars, crashed>>

\* s_renderThread->wait(): the unlocked test of m_isRunning.  When it is false
\* wait() returns at once and the RenderServer is deleted
StopCheck ==
    /\ ~crashed /\ host = "check"
    /\ IF srvRunning
       THEN host' = "join" /\ UNCHANGED srvLive
       ELSE host' = "out" /\ srvLive' = FALSE
    /\ UNCHANGED <<inits, fb, listening, connVars, spc, srvRunning, cur, rt,
                   threads, scan, objVars, thrVars, crashed>>

\* pthread_join returns; the RenderServer is deleted
StopJoin ==
    /\ ~crashed /\ host = "join" /\ spc = "dead"
    /\ host' = "out" /\ srvLive' = FALSE
    /\ UNCHANGED <<inits, fb, listening, connVars, spc, srvRunning, cur, rt,
                   threads, scan, objVars, thrVars, crashed>>

-----------------------------------------------------------------------------
(* The clients: connections through the kernel's listen backlog *)

Connect(c) ==
    /\ ~crashed /\ listening /\ conn[c] = "idle"
    /\ conn' = [conn EXCEPT ![c] = "silent"]
    /\ backlog' = Append(backlog, c)
    /\ UNCHANGED <<hostVars, srvVars, objVars, thrVars, crashed>>

SendFlags(c) ==
    /\ ~crashed /\ conn[c] = "silent"
    /\ conn' = [conn EXCEPT ![c] = "ready"]
    /\ UNCHANGED <<hostVars, backlog, srvVars, objVars, thrVars, crashed>>

\* a client asks the server to stop, as stopOpenGLRenderer does; whether it then
\* closes its connection makes no difference
SendExit(c) ==
    /\ ~crashed /\ conn[c] = "silent"
    /\ conn' = [conn EXCEPT ![c] = "exit"]
    /\ UNCHANGED <<hostVars, backlog, srvVars, objVars, thrVars, crashed>>

Close(c) ==
    /\ ~crashed /\ conn[c] \in {"silent", "ready"}
    /\ conn' = [conn EXCEPT ![c] = IF @ = "silent" THEN "gone" ELSE "done"]
    /\ UNCHANGED <<hostVars, backlog, srvVars, objVars, thrVars, crashed>>

-----------------------------------------------------------------------------
(* RenderServer::Main *)

Accept ==
    /\ ~crashed /\ spc = "accept" /\ backlog # <<>>
    /\ cur' = Head(backlog)
    /\ backlog' = Tail(backlog)
    /\ spc' = "flags"
    /\ UNCHANGED <<hostVars, conn, srvLive, srvRunning, rt, threads, scan,
                   objVars, thrVars, crashed>>

\* "Error accepting connection, aborting": the loop is left
AcceptFails ==
    /\ ~crashed /\ spc = "accept"
    /\ spc' = "wait" /\ scan' = threads
    /\ UNCHANGED <<hostVars, connVars, srvLive, srvRunning, cur, rt, threads,
                   objVars, thrVars, crashed>>

\* the clientFlags that are read have IOSTREAM_CLIENT_EXIT_SERVER set
AsksExit == cur = Exit \/ (cur \in Conns /\ conn[cur] = "exit")

\* mutant: IOSTREAM_CLIENT_EXIT_SERVER is not recognised
ReadFlagsIgnoringExit ==
    /\ ~crashed /\ spc = "flags"
    /\ \/ /\ AsksExit \/ (cur \in Conns /\ conn[cur] = "gone")
          /\ spc' = "accept" /\ cur' = NoConn /\ UNCHANGED scan
       \/ /\ cur \in Conns /\ conn[cur] \in {"ready", "done"}
          /\ spc' = "start" /\ UNCHANGED <<cur, scan>>
    /\ UNCHANGED <<hostVars, connVars, srvLive, srvRunning, rt, threads,
                   objVars, thrVars, crashed>>

\* mutant: a client that closes without sending its flags is waited for
ReadFlagsForEver ==
    /\ ~crashed /\ spc = "flags"
    /\ \/ /\ AsksExit
          /\ spc' = "wait" /\ scan' = threads /\ cur' = NoConn
       \/ /\ cur \in Conns /\ conn[cur] \in {"ready", "done"}
          /\ spc' = "start" /\ UNCHANGED <<cur, scan>>
    /\ UNCHANGED <<hostVars, connVars, srvLive, srvRunning, rt, threads,
                   objVars, thrVars, crashed>>

\* readFully(&clientFlags) blocks until the client has sent them or closed
ReadFlags ==
    /\ ~crashed /\ spc = "flags"
    /\ \/ /\ AsksExit
          /\ spc' = "wait" /\ scan' = threads /\ cur' = NoConn
       \/ /\ cur \in Conns /\ conn[cur] = "gone"
          /\ spc' = "accept" /\ cur' = NoConn /\ UNCHANGED scan
       \/ /\ cur \in Conns /\ conn[cur] \in {"ready", "done"}
          /\ spc' = "start" /\ UNCHANGED <<cur, scan>>
    /\ UNCHANGED <<hostVars, connVars, srvLive, srvRunning, rt, threads,
                   objVars, thrVars, crashed>>

\* RenderThread::create, and start() up to the release of m_lock
StartThread(a) ==
    /\ ~crashed /\ spc = "start" /\ a \in Allocatable
    /\ rt' = a
    /\ mem' = [mem EXCEPT ![a] = "live"]
    /\ running' = [running EXCEPT ![a] = TRUE]
    /\ finished' = [finished EXCEPT ![a] = FALSE]
    /\ owner' = [owner EXCEPT ![a] = cur]
    /\ addr' = [addr EXCEPT ![cur] = a]
    /\ tpc' = [tpc EXCEPT ![cur] = "main"]
    /\ spc' = "started"
    /\ UNCHANGED <<hostVars, connVars, srvLive, srvRunning, cur, threads, scan, crashed>>

\* mutant: the pointer is reset after the delete, and inserted
StartFailsNull(a) ==
    /\ ~crashed /\ spc = "start" /\ a \in Allocatable
    /\ rt' = NoAddr
    /\ mem' = [mem EXCEPT ![a] = "freed"]
    /\ conn' = [conn EXCEPT ![cur] = "done"]
    /\ spc' = "reap" /\ scan' = threads
    /\ UNCHANGED <<hostVars, backlog, srvLive, srvRunning, cur, threads,
                   running, finished, owner, thrVars, crashed>>

\* pthread_create fails: stream and object are deleted, and the object is
\* inserted all the same
StartFails(a) ==
    /\ ~crashed /\ spc = "start" /\ a \in Allocatable
    /\ rt' = a
    /\ mem' = [mem EXCEPT ![a] = "freed"]
    /\ running' = [running EXCEPT ![a] = FALSE]
    /\ finished' = [finished EXCEPT ![a] = FALSE]
    /\ owner' = [owner EXCEPT ![a] = NoConn]
    /\ conn' = [conn EXCEPT ![cur] = "done"]
    /\ spc' = "reap" /\ scan' = threads
    /\ UNCHANGED <<hostVars, backlog, srvLive, srvRunning, cur, threads,
                   thrVars, crashed>>

\* start()'s "return m_isRunning", read after the lock was released: FALSE if
\* the new thread has already been through its epilogue
StartReturns ==
    /\ ~crashed /\ spc = "started"
    /\ \E ok \in Load(running, rt) :
          IF ok THEN UNCHANGED <<conn, mem, crashed>>
                ELSE conn' = [conn EXCEPT ![cur] = "done"] /\ Delete(rt)
    /\ spc' = "reap" /\ scan' = threads
    /\ UNCHANGED <<hostVars, backlog, srvLive, srvRunning, cur, rt, threads,
                   running, finished, owner, thrVars>>

\* mutant: the loop does not ask isFinished()
ReapUnconditionally(a) ==
    /\ ~crashed /\ spc = "reap" /\ a \in scan
    /\ scan' = scan \ {a} /\ threads' = threads \ {a} /\ Delete(a)
    /\ UNCHANGED <<hostVars, connVars, spc, srvLive, srvRunning, cur, rt,
                   running, finished, owner, thrVars>>

\* one iteration of the loop that deletes the finished threads
Reap(a) ==
    /\ ~crashed /\ spc = "reap" /\ a \in scan
    /\ scan' = scan \ {a}
    /\ \E isFinished \in Load(finished, a) :
          IF isFinished THEN Delete(a) /\ threads' = threads \ {a}
                        ELSE UNCHANGED <<mem, threads, crashed>>
    /\ UNCHANGED <<hostVars, connVars, spc, srvLive, srvRunning, cur, rt,
                   running, finished, owner, thrVars>>

\* mutant: the new thread is not remembered
InsertForgotten ==
    /\ ~crashed /\ spc = "reap" /\ scan = {}
    /\ rt' = NoAddr /\ cur' = NoConn
    /\ spc' = "accept"
    /\ UNCHANGED <<hostVars, connVars, srvLive, srvRunning, threads, scan, objVars, thrVars,
                   crashed>>

Insert ==
    /\ ~crashed /\ spc = "reap" /\ scan = {}
    /\ threads' = threads \cup {rt}
    /\ rt' = NoAddr /\ cur' = NoConn
    /\ spc' = "accept"
    /\ UNCHANGED <<hostVars, connVars, srvLive, srvRunning, scan, objVars, thrVars, crashed>>

\* (*t)->wait() finds m_isRunning false and returns at once; delete (*t)
WaitReturns(a) ==
    /\ ~crashed /\ spc = "wait" /\ a \in scan
    /\ FALSE \in Load(running, a)
    /\ Delete(a)
    /\ scan' = scan \ {a}
    /\ UNCHANGED <<hostVars, connVars, spc, srvLive, srvRunning, cur, rt, threads,
                   running, finished, owner, thrVars>>

\* (*t)->wait() finds m_isRunning true and goes on to pthread_join
WaitJoins(a) ==
    /\ ~crashed /\ spc = "wait" /\ a \in scan
    /\ TRUE \in Load(running, a)
    /\ rt' = a /\ spc' = "join"
    /\ crashed' = (owner[a] = NoConn)   \* m_thread was never set: garbage
    /\ UNCHANGED <<hostVars, connVars, srvLive, srvRunning, cur, threads, scan,
                   objVars, thrVars>>

\* pthread_join returns once the thread has exited; delete (*t)
Joined ==
    /\ ~crashed /\ spc = "join" /\ tpc[owner[rt]] = "exited"
    /\ Delete(rt)
    /\ scan' = scan \ {rt}
    /\ rt' = NoAddr /\ spc' = "wait"
    /\ UNCHANGED <<hostVars, connVars, srvLive, srvRunning, cur, threads,
                   running, finished, owner, thrVars>>

\* threads.clear(); FrameBuffer::finalize(); return from Main
Finalize ==
    /\ ~crashed /\ spc = "wait" /\ scan = {}
    /\ threads' = {} /\ fb' = FALSE
    /\ spc' = "epilogue"
    /\ UNCHANGED <<host, inits, listening, connVars, srvLive, srvRunning, cur, rt,
                   scan, objVars, thrVars, crashed>>

\* thread_main of the server: m_isRunning = false under m_lock
ServerEpilogue ==
    /\ ~crashed /\ spc = "epilogue"
    /\ spc' = "unlock" /\ srvRunning' = FALSE
    /\ UNCHANGED <<hostVars, connVars, srvLive, cur, rt, threads, scan,
                   objVars, thrVars, crashed>>

\* ... and the release of m_lock, the last use of the RenderServer object
ServerUnlock ==
    /\ ~crashed /\ spc = "unlock"
    /\ spc' = "dead"
    /\ \/ UNCHANGED crashed
       \/ ~srvLive /\ crashed' = TRUE
    /\ UNCHANGED <<hostVars, connVars, srvLive, srvRunning, cur, rt, threads, scan,
                   objVars, thrVars>>

-----------------------------------------------------------------------------
(* RenderThread::Main and Thread::thread_main *)

\* a store or a lock operation on a freed object may kill the process
MayFault(c) == \/ UNCHANGED crashed
               \/ mem[addr[c]] # "live" /\ crashed' = TRUE

\* getData() returns <= 0: the stream ended; the EGL context is released and
\* m_finished is set
LeaveMain(c) ==
    /\ ~crashed /\ tpc[c] = "main" /\ conn[c] = "done"
    /\ tpc' = [tpc EXCEPT ![c] = "epilogue"]
    /\ finished' = Stored(finished, addr[c], TRUE)
    /\ MayFault(c)
    /\ UNCHANGED <<hostVars, connVars, srvVars, mem, running, owner, addr>>

\* getData() fails to grow the buffer and returns -1: Main is left while the
\* client is connected, and its stream is not closed, so it stays so unread
GetDataFails(c) ==
    /\ ~crashed /\ tpc[c] = "main" /\ conn[c] # "done"
    /\ tpc' = [tpc EXCEPT ![c] = "epilogue"]
    /\ finished' = Stored(finished, addr[c], TRUE)
    /\ MayFault(c)
    /\ UNCHANGED <<hostVars, connVars, srvVars, mem, running, owner, addr>>

\* lock(&self->m_lock); self->m_isRunning = false
Epilogue(c) ==
    /\ ~crashed /\ tpc[c] = "epilogue"
    /\ tpc' = [tpc EXCEPT ![c] = "unlock"]
    /\ running' = Stored(running, addr[c], FALSE)
    /\ MayFault(c)
    /\ UNCHANGED <<hostVars, connVars, srvVars, mem, finished, owner, addr>>

\* unlock(&self->m_lock); the thread exits
Unlock(c) ==
    /\ ~crashed /\ tpc[c] = "unlock"
    /\ tpc' = [tpc EXCEPT ![c] = "exited"]
    /\ MayFault(c)
    /\ UNCHANGED <<hostVars, connVars, srvVars, objVars, addr>>

-----------------------------------------------------------------------------
\* the process is dead, or the application has ended its main()
Terminated ==
    /\ crashed \/ host = "out"
    /\ UNCHANGED vars

Host == InitFrameBufferFails \/ InitListenFails \/ InitOpenGLRenderer
          \/ StopConnect \/ StopCheck \/ StopJoin

Server == Accept \/ ReadFlags \/ StartReturns \/ Insert \/ Joined \/ Finalize
            \/ ServerEpilogue \/ ServerUnlock
            \/ (\E a \in Addrs : StartThread(a) \/ Reap(a) \/ WaitReturns(a) \/ WaitJoins(a))

Faults == \/ AcceptFails
          \/ \E a \in Addrs : StartFails(a)
          \/ \E c \in Conns : GetDataFails(c)

Client(c) == Connect(c) \/ SendFlags(c) \/ SendExit(c) \/ Close(c)

Thread(c) == LeaveMain(c) \/ Epilogue(c) \/ Unlock(c)

Next == \/ Host \/ Server \/ Faults
        \/ \E c \in Conns : Client(c) \/ Thread(c)
        \/ Terminated

\* The operating system schedules the threads of the process; nothing obliges
\* a client, or the application, to act.
Fairness == /\ WF_vars(StopCheck) /\ WF_vars(StopJoin)
            /\ WF_vars(Server)
            /\ \A c \in Conns : WF_vars(Thread(c))

Spec == Init /\ [][Next]_vars /\ Fairness

-----------------------------------------------------------------------------
TypeOK ==
    /\ host \in HostPCs /\ inits \in 0..MaxInits
    /\ fb \in BOOLEAN /\ listening \in BOOLEAN
    /\ backlog \in Seq(Conns \cup {Exit})
    /\ conn \in [Conns -> ConnStates]
    /\ spc \in SrvPCs /\ srvLive \in BOOLEAN /\ srvRunning \in BOOLEAN
    /\ cur \in Conns \cup {Exit, NoConn}
    /\ rt \in Addrs \cup {NoAddr}
    /\ threads \in SUBSET Addrs /\ scan \in SUBSET Addrs
    /\ mem \in [Addrs -> {"unused", "live", "freed"}]
    /\ running \in [Addrs -> BOOLEAN]
    /\ finished \in [Addrs -> BOOLEAN]
    /\ owner \in [Addrs -> Conns \cup {NoConn}]
    /\ addr \in [Conns -> Addrs \cup {NoAddr}]
    /\ tpc \in [Conns -> ThrPCs]
    /\ crashed \in BOOLEAN

\* "Wait for all threads to finish", then finalize (RenderServer.cpp:125-140):
\* once FrameBuffer::finalize has run, no render thread is inside
\* RenderThread::Main, where it would go on decoding into a FrameBuffer that
\* is gone.
FinalizeAfterThreads ==
    spc \in {"epilogue", "unlock", "dead"} => \A c \in Conns : tpc[c] # "main"

\* Whatever the races around m_finished and m_isRunning, the server never
\* deletes the RenderThread a thread is still running Main on: the decoder
\* state m_rcDec and m_stream outlive every command that is executed.
MainHasItsObject ==
    \A c \in Conns : tpc[c] = "main" => mem[addr[c]] = "live" /\ owner[addr[c]] = c

\* The store m_isRunning = false of Thread::thread_main comes after m_finished,
\* on which the server deletes the object: it may be late.  This says of a step
\* that such a late store does not hit an object that has since been allocated,
\* at the same address, for another thread (osThreadUnix.cpp:86).
NoStaleStore ==
    \A c \in Conns : tpc[c] = "epilogue" /\ tpc'[c] = "unlock" =>
        (mem[addr[c]] = "live" => owner[addr[c]] = c)

\* stopOpenGLRenderer returns, provided that every client that connected
\* eventually disconnects: neither the accept loop, nor the loop that joins
\* the render threads, nor a deleted thread blocks it.
StopCompletes ==
    []<>(\E c \in Conns : conn[c] \in {"silent", "ready"})
        \/ (host \in {"check", "join"} ~> (host = "out" \/ crashed))

\* A client that sent its clientFlags gets a render thread, unless one of the
\* two closes the connection, the server is asked to stop, accept() fails, or
\* some client stays connected without ever sending its clientFlags (the accept
\* loop reads them synchronously).
ClientsAreServed ==
    \A c \in Conns :
        (conn[c] = "ready") ~>
            \/ tpc[c] # "none" \/ conn[c] = "done" \/ crashed
            \/ spc \notin {"accept", "flags", "start", "started", "reap"}
            \/ \E d \in Conns : conn[d] = "silent"
=============================================================================
