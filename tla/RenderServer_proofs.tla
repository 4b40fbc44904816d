------------------------ MODULE RenderServer_proofs ------------------------
(***************************************************************************)
(* Proofs about RenderServer for any number of connections and addresses,  *)
(* with any allocator.  Type correctness holds always.  That the           *)
(* FrameBuffer is finalized only after every render thread has left Main,  *)
(* and that no thread's object is deleted under it, hold until a thread's  *)
(* late store into its deleted RenderThread hits the RenderThread of       *)
(* another (NoStaleStore): that store is the only thing that can break     *)
(* them, and the run RenderServer_reuse shows that it does.                *)
(*                                                                         *)
(* The argument: a thread inside Main owns a live object whose m_isRunning *)
(* is true and m_finished false, so that neither the reaping loop nor      *)
(* start() nor wait() takes it for dead; and while the server has not      *)
(* reached its last loop that object is in the thread list or is about to  *)
(* be inserted, and afterwards it is among those still to be joined.       *)
(***************************************************************************)
EXTENDS RenderServer, TLAPS

\* RenderServer::Main handles a client's connection
CurIsClient == spc \in {"start", "started", "reap"} => cur \in Conns

\* it holds a RenderThread, or waits for one
RtIsObject == spc \in {"started", "reap", "join"} => rt \in Addrs

TInv == TypeOK /\ CurIsClient /\ RtIsObject

\* a connection is waited for, then queued once, then handled, and only then
\* has a thread
Queue ==
    /\ \A c \in Conns : conn[c] = "idle" =>
          /\ \A i \in 1 .. Len(backlog) : backlog[i] # c
          /\ cur # c /\ tpc[c] = "none"
    /\ \A i \in 1 .. Len(backlog) : backlog[i] \in Conns =>
          tpc[backlog[i]] = "none" /\ cur # backlog[i]
    /\ \A i, j \in 1 .. Len(backlog) :
          backlog[i] \in Conns /\ backlog[i] = backlog[j] => i = j
    /\ spc \in {"flags", "start"} /\ cur \in Conns => tpc[cur] = "none"

\* each thread inside Main has an object of its own, alive and marked as running
Objects ==
    \A c \in Conns : tpc[c] = "main" =>
        /\ addr[c] \in Addrs
        /\ owner[addr[c]] = c
        /\ mem[addr[c]] = "live"
        /\ running[addr[c]] = TRUE /\ finished[addr[c]] = FALSE

\* the server still knows every thread that is inside Main
Covered ==
    /\ ~listening => spc = "none"
    /\ \A c \in Conns : tpc[c] = "main" =>
          /\ spc \notin {"none", "epilogue", "unlock", "dead"}
          /\ spc \in {"accept", "flags", "start"} => addr[c] \in threads
          /\ spc \in {"started", "reap"} => addr[c] \in threads \cup {rt}
          /\ spc \in {"wait", "join"} => addr[c] \in scan

IInv == TInv /\ Queue /\ Objects /\ Covered

\* Using a freed object kills the process or does not (MayFault).
LEMMA FaultType == ASSUME TInv, NEW c \in Conns, MayFault(c) PROVE crashed' \in BOOLEAN
  <1>1. crashed' = crashed \/ crashed' = TRUE
    BY DEF MayFault
  <1> QED BY <1>1 DEF TInv, TypeOK

\* The types of all variables are preserved by every step.
LEMMA TypeStep == TInv /\ [Next]_vars => TInv'
  <1> SUFFICES ASSUME TInv, [Next]_vars PROVE TInv'
    OBVIOUS
  <1> USE DEF TInv, TypeOK, CurIsClient, RtIsObject, HostPCs, SrvPCs, ThrPCs, ConnStates,
              hostVars, connVars, srvVars, objVars, thrVars
  <1>1. CASE InitFrameBufferFails
    BY <1>1, InitsAssumption DEF InitFrameBufferFails
  <1>2. CASE InitListenFails
    BY <1>2, InitsAssumption DEF InitListenFails
  <1>3. CASE InitOpenGLRenderer
    BY <1>3, InitsAssumption DEF InitOpenGLRenderer
  <1>4. CASE StopConnect
    BY <1>4 DEF StopConnect
  <1>5. CASE StopCheck
    BY <1>5 DEF StopCheck
  <1>6. CASE StopJoin
    BY <1>6 DEF StopJoin
  <1>7. ASSUME NEW c \in Conns, Connect(c) PROVE TInv'
    BY <1>7 DEF Connect
  <1>8. ASSUME NEW c \in Conns, SendFlags(c) PROVE TInv'
    BY <1>8 DEF SendFlags
  <1>9. ASSUME NEW c \in Conns, Close(c) PROVE TInv'
    BY <1>9 DEF Close
  <1>10. CASE Accept
    BY <1>10 DEF Accept
  <1>11. CASE AcceptFails
    BY <1>11 DEF AcceptFails
  <1>12. CASE ReadFlags
    BY <1>12 DEF ReadFlags
  <1>13. ASSUME NEW a \in Addrs, StartThread(a) PROVE TInv'
    BY <1>13 DEF StartThread, Allocatable
  <1>14. ASSUME NEW a \in Addrs, StartFails(a) PROVE TInv'
    BY <1>14 DEF StartFails, Allocatable
  <1>15. CASE StartReturns
    BY <1>15 DEF StartReturns, Delete, Load
  <1>16. ASSUME NEW a \in Addrs, Reap(a) PROVE TInv'
    BY <1>16 DEF Reap, Delete, Load
  <1>17. CASE Insert
    BY <1>17 DEF Insert
  <1>18. ASSUME NEW a \in Addrs, WaitReturns(a) PROVE TInv'
    BY <1>18 DEF WaitReturns, Delete
  <1>19. ASSUME NEW a \in Addrs, WaitJoins(a) PROVE TInv'
    BY <1>19 DEF WaitJoins
  <1>20. CASE Joined
    BY <1>20 DEF Joined, Delete
  <1>21. CASE Finalize
    BY <1>21 DEF Finalize
  <1>22. CASE ServerEpilogue
    BY <1>22 DEF ServerEpilogue
  <1>23. CASE ServerUnlock
    BY <1>23 DEF ServerUnlock
  <1>24. ASSUME NEW c \in Conns, LeaveMain(c) PROVE TInv'
    <2>1. crashed' \in BOOLEAN
      BY <1>24, FaultType DEF LeaveMain
    <2>2. finished' \in [Addrs -> BOOLEAN]
      BY <1>24 DEF LeaveMain, Stored
    <2>3. /\ tpc' = [tpc EXCEPT ![c] = "epilogue"]
          /\ UNCHANGED <<hostVars, connVars, srvVars, mem, running, owner, addr>>
      BY <1>24 DEF LeaveMain
    <2> QED BY <2>1, <2>2, <2>3
  <1>25. ASSUME NEW c \in Conns, Epilogue(c) PROVE TInv'
    <2>1. crashed' \in BOOLEAN
      BY <1>25, FaultType DEF Epilogue
    <2>2. running' \in [Addrs -> BOOLEAN]
      BY <1>25 DEF Epilogue, Stored
    <2>3. /\ tpc' = [tpc EXCEPT ![c] = "unlock"]
          /\ UNCHANGED <<hostVars, connVars, srvVars, mem, finished, owner, addr>>
      BY <1>25 DEF Epilogue
    <2> QED BY <2>1, <2>2, <2>3
  <1>26. ASSUME NEW c \in Conns, Unlock(c) PROVE TInv'
    <2>1. crashed' \in BOOLEAN
      BY <1>26, FaultType DEF Unlock
    <2> QED BY <1>26, <2>1 DEF Unlock
  <1>27. CASE UNCHANGED vars
    BY <1>27 DEF vars
  <1>28. ASSUME NEW c \in Conns, SendExit(c) PROVE TInv'
    BY <1>28 DEF SendExit
  <1>29. ASSUME NEW c \in Conns, GetDataFails(c) PROVE TInv'
    <2>1. crashed' \in BOOLEAN
      BY <1>29, FaultType DEF GetDataFails
    <2>2. finished' \in [Addrs -> BOOLEAN]
      BY <1>29 DEF GetDataFails, Stored
    <2>3. /\ tpc' = [tpc EXCEPT ![c] = "epilogue"]
          /\ UNCHANGED <<hostVars, connVars, srvVars, mem, running, owner, addr>>
      BY <1>29 DEF GetDataFails
    <2> QED BY <2>1, <2>2, <2>3
  <1> QED BY <1>1, <1>2, <1>3, <1>4, <1>5, <1>6, <1>7, <1>8, <1>9, <1>10, <1>11, <1>12, <1>13, <1>14, <1>15, <1>16, <1>17, <1>18, <1>19, <1>20, <1>21, <1>22, <1>23, <1>24, <1>25, <1>26, <1>27, <1>28, <1>29
    DEF Next, Host, Server, Faults, Client, Thread, Terminated

\* The renderer starts with everything off.
LEMMA InitIInv == Init => IInv
  <1> SUFFICES ASSUME Init PROVE IInv
    OBVIOUS
  <1>1. TInv
    <2>1. backlog \in Seq(Conns \cup {Exit}) /\ inits \in 0 .. MaxInits
      BY InitsAssumption DEF Init
    <2>2. /\ mem \in [Addrs -> {"unused", "live", "freed"}]
          /\ running \in [Addrs -> BOOLEAN] /\ finished \in [Addrs -> BOOLEAN]
          /\ owner \in [Addrs -> Conns \cup {NoConn}]
          /\ addr \in [Conns -> Addrs \cup {NoAddr}]
          /\ tpc \in [Conns -> ThrPCs] /\ conn \in [Conns -> ConnStates]
      BY DEF Init, ThrPCs, ConnStates
    <2>3. TypeOK
      BY <2>1, <2>2 DEF Init, TypeOK, HostPCs, SrvPCs
    <2> QED BY <2>3 DEF Init, TInv, CurIsClient, RtIsObject
  <1>2. Queue
    BY ConnsAssumption DEF Init, Queue
  <1>3. Objects
    BY DEF Init, Objects
  <1>4. Covered
    BY DEF Init, Covered
  <1> QED BY <1>1, <1>2, <1>3, <1>4 DEF IInv

\* Variables keep their types for ever.
THEOREM TypeCorrectness == Spec => []TypeOK
  <1>1. Init => TInv
    BY InitIInv DEF IInv
  <1>2. TInv => TypeOK
    BY DEF TInv
  <1> QED BY <1>1, <1>2, TypeStep, PTL DEF Spec

-----------------------------------------------------------------------------
(* Queue *)

\* a step that does not enqueue, dequeue or start a thread
LEMMA QueueFrame ==
    ASSUME TInv, Queue, UNCHANGED backlog,
           \A c \in Conns : conn'[c] = "idle" => conn[c] = "idle",
           \A c \in Conns : tpc[c] = "none" => tpc'[c] = "none",
           cur' \in {cur, NoConn},
           spc' \in {"flags", "start"} => spc \in {"flags", "start"} /\ cur' = cur
    PROVE  Queue'
  BY ConnsAssumption DEF TInv, TypeOK, Queue

\* a client's connection is queued, and only once
LEMMA QueueConnect ==
    ASSUME TInv, Queue, NEW c \in Conns, Connect(c)
    PROVE  Queue'
  <1>1. /\ conn[c] = "idle" /\ conn' = [conn EXCEPT ![c] = "silent"]
        /\ backlog' = Append(backlog, c)
        /\ UNCHANGED <<cur, tpc, spc>>
    BY DEF Connect, srvVars, thrVars
  <1>2. /\ Len(backlog) \in Nat /\ Len(backlog') = Len(backlog) + 1
        /\ backlog'[Len(backlog) + 1] = c
        /\ \A i \in 1 .. Len(backlog) : backlog'[i] = backlog[i]
    BY <1>1 DEF TInv, TypeOK
  <1>3. \A i \in 1 .. Len(backlog') : i \in 1 .. Len(backlog) \/ i = Len(backlog) + 1
    BY <1>2
  <1>4. \A d \in Conns : conn'[d] = "idle" => conn[d] = "idle" /\ d # c
    BY <1>1 DEF TInv, TypeOK
  <1> QED BY <1>1, <1>2, <1>3, <1>4 DEF Queue

\* the dummy connection is queued
LEMMA QueueStopConnect ==
    ASSUME TInv, Queue, StopConnect
    PROVE  Queue'
  <1>1. /\ backlog' = Append(backlog, Exit)
        /\ UNCHANGED <<conn, cur, tpc, spc>>
    BY DEF StopConnect, srvVars, thrVars
  <1>2. /\ Len(backlog) \in Nat /\ Len(backlog') = Len(backlog) + 1
        /\ backlog'[Len(backlog) + 1] = Exit
        /\ \A i \in 1 .. Len(backlog) : backlog'[i] = backlog[i]
    BY <1>1 DEF TInv, TypeOK
  <1>3. \A i \in 1 .. Len(backlog') : i \in 1 .. Len(backlog) \/ i = Len(backlog) + 1
    BY <1>2
  <1> QED BY <1>1, <1>2, <1>3, ConnsAssumption DEF Queue

\* the head of the queue becomes the connection that is handled
LEMMA QueueAccept ==
    ASSUME TInv, Queue, Accept
    PROVE  Queue'
  <1>1. /\ backlog # <<>> /\ cur' = Head(backlog) /\ backlog' = Tail(backlog)
        /\ UNCHANGED <<conn, tpc>> /\ spc' = "flags"
    BY DEF Accept, thrVars
  <1>2. /\ Len(backlog) \in Nat /\ Len(backlog) > 0 /\ Len(backlog') = Len(backlog) - 1
        /\ cur' = backlog[1]
        /\ \A i \in 1 .. Len(backlog') : backlog'[i] = backlog[i + 1]
                                          /\ i + 1 \in 1 .. Len(backlog) /\ i + 1 # 1
    BY <1>1 DEF TInv, TypeOK
  <1>3. 1 \in 1 .. Len(backlog)
    BY <1>2
  <1>4. \A i, j \in 1 .. Len(backlog') : i + 1 = j + 1 => i = j
    BY <1>2
  <1> QED BY <1>1, <1>2, <1>3, <1>4 DEF Queue

\* the connection that is handled, in no queue, gets its thread
LEMMA QueueStartThread ==
    ASSUME TInv, Queue, NEW a \in Addrs, StartThread(a)
    PROVE  Queue'
  <1>1. /\ spc = "start" /\ spc' = "started" /\ cur \in Conns
        /\ tpc' = [tpc EXCEPT ![cur] = "main"]
        /\ UNCHANGED <<conn, backlog, cur>>
    BY DEF StartThread, connVars, TInv, CurIsClient
  <1>2. \A c \in Conns : c # cur => tpc'[c] = tpc[c]
    BY <1>1 DEF TInv, TypeOK
  <1> QED BY <1>1, <1>2 DEF Queue

\* Every step keeps the queue in order.
LEMMA QueueStep == TInv /\ Queue /\ [Next]_vars => Queue'
  <1> SUFFICES ASSUME TInv, Queue, [Next]_vars PROVE Queue'
    OBVIOUS
  <1> USE DEF hostVars, connVars, srvVars, objVars, thrVars
  <1>1. CASE InitFrameBufferFails
    BY <1>1, QueueFrame DEF InitFrameBufferFails
  <1>2. CASE InitListenFails
    BY <1>2, QueueFrame DEF InitListenFails
  <1>3. CASE InitOpenGLRenderer
    BY <1>3, QueueFrame DEF InitOpenGLRenderer
  <1>4. CASE StopConnect
    BY <1>4, QueueStopConnect
  <1>5. CASE StopCheck
    BY <1>5, QueueFrame DEF StopCheck
  <1>6. CASE StopJoin
    BY <1>6, QueueFrame DEF StopJoin
  <1>7. ASSUME NEW c \in Conns, Connect(c) PROVE Queue'
    BY <1>7, QueueConnect
  <1>8. ASSUME NEW c \in Conns, SendFlags(c) PROVE Queue'
    BY <1>8, QueueFrame DEF SendFlags, TInv, TypeOK
  <1>9. ASSUME NEW c \in Conns, Close(c) PROVE Queue'
    BY <1>9, QueueFrame DEF Close, TInv, TypeOK
  <1>10. CASE Accept
    BY <1>10, QueueAccept
  <1>11. CASE AcceptFails
    BY <1>11, QueueFrame DEF AcceptFails
  <1>12. CASE ReadFlags
    BY <1>12, QueueFrame DEF ReadFlags
  <1>13. ASSUME NEW a \in Addrs, StartThread(a) PROVE Queue'
    BY <1>13, QueueStartThread
  <1>14. ASSUME NEW a \in Addrs, StartFails(a) PROVE Queue'
    BY <1>14, QueueFrame DEF StartFails, TInv, TypeOK
  <1>15. CASE StartReturns
    BY <1>15, QueueFrame DEF StartReturns, TInv, TypeOK
  <1>16. ASSUME NEW a \in Addrs, Reap(a) PROVE Queue'
    BY <1>16, QueueFrame DEF Reap
  <1>17. CASE Insert
    BY <1>17, QueueFrame DEF Insert
  <1>18. ASSUME NEW a \in Addrs, WaitReturns(a) PROVE Queue'
    BY <1>18, QueueFrame DEF WaitReturns
  <1>19. ASSUME NEW a \in Addrs, WaitJoins(a) PROVE Queue'
    BY <1>19, QueueFrame DEF WaitJoins
  <1>20. CASE Joined
    BY <1>20, QueueFrame DEF Joined
  <1>21. CASE Finalize
    BY <1>21, QueueFrame DEF Finalize
  <1>22. CASE ServerEpilogue
    BY <1>22, QueueFrame DEF ServerEpilogue
  <1>23. CASE ServerUnlock
    BY <1>23, QueueFrame DEF ServerUnlock
  <1>24. ASSUME NEW c \in Conns, LeaveMain(c) PROVE Queue'
    BY <1>24, QueueFrame DEF LeaveMain, TInv, TypeOK
  <1>25. ASSUME NEW c \in Conns, Epilogue(c) PROVE Queue'
    BY <1>25, QueueFrame DEF Epilogue, TInv, TypeOK
  <1>26. ASSUME NEW c \in Conns, Unlock(c) PROVE Queue'
    BY <1>26, QueueFrame DEF Unlock, TInv, TypeOK
  <1>27. CASE UNCHANGED vars
    BY <1>27, QueueFrame DEF vars
  <1>28. ASSUME NEW c \in Conns, SendExit(c) PROVE Queue'
    BY <1>28, QueueFrame DEF SendExit, TInv, TypeOK
  <1>29. ASSUME NEW c \in Conns, GetDataFails(c) PROVE Queue'
    BY <1>29, QueueFrame DEF GetDataFails, TInv, TypeOK
  <1> QED BY <1>1, <1>2, <1>3, <1>4, <1>5, <1>6, <1>7, <1>8, <1>9, <1>10, <1>11, <1>12, <1>13, <1>14,
             <1>15, <1>16, <1>17, <1>18, <1>19, <1>20, <1>21, <1>22, <1>23, <1>24, <1>25, <1>26, <1>27, <1>28, <1>29
         DEF Next, Host, Server, Faults, Client, Thread, Terminated

-----------------------------------------------------------------------------
(* Objects *)

\* a step that starts no thread and touches no object of a thread inside Main
LEMMA ObjectsFrame ==
    ASSUME Objects, UNCHANGED <<addr, owner>>,
           \A c \in Conns : tpc'[c] = "main" =>
               /\ tpc[c] = "main"
               /\ mem'[addr[c]] = mem[addr[c]]
               /\ running'[addr[c]] = running[addr[c]]
               /\ finished'[addr[c]] = finished[addr[c]]
    PROVE  Objects'
  BY DEF Objects

\* deleting an object no thread inside Main runs on
LEMMA ObjectsDelete ==
    ASSUME TInv, Objects, NEW a \in Addrs, Delete(a),
           UNCHANGED <<addr, owner, tpc, running, finished>>,
           \A c \in Conns : tpc[c] = "main" => addr[c] # a
    PROVE  Objects'
  <1>1. \A b \in Addrs : mem'[b] = IF b = a THEN "freed" ELSE mem[b]
    BY DEF Delete, TInv, TypeOK
  <1>2. \A c \in Conns : tpc[c] = "main" => mem'[addr[c]] = mem[addr[c]]
    BY <1>1 DEF Objects
  <1> QED BY <1>2, ObjectsFrame

\* operator new does not return the address of a live object
LEMMA NewAddress ==
    ASSUME Objects, NEW a \in Allocatable
    PROVE  a \in Addrs /\ \A c \in Conns : tpc[c] = "main" => addr[c] # a
  BY DEF Allocatable, Objects

\* start() hands a new object to a new thread
LEMMA ObjectsStartThread ==
    ASSUME TInv, Queue, Objects, NEW a \in Addrs, StartThread(a)
    PROVE  Objects'
  <1>1. /\ cur \in Conns /\ tpc[cur] = "none" /\ a \in Allocatable
        /\ mem' = [mem EXCEPT ![a] = "live"]
        /\ running' = [running EXCEPT ![a] = TRUE]
        /\ finished' = [finished EXCEPT ![a] = FALSE]
        /\ owner' = [owner EXCEPT ![a] = cur]
        /\ addr' = [addr EXCEPT ![cur] = a]
        /\ tpc' = [tpc EXCEPT ![cur] = "main"]
    BY DEF StartThread, TInv, CurIsClient, Queue
  <1>2. \A c \in Conns : tpc[c] = "main" => addr[c] # a
    BY <1>1, NewAddress
  <1>3. /\ \A c \in Conns : c # cur => addr'[c] = addr[c] /\ tpc'[c] = tpc[c]
        /\ addr'[cur] = a /\ tpc'[cur] = "main"
    BY <1>1 DEF TInv, TypeOK
  <1>4. /\ \A b \in Addrs : b # a =>
              /\ mem'[b] = mem[b] /\ owner'[b] = owner[b]
              /\ running'[b] = running[b] /\ finished'[b] = finished[b]
        /\ mem'[a] = "live" /\ owner'[a] = cur
        /\ running'[a] = TRUE /\ finished'[a] = FALSE
    BY <1>1 DEF TInv, TypeOK
  <1> SUFFICES ASSUME NEW c \in Conns, tpc'[c] = "main"
               PROVE  /\ addr'[c] \in Addrs /\ owner'[addr'[c]] = c
                      /\ mem'[addr'[c]] = "live"
                      /\ running'[addr'[c]] = TRUE /\ finished'[addr'[c]] = FALSE
    BY DEF Objects
  <1>5. CASE c = cur
    BY <1>5, <1>3, <1>4
  <1>6. CASE c # cur
    <2>1. /\ tpc[c] = "main" /\ addr'[c] = addr[c] /\ addr[c] \in Addrs /\ addr[c] # a
      BY <1>6, <1>2, <1>3 DEF Objects
    <2> QED BY <2>1, <1>4 DEF Objects
  <1> QED BY <1>5, <1>6

\* pthread_create fails: the new object is gone and no thread has it
LEMMA ObjectsStartFails ==
    ASSUME TInv, Objects, NEW a \in Addrs, StartFails(a)
    PROVE  Objects'
  <1>1. /\ a \in Allocatable
        /\ mem' = [mem EXCEPT ![a] = "freed"]
        /\ running' = [running EXCEPT ![a] = FALSE]
        /\ finished' = [finished EXCEPT ![a] = FALSE]
        /\ owner' = [owner EXCEPT ![a] = NoConn]
        /\ UNCHANGED <<addr, tpc>>
    BY DEF StartFails, thrVars
  <1>2. \A c \in Conns : tpc[c] = "main" => addr[c] # a
    BY <1>1, NewAddress
  <1>3. \A b \in Addrs : b # a =>
            /\ mem'[b] = mem[b] /\ owner'[b] = owner[b]
            /\ running'[b] = running[b] /\ finished'[b] = finished[b]
    BY <1>1 DEF TInv, TypeOK
  <1> QED BY <1>1, <1>2, <1>3 DEF Objects

\* a thread leaves Main, which sets m_finished in its own object
LEMMA ObjectsLeaveMain ==
    ASSUME TInv, Objects, NEW c \in Conns, LeaveMain(c) \/ GetDataFails(c)
    PROVE  Objects'
  <1>1. /\ tpc[c] = "main" /\ tpc' = [tpc EXCEPT ![c] = "epilogue"]
        /\ finished' = Stored(finished, addr[c], TRUE)
        /\ UNCHANGED <<addr, owner, mem, running>>
    BY DEF LeaveMain, GetDataFails
  <1>2. \A b \in Addrs : b # addr[c] => finished'[b] = finished[b]
    BY <1>1 DEF Stored, TInv, TypeOK
  <1>3. \A d \in Conns : tpc'[d] = "main" =>
            tpc[d] = "main" /\ addr[d] \in Addrs /\ addr[d] # addr[c]
    BY <1>1 DEF Objects, TInv, TypeOK
  <1> QED BY <1>1, <1>2, <1>3, ObjectsFrame

\* its epilogue stores m_isRunning: into the object of another thread only if
\* the store is stale
LEMMA ObjectsEpilogue ==
    ASSUME TInv, Objects, NoStaleStore, NEW c \in Conns, Epilogue(c)
    PROVE  Objects'
  <1>1. /\ tpc[c] = "epilogue" /\ tpc' = [tpc EXCEPT ![c] = "unlock"]
        /\ running' = Stored(running, addr[c], FALSE)
        /\ UNCHANGED <<addr, owner, mem, finished>>
    BY DEF Epilogue
  <1>2. tpc'[c] = "unlock" /\ \A d \in Conns : tpc'[d] = "main" => tpc[d] = "main" /\ d # c
    BY <1>1 DEF TInv, TypeOK
  <1>3. mem[addr[c]] = "live" => owner[addr[c]] = c
    BY <1>1, <1>2 DEF NoStaleStore
  <1>4. \A d \in Conns : tpc'[d] = "main" =>
            tpc[d] = "main" /\ addr[d] \in Addrs /\ addr[d] # addr[c]
    BY <1>2, <1>3 DEF Objects
  <1>5. \A b \in Addrs : b # addr[c] => running'[b] = running[b]
    BY <1>1 DEF Stored, TInv, TypeOK
  <1> QED BY <1>1, <1>4, <1>5, ObjectsFrame

\* the release of m_lock changes no member
LEMMA ObjectsUnlock ==
    ASSUME TInv, Objects, NEW c \in Conns, Unlock(c)
    PROVE  Objects'
  <1>1. /\ tpc' = [tpc EXCEPT ![c] = "exited"]
        /\ UNCHANGED <<addr, owner, mem, finished, running>>
    BY DEF Unlock, objVars
  <1>2. \A d \in Conns : tpc'[d] = "main" => tpc[d] = "main"
    BY <1>1 DEF TInv, TypeOK
  <1> QED BY <1>1, <1>2, ObjectsFrame

\* Every step without a stale store keeps the objects of the threads inside Main.
LEMMA ObjectsStep == IInv /\ [Next]_vars /\ [NoStaleStore]_vars => Objects'
  <1> SUFFICES ASSUME IInv, [Next]_vars, [NoStaleStore]_vars PROVE Objects'
    OBVIOUS
  <1>0. TInv /\ Queue /\ Objects
    BY DEF IInv
  <1> USE DEF hostVars, connVars, srvVars, objVars, thrVars
  <1>1. CASE InitFrameBufferFails
    BY <1>0, <1>1, ObjectsFrame DEF InitFrameBufferFails
  <1>2. CASE InitListenFails
    BY <1>0, <1>2, ObjectsFrame DEF InitListenFails
  <1>3. CASE InitOpenGLRenderer
    BY <1>0, <1>3, ObjectsFrame DEF InitOpenGLRenderer
  <1>4. CASE StopConnect
    BY <1>0, <1>4, ObjectsFrame DEF StopConnect
  <1>5. CASE StopCheck
    BY <1>0, <1>5, ObjectsFrame DEF StopCheck
  <1>6. CASE StopJoin
    BY <1>0, <1>6, ObjectsFrame DEF StopJoin
  <1>7. ASSUME NEW c \in Conns, Connect(c) PROVE Objects'
    BY <1>0, <1>7, ObjectsFrame DEF Connect
  <1>8. ASSUME NEW c \in Conns, SendFlags(c) PROVE Objects'
    BY <1>0, <1>8, ObjectsFrame DEF SendFlags
  <1>9. ASSUME NEW c \in Conns, Close(c) PROVE Objects'
    BY <1>0, <1>9, ObjectsFrame DEF Close
  <1>10. CASE Accept
    BY <1>0, <1>10, ObjectsFrame DEF Accept
  <1>11. CASE AcceptFails
    BY <1>0, <1>11, ObjectsFrame DEF AcceptFails
  <1>12. CASE ReadFlags
    BY <1>0, <1>12, ObjectsFrame DEF ReadFlags
  <1>13. ASSUME NEW a \in Addrs, StartThread(a) PROVE Objects'
    BY <1>0, <1>13, ObjectsStartThread
  <1>14. ASSUME NEW a \in Addrs, StartFails(a) PROVE Objects'
    BY <1>0, <1>14, ObjectsStartFails
  <1>15. CASE StartReturns
    <2>1. rt \in Addrs /\ UNCHANGED <<addr, owner, tpc, running, finished>>
      BY <1>0, <1>15 DEF StartReturns, TInv, RtIsObject
    <2>2. PICK ok \in Load(running, rt) :
              IF ok THEN UNCHANGED <<conn, mem, crashed>>
                    ELSE conn' = [conn EXCEPT ![cur] = "done"] /\ Delete(rt)
      BY <1>15 DEF StartReturns
    <2>3. CASE ok
      BY <2>1, <2>2, <2>3, <1>0, ObjectsFrame
    <2>4. CASE ~ok
      <3>1. Delete(rt)
        BY <2>2, <2>4
      <3>2. \A c \in Conns : tpc[c] = "main" => addr[c] # rt
        BY <2>2, <2>4, <1>0 DEF Load, Objects
      <3> QED BY <2>1, <3>1, <3>2, <1>0, ObjectsDelete
    <2> QED BY <2>3, <2>4
  <1>16. ASSUME NEW a \in Addrs, Reap(a) PROVE Objects'
    <2>1. UNCHANGED <<addr, owner, tpc, running, finished>>
      BY <1>16 DEF Reap
    <2>2. PICK isFinished \in Load(finished, a) :
              IF isFinished THEN Delete(a) /\ threads' = threads \ {a}
                            ELSE UNCHANGED <<mem, threads, crashed>>
      BY <1>16 DEF Reap
    <2>3. CASE ~isFinished
      BY <2>1, <2>2, <2>3, <1>0, ObjectsFrame
    <2>4. CASE isFinished
      <3>1. Delete(a)
        BY <2>2, <2>4
      <3>2. \A c \in Conns : tpc[c] = "main" => addr[c] # a
        BY <2>2, <2>4, <1>0 DEF Load, Objects
      <3> QED BY <2>1, <3>1, <3>2, <1>0, ObjectsDelete
    <2> QED BY <2>3, <2>4
  <1>17. CASE Insert
    BY <1>0, <1>17, ObjectsFrame DEF Insert
  <1>18. ASSUME NEW a \in Addrs, WaitReturns(a) PROVE Objects'
    <2>1. Delete(a) /\ UNCHANGED <<addr, owner, tpc, running, finished>>
      BY <1>18 DEF WaitReturns
    <2>2. \A c \in Conns : tpc[c] = "main" => addr[c] # a
      BY <1>0, <1>18 DEF WaitReturns, Load, Objects
    <2> QED BY <1>0, <2>1, <2>2, ObjectsDelete
  <1>19. ASSUME NEW a \in Addrs, WaitJoins(a) PROVE Objects'
    BY <1>0, <1>19, ObjectsFrame DEF WaitJoins
  <1>20. CASE Joined
    <2>1. rt \in Addrs /\ Delete(rt) /\ UNCHANGED <<addr, owner, tpc, running, finished>>
      BY <1>0, <1>20 DEF Joined, TInv, RtIsObject
    <2>2. \A c \in Conns : tpc[c] = "main" => addr[c] # rt
      BY <1>0, <1>20 DEF Joined, Objects
    <2> QED BY <1>0, <2>1, <2>2, ObjectsDelete
  <1>21. CASE Finalize
    BY <1>0, <1>21, ObjectsFrame DEF Finalize
  <1>22. CASE ServerEpilogue
    BY <1>0, <1>22, ObjectsFrame DEF ServerEpilogue
  <1>23. CASE ServerUnlock
    BY <1>0, <1>23, ObjectsFrame DEF ServerUnlock
  <1>24. ASSUME NEW c \in Conns, LeaveMain(c) PROVE Objects'
    BY <1>0, <1>24, ObjectsLeaveMain
  <1>25. ASSUME NEW c \in Conns, Epilogue(c) PROVE Objects'
    <2>1. UNCHANGED vars => tpc' = tpc
      BY DEF vars
    <2>2. tpc[c] = "epilogue" /\ tpc' = [tpc EXCEPT ![c] = "unlock"]
      BY <1>25 DEF Epilogue
    <2>3. NoStaleStore
      BY <1>0, <2>1, <2>2 DEF TInv, TypeOK
    <2> QED BY <1>0, <1>25, <2>3, ObjectsEpilogue
  <1>26. ASSUME NEW c \in Conns, Unlock(c) PROVE Objects'
    BY <1>0, <1>26, ObjectsUnlock
  <1>27. CASE UNCHANGED vars
    BY <1>0, <1>27, ObjectsFrame DEF vars
  <1>28. ASSUME NEW c \in Conns, SendExit(c) PROVE Objects'
    BY <1>0, <1>28, ObjectsFrame DEF SendExit
  <1>29. ASSUME NEW c \in Conns, GetDataFails(c) PROVE Objects'
    BY <1>0, <1>29, ObjectsLeaveMain
  <1> QED BY <1>1, <1>2, <1>3, <1>4, <1>5, <1>6, <1>7, <1>8, <1>9, <1>10, <1>11, <1>12, <1>13, <1>14,
             <1>15, <1>16, <1>17, <1>18, <1>19, <1>20, <1>21, <1>22, <1>23, <1>24, <1>25, <1>26, <1>27, <1>28, <1>29
         DEF Next, Host, Server, Faults, Client, Thread, Terminated

-----------------------------------------------------------------------------
(* Covered *)

\* a step that neither starts a thread nor changes the server's lists
LEMMA CoveredFrame ==
    ASSUME Covered, UNCHANGED <<listening, spc, threads, scan, rt, addr>>,
           \A c \in Conns : tpc'[c] = "main" => tpc[c] = "main"
    PROVE  Covered'
  BY DEF Covered

\* Every step keeps the threads inside Main known to the server.
LEMMA CoveredStep == IInv /\ [Next]_vars => Covered'
  <1> SUFFICES ASSUME IInv, [Next]_vars PROVE Covered'
    OBVIOUS
  <1>0. TInv /\ Queue /\ Objects /\ Covered
    BY DEF IInv
  <1> USE DEF hostVars, connVars, srvVars, objVars, thrVars
  <1>1. CASE InitFrameBufferFails
    BY <1>0, <1>1, CoveredFrame DEF InitFrameBufferFails
  <1>2. CASE InitListenFails
    BY <1>0, <1>2, CoveredFrame DEF InitListenFails
  <1>3. CASE InitOpenGLRenderer
    BY <1>0, <1>3 DEF InitOpenGLRenderer, Covered
  <1>4. CASE StopConnect
    BY <1>0, <1>4, CoveredFrame DEF StopConnect
  <1>5. CASE StopCheck
    BY <1>0, <1>5, CoveredFrame DEF StopCheck
  <1>6. CASE StopJoin
    BY <1>0, <1>6, CoveredFrame DEF StopJoin
  <1>7. ASSUME NEW c \in Conns, Connect(c) PROVE Covered'
    BY <1>0, <1>7, CoveredFrame DEF Connect
  <1>8. ASSUME NEW c \in Conns, SendFlags(c) PROVE Covered'
    BY <1>0, <1>8, CoveredFrame DEF SendFlags
  <1>9. ASSUME NEW c \in Conns, Close(c) PROVE Covered'
    BY <1>0, <1>9, CoveredFrame DEF Close
  <1>10. CASE Accept
    BY <1>0, <1>10 DEF Accept, Covered
  <1>11. CASE AcceptFails
    BY <1>0, <1>11 DEF AcceptFails, Covered
  <1>12. CASE ReadFlags
    BY <1>0, <1>12 DEF ReadFlags, Covered
  <1>13. ASSUME NEW a \in Addrs, StartThread(a) PROVE Covered'
    <2>1. /\ spc = "start" /\ spc' = "started" /\ rt' = a /\ cur \in Conns
          /\ UNCHANGED <<listening, threads>>
      BY <1>0, <1>13 DEF StartThread, TInv, CurIsClient
    <2>2. /\ \A c \in Conns : c # cur => addr'[c] = addr[c] /\ tpc'[c] = tpc[c]
          /\ addr'[cur] = a
      BY <1>0, <1>13, <2>1 DEF StartThread, TInv, TypeOK
    <2> QED BY <1>0, <2>1, <2>2 DEF Covered
  <1>14. ASSUME NEW a \in Addrs, StartFails(a) PROVE Covered'
    BY <1>0, <1>14 DEF StartFails, Covered
  <1>15. CASE StartReturns
    <2>1. /\ spc = "started" /\ spc' = "reap" /\ UNCHANGED <<listening, threads, rt, addr, tpc>>
      BY <1>15 DEF StartReturns
    <2> QED BY <1>0, <2>1 DEF Covered
  <1>16. ASSUME NEW a \in Addrs, Reap(a) PROVE Covered'
    <2>1. /\ spc = "reap" /\ UNCHANGED <<listening, spc, rt, addr, tpc>>
      BY <1>16 DEF Reap
    <2>2. PICK isFinished \in Load(finished, a) :
              IF isFinished THEN Delete(a) /\ threads' = threads \ {a}
                            ELSE UNCHANGED <<mem, threads, crashed>>
      BY <1>16 DEF Reap
    <2>3. CASE ~isFinished
      <3>1. UNCHANGED threads
        BY <2>2, <2>3
      <3> QED BY <1>0, <2>1, <3>1 DEF Covered
    <2>4. CASE isFinished
      <3>1. threads' = threads \ {a}
        BY <2>2, <2>4
      <3>2. \A c \in Conns : tpc[c] = "main" => addr[c] # a
        BY <2>2, <2>4, <1>0 DEF Load, Objects
      <3> QED BY <1>0, <2>1, <3>1, <3>2 DEF Covered
    <2> QED BY <2>3, <2>4
  <1>17. CASE Insert
    BY <1>0, <1>17 DEF Insert, Covered
  <1>18. ASSUME NEW a \in Addrs, WaitReturns(a) PROVE Covered'
    <2>1. \A c \in Conns : tpc[c] = "main" => addr[c] # a
      BY <1>0, <1>18 DEF WaitReturns, Load, Objects
    <2> QED BY <1>0, <1>18, <2>1 DEF WaitReturns, Covered
  <1>19. ASSUME NEW a \in Addrs, WaitJoins(a) PROVE Covered'
    BY <1>0, <1>19 DEF WaitJoins, Covered
  <1>20. CASE Joined
    <2>1. \A c \in Conns : tpc[c] = "main" => addr[c] # rt
      BY <1>0, <1>20 DEF Joined, Objects
    <2> QED BY <1>0, <1>20, <2>1 DEF Joined, Covered
  <1>21. CASE Finalize
    BY <1>0, <1>21 DEF Finalize, Covered
  <1>22. CASE ServerEpilogue
    BY <1>0, <1>22 DEF ServerEpilogue, Covered
  <1>23. CASE ServerUnlock
    BY <1>0, <1>23 DEF ServerUnlock, Covered
  <1>24. ASSUME NEW c \in Conns, LeaveMain(c) PROVE Covered'
    BY <1>0, <1>24, CoveredFrame DEF LeaveMain, TInv, TypeOK
  <1>25. ASSUME NEW c \in Conns, Epilogue(c) PROVE Covered'
    BY <1>0, <1>25, CoveredFrame DEF Epilogue, TInv, TypeOK
  <1>26. ASSUME NEW c \in Conns, Unlock(c) PROVE Covered'
    BY <1>0, <1>26, CoveredFrame DEF Unlock, TInv, TypeOK
  <1>27. CASE UNCHANGED vars
    BY <1>0, <1>27, CoveredFrame DEF vars
  <1>28. ASSUME NEW c \in Conns, SendExit(c) PROVE Covered'
    BY <1>0, <1>28, CoveredFrame DEF SendExit
  <1>29. ASSUME NEW c \in Conns, GetDataFails(c) PROVE Covered'
    BY <1>0, <1>29, CoveredFrame DEF GetDataFails, TInv, TypeOK
  <1> QED BY <1>1, <1>2, <1>3, <1>4, <1>5, <1>6, <1>7, <1>8, <1>9, <1>10, <1>11, <1>12, <1>13, <1>14,
             <1>15, <1>16, <1>17, <1>18, <1>19, <1>20, <1>21, <1>22, <1>23, <1>24, <1>25, <1>26, <1>27, <1>28, <1>29
         DEF Next, Host, Server, Faults, Client, Thread, Terminated

-----------------------------------------------------------------------------
\* The inductive invariant holds as long as no stale store hits another thread's
\* object.
THEOREM Invariance == Spec /\ [][NoStaleStore]_vars => []IInv
  <1>1. IInv /\ [Next]_vars /\ [NoStaleStore]_vars => IInv'
    <2> SUFFICES ASSUME IInv, [Next]_vars, [NoStaleStore]_vars PROVE IInv'
      OBVIOUS
    <2>1. TInv' /\ Queue'
      BY TypeStep, QueueStep DEF IInv
    <2>2. Objects'
      BY ObjectsStep
    <2>3. Covered'
      BY CoveredStep
    <2> QED BY <2>1, <2>2, <2>3 DEF IInv
  <1> QED BY <1>1, InitIInv, PTL DEF Spec

\* FrameBuffer::finalize runs after every render thread has left Main, for any
\* number of clients and any allocator, unless a thread's late m_isRunning = false
\* hits the RenderThread of another (RenderServer.cpp:125-140, osThreadUnix.cpp:86).
THEOREM FinalizeIsLast == Spec /\ [][NoStaleStore]_vars => []FinalizeAfterThreads
  <1>1. IInv => FinalizeAfterThreads
    BY DEF IInv, Covered, FinalizeAfterThreads
  <1> QED BY <1>1, Invariance, PTL

\* No RenderThread is deleted while its thread is inside Main, in spite of the
\* unlocked reads of m_isRunning and m_finished, under the same condition
\* (RenderServer.cpp:88-135).
THEOREM MainKeepsItsObject == Spec /\ [][NoStaleStore]_vars => []MainHasItsObject
  <1>1. IInv => MainHasItsObject
    BY DEF IInv, Objects, MainHasItsObject
  <1> QED BY <1>1, Invariance, PTL

-----------------------------------------------------------------------------
(* Without reuse of freed addresses there is no stale store. *)

\* each thread keeps its object, which was never allocated before
Owners ==
    /\ \A a \in Addrs : mem[a] = "unused" => \A c \in Conns : addr[c] # a
    /\ \A c \in Conns : tpc[c] # "none" => addr[c] \in Addrs /\ owner[addr[c]] = c

\* a step that allocates no object and starts no thread
LEMMA OwnersFrame ==
    ASSUME Owners, UNCHANGED <<addr, owner>>,
           \A a \in Addrs : mem'[a] = "unused" => mem[a] = "unused",
           \A c \in Conns : tpc'[c] # "none" => tpc[c] # "none"
    PROVE  Owners'
  BY DEF Owners

\* only the two actions that allocate an object disturb Owners
LEMMA OwnersStep ==
    ASSUME ~ReuseFreed
    PROVE  TInv /\ Queue /\ Owners /\ [Next]_vars => Owners'
  <1> SUFFICES ASSUME TInv, Queue, Owners, [Next]_vars PROVE Owners'
    OBVIOUS
  <1> USE DEF hostVars, connVars, srvVars, objVars, thrVars
  <1>1. ASSUME NEW a \in Addrs, StartThread(a) PROVE Owners'
    <2>1. /\ cur \in Conns /\ mem[a] = "unused"
          /\ mem' = [mem EXCEPT ![a] = "live"]
          /\ owner' = [owner EXCEPT ![a] = cur]
          /\ addr' = [addr EXCEPT ![cur] = a]
          /\ tpc' = [tpc EXCEPT ![cur] = "main"]
      BY <1>1 DEF StartThread, Allocatable, TInv, CurIsClient
    <2>2. \A c \in Conns : addr[c] # a
      BY <2>1 DEF Owners
    <2>3. /\ \A c \in Conns : c # cur => addr'[c] = addr[c] /\ tpc'[c] = tpc[c]
          /\ addr'[cur] = a
          /\ \A b \in Addrs : b # a => mem'[b] = mem[b] /\ owner'[b] = owner[b]
          /\ mem'[a] = "live" /\ owner'[a] = cur
      BY <2>1 DEF TInv, TypeOK
    <2> QED BY <2>2, <2>3 DEF Owners
  <1>2. ASSUME NEW a \in Addrs, StartFails(a) PROVE Owners'
    <2>1. /\ mem[a] = "unused" /\ UNCHANGED <<addr, tpc>>
          /\ mem' = [mem EXCEPT ![a] = "freed"]
          /\ owner' = [owner EXCEPT ![a] = NoConn]
      BY <1>2 DEF StartFails, Allocatable
    <2>2. \A c \in Conns : addr[c] # a
      BY <2>1 DEF Owners
    <2>3. /\ \A b \in Addrs : b # a => mem'[b] = mem[b] /\ owner'[b] = owner[b]
          /\ mem'[a] = "freed"
      BY <2>1 DEF TInv, TypeOK
    <2> QED BY <2>1, <2>2, <2>3 DEF Owners
  <1>3. ASSUME NEW a \in Addrs, Delete(a), UNCHANGED <<addr, owner, tpc>> PROVE Owners'
    BY <1>3, OwnersFrame DEF Delete, TInv, TypeOK
  <1>4. CASE Host
    BY <1>4, OwnersFrame DEF Host, InitFrameBufferFails, InitListenFails, InitOpenGLRenderer,
                             StopConnect, StopCheck, StopJoin
  <1>5. CASE Accept \/ AcceptFails \/ ReadFlags \/ Insert \/ Finalize \/ ServerEpilogue
               \/ ServerUnlock \/ \E a \in Addrs : WaitJoins(a)
    BY <1>5, OwnersFrame DEF Accept, AcceptFails, ReadFlags, Insert, Finalize, ServerEpilogue,
                             ServerUnlock, WaitJoins
  <1>6. CASE StartReturns
    <2>1. rt \in Addrs /\ UNCHANGED <<addr, owner, tpc>> /\ (UNCHANGED mem \/ Delete(rt))
      BY <1>6 DEF StartReturns, TInv, RtIsObject
    <2> QED BY <1>3, <2>1, OwnersFrame
  <1>7. CASE Joined
    <2>1. rt \in Addrs /\ UNCHANGED <<addr, owner, tpc>> /\ Delete(rt)
      BY <1>7 DEF Joined, TInv, RtIsObject
    <2> QED BY <1>3, <2>1
  <1>8. ASSUME NEW a \in Addrs, Reap(a) \/ WaitReturns(a) PROVE Owners'
    <2>1. UNCHANGED <<addr, owner, tpc>> /\ (UNCHANGED mem \/ Delete(a))
      BY <1>8 DEF Reap, WaitReturns
    <2> QED BY <1>3, <2>1, OwnersFrame
  <1>9. ASSUME NEW c \in Conns, Client(c) PROVE Owners'
    BY <1>9, OwnersFrame DEF Client, Connect, SendFlags, SendExit, Close
  <1>10. ASSUME NEW c \in Conns, Thread(c) \/ GetDataFails(c) PROVE Owners'
    <2>1. /\ UNCHANGED <<addr, owner, mem>> /\ tpc[c] # "none"
          /\ \E pc \in ThrPCs : tpc' = [tpc EXCEPT ![c] = pc]
      BY <1>10 DEF Thread, LeaveMain, GetDataFails, Epilogue, Unlock, ThrPCs
    <2> QED BY <2>1, OwnersFrame DEF TInv, TypeOK
  <1>11. CASE UNCHANGED vars
    BY <1>11, OwnersFrame DEF vars
  <1> QED BY <1>1, <1>2, <1>4, <1>5, <1>6, <1>7, <1>8, <1>9, <1>10, <1>11
         DEF Next, Server, Faults, Terminated

\* An allocator that never hands out a freed address makes every store of a
\* thread go to its own object, and the two theorems above unconditional.
THEOREM NoReuseNoStaleStore ==
    ASSUME ~ReuseFreed
    PROVE  Spec => [][NoStaleStore]_vars
  <1>1. Init => TInv /\ Queue /\ Owners
    <2>1. Init => Owners
      BY AddrsAssumption DEF Init, Owners
    <2> QED BY <2>1, InitIInv DEF IInv
  <1>2. TInv /\ Queue /\ Owners /\ [Next]_vars => (TInv /\ Queue /\ Owners)'
    BY TypeStep, QueueStep, OwnersStep
  <1>3. Owners => NoStaleStore
    BY DEF Owners, NoStaleStore
  <1> QED BY <1>1, <1>2, <1>3, PTL DEF Spec
=============================================================================
