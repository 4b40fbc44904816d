------------------------ MODULE HandleTables_proofs ------------------------
(***************************************************************************)
(* Proofs about HandleTables, for every handle width and every number of   *)
(* objects: the handles of contexts and surfaces always resolve, and color *)
(* buffers are kept as long as the handle counter has not wrapped.         *)
(***************************************************************************)
EXTENDS HandleTables, TLAPS

\* objects that do not exist yet are referenced by nobody
Fresh == \A s \in Serials : s > serial => refs[s] = 0

\* before a wrap the counter is past every handle it has given out
Below == ~wrapped => \A s \in Serials : s <= serial => handleOf[s] <= nextHandle

\* an entry is erased when its count reaches zero, so what is there is counted
Counted == \A h \in Handles : colorbuffers[h] # 0 => refcount[h] > 0

IInv == TypeOK /\ Fresh /\ Below /\ Counted /\ HandlesResolve /\ BuffersKeptUntilWrap

-----------------------------------------------------------------------------
\* Serial numbers are positive, so that 0 can stand for an absent entry.
LEMMA SerialFacts ==
    /\ \A r \in Serials : r \in Nat /\ r # 0
    /\ 0 \in 0 .. MaxSerial
  BY BoundsAssumption DEF Serials

\* What every creation does to the objects and to the counter (Issue): the
\* handle is free in m_contexts and m_windows, and above all others if the
\* counter did not wrap.
LEMMA IssueFacts ==
    ASSUME IInv, NEW k \in {"colorbuffer", "context", "window"}, NEW h \in Handles,
           Issue(k, h)
    PROVE  /\ serial + 1 \in Serials /\ serial' = serial + 1
           /\ contexts[h] = 0 /\ windows[h] = 0
           /\ nextHandle' \in Handles /\ wrapped' \in BOOLEAN /\ serial' \in 0 .. MaxSerial
           /\ kind' \in [Serials -> {"none", "colorbuffer", "context", "window"}]
           /\ handleOf' \in [Serials -> Handles]
           /\ refs' \in [Serials -> Nat]
           /\ kind'[serial + 1] = k /\ handleOf'[serial + 1] = h /\ refs'[serial + 1] = 1
           /\ \A s \in Serials : s # serial + 1 =>
                 kind'[s] = kind[s] /\ handleOf'[s] = handleOf[s] /\ refs'[s] = refs[s]
           /\ Fresh' /\ Below'
           /\ ~wrapped' => /\ ~wrapped
                           /\ \A s \in Serials : refs[s] > 0 => handleOf[s] # h
  <1>1. /\ serial \in Nat /\ MaxSerial \in Nat /\ serial < MaxSerial
        /\ nextHandle \in Nat /\ h \in Nat /\ wrapped \in BOOLEAN
        /\ Serials = 1 .. MaxSerial
    BY HandleModAssumption, BoundsAssumption DEF IInv, TypeOK, Issue, Handles, Serials
  <1>2. serial + 1 \in Serials /\ serial' = serial + 1 /\ serial' \in 0 .. MaxSerial
    BY <1>1 DEF Issue
  <1>3. contexts[h] = 0 /\ windows[h] = 0
    BY DEF Issue, GenHandle, Free
  <1>4. /\ kind' \in [Serials -> {"none", "colorbuffer", "context", "window"}]
        /\ handleOf' \in [Serials -> Handles]
        /\ refs' \in [Serials -> Nat]
    BY <1>2 DEF Issue, IInv, TypeOK
  <1>5. /\ kind'[serial + 1] = k /\ handleOf'[serial + 1] = h /\ refs'[serial + 1] = 1
        /\ \A s \in Serials : s # serial + 1 =>
              kind'[s] = kind[s] /\ handleOf'[s] = handleOf[s] /\ refs'[s] = refs[s]
    BY <1>2 DEF Issue, IInv, TypeOK
  <1>6. nextHandle' = h /\ wrapped' = (wrapped \/ h <= nextHandle)
    BY DEF Issue
  <1>7. Fresh'
    BY <1>1, <1>2, <1>5 DEF IInv, Fresh
  <1>8. ~wrapped' => ~wrapped /\ nextHandle < h
    <2>1. ~wrapped' => ~wrapped /\ ~(h <= nextHandle)
      BY <1>6
    <2>2. ~(h <= nextHandle) => nextHandle < h
      BY <1>1
    <2> QED BY <2>1, <2>2
  <1>9. \A s \in Serials : s <= serial => handleOf[s] \in Nat
    BY HandleModAssumption DEF IInv, TypeOK, Handles
  <1>10. Below'
    <2> SUFFICES ASSUME ~wrapped', NEW s \in Serials, s <= serial'
                 PROVE  handleOf'[s] <= nextHandle'
      BY DEF Below
    <2>1. CASE s = serial + 1
      BY <2>1, <1>1, <1>5, <1>6
    <2>2. CASE s # serial + 1
      <3>1. s <= serial /\ handleOf'[s] = handleOf[s]
        BY <2>2, <1>1, <1>2, <1>5
      <3> QED BY <3>1, <1>1, <1>6, <1>8, <1>9 DEF IInv, Below
    <2> QED BY <2>1, <2>2
  <1>11. ~wrapped' => \A s \in Serials : refs[s] > 0 => handleOf[s] # h
    <2> SUFFICES ASSUME ~wrapped', NEW s \in Serials, refs[s] > 0
                 PROVE  handleOf[s] # h
      OBVIOUS
    <2>1. s <= serial
      BY <1>1 DEF IInv, Fresh
    <2> QED BY <2>1, <1>1, <1>8, <1>9 DEF IInv, Below
  <1>12. nextHandle' \in Handles /\ wrapped' \in BOOLEAN
    BY <1>1, <1>6
  <1> QED BY <1>2, <1>3, <1>4, <1>5, <1>7, <1>8, <1>10, <1>11, <1>12

\* createColorBuffer
LEMMA CreateColorBufferPreserves ==
    ASSUME IInv, NEW h \in Handles, CreateColorBuffer(h)
    PROVE  IInv'
  <1>1. Issue("colorbuffer", h) /\ UNCHANGED <<contexts, windows>>
    BY DEF CreateColorBuffer
  <1>2. /\ colorbuffers' = [colorbuffers EXCEPT ![h] = serial + 1]
        /\ refcount' = [refcount EXCEPT ![h] = 1]
    BY DEF CreateColorBuffer
  <1>3. serial + 1 \in 0 .. MaxSerial /\ serial + 1 \in Serials
    BY <1>1, IssueFacts, BoundsAssumption DEF Serials
  <1>4. TypeOK'
    BY <1>1, <1>2, <1>3, IssueFacts DEF IInv, TypeOK
  <1>5. HandlesResolve'
    <2> SUFFICES ASSUME NEW s \in Serials, refs'[s] > 0
                 PROVE  /\ kind'[s] = "context" => contexts'[handleOf'[s]] = s
                        /\ kind'[s] = "window" => windows'[handleOf'[s]] = s
      BY DEF HandlesResolve
    <2>1. CASE s = serial + 1
      BY <2>1, <1>1, IssueFacts
    <2>2. CASE s # serial + 1
      BY <2>2, <1>1, IssueFacts DEF IInv, HandlesResolve
    <2> QED BY <2>1, <2>2
  <1>6. BuffersKeptUntilWrap'
    <2> SUFFICES ASSUME ~wrapped', NEW s \in Serials, kind'[s] = "colorbuffer", refs'[s] > 0
                 PROVE  /\ colorbuffers'[handleOf'[s]] = s
                        /\ refcount'[handleOf'[s]] >= refs'[s]
      BY DEF BuffersKeptUntilWrap, BufferKept
    <2>1. CASE s = serial + 1
      BY <2>1, <1>1, <1>2, IssueFacts DEF IInv, TypeOK
    <2>2. CASE s # serial + 1
      <3>1. /\ ~wrapped /\ kind[s] = "colorbuffer" /\ refs[s] > 0 /\ handleOf[s] # h
            /\ handleOf'[s] = handleOf[s] /\ refs'[s] = refs[s]
        BY <2>2, <1>1, IssueFacts
      <3>2. colorbuffers[handleOf[s]] = s /\ refcount[handleOf[s]] >= refs[s]
        BY <3>1 DEF IInv, BuffersKeptUntilWrap, BufferKept
      <3>3. handleOf[s] \in Handles
        BY DEF IInv, TypeOK
      <3> QED BY <3>1, <3>2, <3>3, <1>2 DEF IInv, TypeOK
    <2> QED BY <2>1, <2>2
  <1>7. Counted'
    BY <1>1, <1>2, IssueFacts DEF IInv, TypeOK, Counted
  <1> QED BY <1>1, <1>4, <1>5, <1>6, <1>7, IssueFacts DEF IInv

\* createRenderContext: the handle is free, so no context loses its entry
LEMMA CreateRenderContextPreserves ==
    ASSUME IInv, NEW h \in Handles, CreateRenderContext(h)
    PROVE  IInv'
  <1>1. Issue("context", h) /\ UNCHANGED <<windows, colorbuffers, refcount>>
    BY DEF CreateRenderContext
  <1>2. contexts' = [contexts EXCEPT ![h] = serial + 1]
    BY DEF CreateRenderContext
  <1>3. serial + 1 \in 0 .. MaxSerial /\ serial + 1 \in Serials
    BY <1>1, IssueFacts, BoundsAssumption DEF Serials
  <1>4. TypeOK'
    BY <1>1, <1>2, <1>3, IssueFacts DEF IInv, TypeOK
  <1>5. HandlesResolve'
    <2> SUFFICES ASSUME NEW s \in Serials, refs'[s] > 0
                 PROVE  /\ kind'[s] = "context" => contexts'[handleOf'[s]] = s
                        /\ kind'[s] = "window" => windows'[handleOf'[s]] = s
      BY DEF HandlesResolve
    <2>1. CASE s = serial + 1
      BY <2>1, <1>1, <1>2, IssueFacts DEF IInv, TypeOK
    <2>2. CASE s # serial + 1
      <3>1. /\ refs[s] > 0 /\ kind'[s] = kind[s] /\ handleOf'[s] = handleOf[s]
            /\ contexts[h] = 0 /\ handleOf[s] \in Handles
        BY <2>2, <1>1, IssueFacts DEF IInv, TypeOK
      <3>2. /\ kind[s] = "context" => contexts[handleOf[s]] = s
            /\ kind[s] = "window" => windows[handleOf[s]] = s
        BY <3>1 DEF IInv, HandlesResolve
      <3>3. s # 0
        BY SerialFacts
      <3> QED BY <3>1, <3>2, <3>3, <1>1, <1>2 DEF IInv, TypeOK
    <2> QED BY <2>1, <2>2
  <1>6. BuffersKeptUntilWrap'
    <2> SUFFICES ASSUME ~wrapped', NEW s \in Serials, kind'[s] = "colorbuffer", refs'[s] > 0
                 PROVE  /\ colorbuffers'[handleOf'[s]] = s
                        /\ refcount'[handleOf'[s]] >= refs'[s]
      BY DEF BuffersKeptUntilWrap, BufferKept
    <2>1. s # serial + 1 /\ ~wrapped
      BY <1>1, IssueFacts
    <2> QED BY <2>1, <1>1, IssueFacts DEF IInv, BuffersKeptUntilWrap, BufferKept
  <1>7. Counted'
    BY <1>1, <1>2, IssueFacts DEF IInv, TypeOK, Counted
  <1> QED BY <1>1, <1>4, <1>5, <1>6, <1>7, IssueFacts DEF IInv

\* createWindowSurface
LEMMA CreateWindowSurfacePreserves ==
    ASSUME IInv, NEW h \in Handles, CreateWindowSurface(h)
    PROVE  IInv'
  <1>1. Issue("window", h) /\ UNCHANGED <<contexts, colorbuffers, refcount>>
    BY DEF CreateWindowSurface
  <1>2. windows' = [windows EXCEPT ![h] = serial + 1]
    BY DEF CreateWindowSurface
  <1>3. serial + 1 \in 0 .. MaxSerial /\ serial + 1 \in Serials
    BY <1>1, IssueFacts, BoundsAssumption DEF Serials
  <1>4. TypeOK'
    BY <1>1, <1>2, <1>3, IssueFacts DEF IInv, TypeOK
  <1>5. HandlesResolve'
    <2> SUFFICES ASSUME NEW s \in Serials, refs'[s] > 0
                 PROVE  /\ kind'[s] = "context" => contexts'[handleOf'[s]] = s
                        /\ kind'[s] = "window" => windows'[handleOf'[s]] = s
      BY DEF HandlesResolve
    <2>1. CASE s = serial + 1
      BY <2>1, <1>1, <1>2, IssueFacts DEF IInv, TypeOK
    <2>2. CASE s # serial + 1
      <3>1. /\ refs[s] > 0 /\ kind'[s] = kind[s] /\ handleOf'[s] = handleOf[s]
            /\ windows[h] = 0 /\ handleOf[s] \in Handles
        BY <2>2, <1>1, IssueFacts DEF IInv, TypeOK
      <3>2. /\ kind[s] = "context" => contexts[handleOf[s]] = s
            /\ kind[s] = "window" => windows[handleOf[s]] = s
        BY <3>1 DEF IInv, HandlesResolve
      <3>3. s # 0
        BY SerialFacts
      <3> QED BY <3>1, <3>2, <3>3, <1>1, <1>2 DEF IInv, TypeOK
    <2> QED BY <2>1, <2>2
  <1>6. BuffersKeptUntilWrap'
    <2> SUFFICES ASSUME ~wrapped', NEW s \in Serials, kind'[s] = "colorbuffer", refs'[s] > 0
                 PROVE  /\ colorbuffers'[handleOf'[s]] = s
                        /\ refcount'[handleOf'[s]] >= refs'[s]
      BY DEF BuffersKeptUntilWrap, BufferKept
    <2>1. s # serial + 1 /\ ~wrapped
      BY <1>1, IssueFacts
    <2> QED BY <2>1, <1>1, IssueFacts DEF IInv, BuffersKeptUntilWrap, BufferKept
  <1>7. Counted'
    BY <1>1, <1>2, IssueFacts DEF IInv, TypeOK, Counted
  <1> QED BY <1>1, <1>4, <1>5, <1>6, <1>7, IssueFacts DEF IInv

\* DestroyRenderContext: only the object's own entry is erased
LEMMA DestroyRenderContextPreserves ==
    ASSUME IInv, NEW s \in Serials, DestroyRenderContext(s)
    PROVE  IInv'
  <1>1. /\ kind[s] = "context" /\ refs[s] > 0
        /\ contexts' = [contexts EXCEPT ![handleOf[s]] = 0]
        /\ refs' = [refs EXCEPT ![s] = 0]
        /\ UNCHANGED <<nextHandle, wrapped, windows, colorbuffers, refcount,
                       serial, kind, handleOf>>
    BY DEF DestroyRenderContext, objects
  <1>2. MaxSerial \in Nat /\ \A r \in Serials : refs'[r] = IF r = s THEN 0 ELSE refs[r]
    BY <1>1, BoundsAssumption DEF IInv, TypeOK
  <1>3. TypeOK'
    BY <1>1, <1>2 DEF IInv, TypeOK
  <1>4. Fresh' /\ Below'
    BY <1>1, <1>2 DEF IInv, Fresh, Below
  <1>5. HandlesResolve'
    <2> SUFFICES ASSUME NEW r \in Serials, refs'[r] > 0
                 PROVE  /\ kind'[r] = "context" => contexts'[handleOf'[r]] = r
                        /\ kind'[r] = "window" => windows'[handleOf'[r]] = r
      BY DEF HandlesResolve
    <2>1. r # s /\ refs[r] > 0
      BY <1>2
    <2>2. contexts[handleOf[s]] = s
      BY <1>1 DEF IInv, HandlesResolve
    <2>3. /\ kind[r] = "context" => contexts[handleOf[r]] = r
          /\ kind[r] = "window" => windows[handleOf[r]] = r
      BY <2>1 DEF IInv, HandlesResolve
    <2> QED BY <1>1, <2>1, <2>2, <2>3 DEF IInv, TypeOK
  <1>6. BuffersKeptUntilWrap'
    BY <1>1, <1>2 DEF IInv, BuffersKeptUntilWrap, BufferKept
  <1>7. Counted'
    BY <1>1 DEF IInv, Counted
  <1> QED BY <1>3, <1>4, <1>5, <1>6, <1>7 DEF IInv

\* DestroyWindowSurface: only the object's own entry is erased
LEMMA DestroyWindowSurfacePreserves ==
    ASSUME IInv, NEW s \in Serials, DestroyWindowSurface(s)
    PROVE  IInv'
  <1>1. /\ kind[s] = "window" /\ refs[s] > 0
        /\ windows' = [windows EXCEPT ![handleOf[s]] = 0]
        /\ refs' = [refs EXCEPT ![s] = 0]
        /\ UNCHANGED <<nextHandle, wrapped, contexts, colorbuffers, refcount,
                       serial, kind, handleOf>>
    BY DEF DestroyWindowSurface, objects
  <1>2. MaxSerial \in Nat /\ \A r \in Serials : refs'[r] = IF r = s THEN 0 ELSE refs[r]
    BY <1>1, BoundsAssumption DEF IInv, TypeOK
  <1>3. TypeOK'
    BY <1>1, <1>2 DEF IInv, TypeOK
  <1>4. Fresh' /\ Below'
    BY <1>1, <1>2 DEF IInv, Fresh, Below
  <1>5. HandlesResolve'
    <2> SUFFICES ASSUME NEW r \in Serials, refs'[r] > 0
                 PROVE  /\ kind'[r] = "context" => contexts'[handleOf'[r]] = r
                        /\ kind'[r] = "window" => windows'[handleOf'[r]] = r
      BY DEF HandlesResolve
    <2>1. r # s /\ refs[r] > 0
      BY <1>2
    <2>2. windows[handleOf[s]] = s
      BY <1>1 DEF IInv, HandlesResolve
    <2>3. /\ kind[r] = "context" => contexts[handleOf[r]] = r
          /\ kind[r] = "window" => windows[handleOf[r]] = r
      BY <2>1 DEF IInv, HandlesResolve
    <2> QED BY <1>1, <2>1, <2>2, <2>3 DEF IInv, TypeOK
  <1>6. BuffersKeptUntilWrap'
    BY <1>1, <1>2 DEF IInv, BuffersKeptUntilWrap, BufferKept
  <1>7. Counted'
    BY <1>1 DEF IInv, Counted
  <1> QED BY <1>3, <1>4, <1>5, <1>6, <1>7 DEF IInv

\* openColorBuffer: the count grows with the references
LEMMA OpenColorBufferPreserves ==
    ASSUME IInv, NEW s \in Serials, OpenColorBuffer(s)
    PROVE  IInv'
  <1> DEFINE h == handleOf[s]
  <1>1. /\ kind[s] = "colorbuffer" /\ refs[s] > 0
        /\ refs' = [refs EXCEPT ![s] = @ + 1]
        /\ refcount' = IF colorbuffers[h] = 0 THEN refcount
                       ELSE [refcount EXCEPT ![h] = @ + 1]
        /\ UNCHANGED <<nextHandle, wrapped, contexts, windows, colorbuffers,
                       serial, kind, handleOf>>
    BY DEF OpenColorBuffer, objects
  <1>2. /\ refs \in [Serials -> Nat] /\ refcount \in [Handles -> Nat] /\ h \in Handles
        /\ handleOf \in [Serials -> Handles] /\ serial \in Nat
        /\ \A r \in Serials : r \in Nat /\ r # 0
    BY SerialFacts, BoundsAssumption DEF IInv, TypeOK
  <1>3. \A r \in Serials : refs'[r] = IF r = s THEN refs[s] + 1 ELSE refs[r]
    BY <1>1, <1>2
  <1>4. TypeOK'
    BY <1>1, <1>2 DEF IInv, TypeOK
  <1>5. Fresh' /\ Below'
    BY <1>1, <1>2, <1>3 DEF IInv, Fresh, Below
  <1>6. HandlesResolve'
    BY <1>1, <1>3 DEF IInv, HandlesResolve
  <1>7. BuffersKeptUntilWrap'
    <2> SUFFICES ASSUME ~wrapped, NEW r \in Serials, kind[r] = "colorbuffer", refs'[r] > 0
                 PROVE  colorbuffers[handleOf[r]] = r /\ refcount'[handleOf[r]] >= refs'[r]
      BY <1>1 DEF BuffersKeptUntilWrap, BufferKept
    <2>1. refs[r] > 0
      BY <1>1, <1>3
    <2>2. colorbuffers[handleOf[r]] = r /\ refcount[handleOf[r]] >= refs[r]
      BY <2>1 DEF IInv, BuffersKeptUntilWrap, BufferKept
    <2>3. colorbuffers[h] = s
      BY <1>1 DEF IInv, BuffersKeptUntilWrap, BufferKept
    <2>4. refcount' = [refcount EXCEPT ![h] = @ + 1]
      BY <1>1, <1>2, <2>3
    <2>5. CASE r = s
      BY <2>2, <2>4, <2>5, <1>2, <1>3
    <2>6. CASE r # s
      <3>1. handleOf[r] # h
        BY <2>2, <2>3, <2>6
      <3> QED BY <3>1, <2>2, <2>4, <2>6, <1>2, <1>3
    <2> QED BY <2>5, <2>6
  <1>8. Counted'
    BY <1>1, <1>2 DEF IInv, Counted
  <1> QED BY <1>4, <1>5, <1>6, <1>7, <1>8 DEF IInv

\* closeColorBuffer: the entry goes with the last reference, not before
LEMMA CloseColorBufferPreserves ==
    ASSUME IInv, NEW s \in Serials, CloseColorBuffer(s)
    PROVE  IInv'
  <1> DEFINE h == handleOf[s]
  <1>1. /\ kind[s] = "colorbuffer" /\ refs[s] > 0
        /\ refs' = [refs EXCEPT ![s] = @ - 1]
        /\ IF colorbuffers[h] = 0
           THEN UNCHANGED <<colorbuffers, refcount>>
           ELSE /\ refcount' = [refcount EXCEPT ![h] = @ - 1]
                /\ colorbuffers' = IF refcount[h] = 1 THEN [colorbuffers EXCEPT ![h] = 0]
                                   ELSE colorbuffers
        /\ UNCHANGED <<nextHandle, wrapped, contexts, windows, serial, kind, handleOf>>
    BY DEF CloseColorBuffer, objects
  <1>2. /\ refs \in [Serials -> Nat] /\ refcount \in [Handles -> Nat] /\ h \in Handles
        /\ handleOf \in [Serials -> Handles] /\ serial \in Nat
        /\ \A r \in Serials : r \in Nat /\ r # 0
        /\ colorbuffers \in [Handles -> 0 .. MaxSerial] /\ 0 \in 0 .. MaxSerial
    BY SerialFacts, BoundsAssumption DEF IInv, TypeOK
  <1>3. \A r \in Serials : refs'[r] = IF r = s THEN refs[s] - 1 ELSE refs[r]
    BY <1>1, <1>2
  <1>4. refs' \in [Serials -> Nat]
    BY <1>1, <1>2
  <1>5. colorbuffers[h] # 0 => refcount[h] > 0
    BY <1>2 DEF IInv, Counted
  <1>6. refcount' \in [Handles -> Nat] /\ colorbuffers' \in [Handles -> 0 .. MaxSerial]
    <2>1. CASE colorbuffers[h] = 0
      BY <2>1, <1>1, <1>2
    <2>2. CASE colorbuffers[h] # 0
      <3>1. refcount[h] - 1 \in Nat
        BY <2>2, <1>2, <1>5
      <3> QED BY <3>1, <2>2, <1>1, <1>2
    <2> QED BY <2>1, <2>2
  <1>7. TypeOK'
    BY <1>1, <1>4, <1>6 DEF IInv, TypeOK
  <1>8. Fresh' /\ Below'
    BY <1>1, <1>2, <1>3 DEF IInv, Fresh, Below
  <1>9. HandlesResolve'
    BY <1>1, <1>2, <1>3 DEF IInv, HandlesResolve
  <1>10. Counted'
    <2> SUFFICES ASSUME NEW g \in Handles, colorbuffers'[g] # 0
                 PROVE  refcount'[g] > 0
      BY DEF Counted
    <2>1. CASE colorbuffers[h] = 0
      BY <2>1, <1>1 DEF IInv, Counted
    <2>2. CASE colorbuffers[h] # 0
      BY <2>2, <1>1, <1>2, <1>5 DEF IInv, Counted
    <2> QED BY <2>1, <2>2
  <1>11. BuffersKeptUntilWrap'
    <2> SUFFICES ASSUME ~wrapped, NEW r \in Serials, kind[r] = "colorbuffer", refs'[r] > 0
                 PROVE  colorbuffers'[handleOf[r]] = r /\ refcount'[handleOf[r]] >= refs'[r]
      BY <1>1 DEF BuffersKeptUntilWrap, BufferKept
    <2>1. refs[r] > 0
      BY <1>1, <1>2, <1>3
    <2>2. colorbuffers[handleOf[r]] = r /\ refcount[handleOf[r]] >= refs[r]
      BY <2>1 DEF IInv, BuffersKeptUntilWrap, BufferKept
    <2>3. colorbuffers[h] = s
      BY <1>1 DEF IInv, BuffersKeptUntilWrap, BufferKept
    <2>4. /\ refcount' = [refcount EXCEPT ![h] = @ - 1]
          /\ colorbuffers' = IF refcount[h] = 1 THEN [colorbuffers EXCEPT ![h] = 0]
                             ELSE colorbuffers
      BY <1>1, <1>2, <2>3
    <2>5. CASE r = s
      <3>1. refcount[h] # 1
        BY <2>2, <2>5, <1>2, <1>3
      <3> QED BY <3>1, <2>2, <2>4, <2>5, <1>2, <1>3
    <2>6. CASE r # s
      <3>1. handleOf[r] # h
        BY <2>2, <2>3, <2>6
      <3> QED BY <3>1, <2>2, <2>4, <2>6, <1>2, <1>3
    <2> QED BY <2>5, <2>6
  <1> QED BY <1>7, <1>8, <1>9, <1>10, <1>11 DEF IInv

\* a client dies: references go, no entry does
LEMMA ClientDiesPreserves ==
    ASSUME IInv, NEW s \in Serials, ClientDies(s)
    PROVE  IInv'
  <1>1. /\ refs[s] > 0 /\ refs' = [refs EXCEPT ![s] = @ - 1]
        /\ UNCHANGED <<nextHandle, wrapped, contexts, windows, colorbuffers, refcount,
                       serial, kind, handleOf>>
    BY DEF ClientDies, tables, objects
  <1>2. refs \in [Serials -> Nat] /\ refcount \in [Handles -> Nat]
        /\ handleOf \in [Serials -> Handles]
    BY DEF IInv, TypeOK
  <1>3. /\ refs' \in [Serials -> Nat]
        /\ \A r \in Serials : refs'[r] = IF r = s THEN refs[s] - 1 ELSE refs[r]
    BY <1>1, <1>2
  <1>4. \A r \in Serials : refs'[r] <= refs[r] /\ (refs'[r] > 0 => refs[r] > 0)
    BY <1>1, <1>2, <1>3
  <1>5. TypeOK'
    BY <1>1, <1>3 DEF IInv, TypeOK
  <1>6. Fresh'
    <2> SUFFICES ASSUME NEW r \in Serials, r > serial PROVE refs'[r] = 0
      BY <1>1 DEF Fresh
    <2>1. refs[r] = 0
      BY DEF IInv, Fresh
    <2> QED BY <2>1, <1>3, <1>4
  <1>7. Below' /\ Counted'
    BY <1>1 DEF IInv, Below, Counted
  <1>8. HandlesResolve'
    BY <1>1, <1>4 DEF IInv, HandlesResolve
  <1>9. BuffersKeptUntilWrap'
    <2> SUFFICES ASSUME ~wrapped, NEW r \in Serials, kind[r] = "colorbuffer", refs'[r] > 0
                 PROVE  colorbuffers[handleOf[r]] = r /\ refcount[handleOf[r]] >= refs'[r]
      BY <1>1 DEF BuffersKeptUntilWrap, BufferKept
    <2>1. colorbuffers[handleOf[r]] = r /\ refcount[handleOf[r]] >= refs[r]
      BY <1>4 DEF IInv, BuffersKeptUntilWrap, BufferKept
    <2> QED BY <2>1, <1>2, <1>3, <1>4
  <1> QED BY <1>5, <1>6, <1>7, <1>8, <1>9 DEF IInv

\* finalize(): nothing is left, and the counter goes on
LEMMA FinalizePreserves ==
    ASSUME IInv, Finalize
    PROVE  IInv'
  <1>1. /\ \A h \in Handles : colorbuffers'[h] = 0
        /\ \A s \in Serials : refs'[s] = 0
        /\ UNCHANGED <<nextHandle, wrapped, serial, kind, handleOf>>
    BY DEF Finalize, objects
  <1>2. TypeOK'
    BY <1>1, SerialFacts DEF IInv, TypeOK, Finalize
  <1>3. Fresh' /\ Below' /\ Counted'
    BY <1>1 DEF IInv, Fresh, Below, Counted
  <1>4. HandlesResolve' /\ BuffersKeptUntilWrap'
    BY <1>1 DEF HandlesResolve, BuffersKeptUntilWrap, BufferKept
  <1> QED BY <1>2, <1>3, <1>4 DEF IInv

-----------------------------------------------------------------------------
\* At the start the tables are empty and no handle was given out.
LEMMA InitIInv == Init => IInv
  <1> SUFFICES ASSUME Init PROVE IInv
    OBVIOUS
  <1>1. 0 \in Handles
    BY HandleModAssumption DEF Handles
  <1>2. TypeOK
    BY <1>1, SerialFacts DEF Init, TypeOK
  <1>3. Fresh /\ Counted /\ HandlesResolve /\ BuffersKeptUntilWrap
    BY DEF Init, Fresh, Counted, HandlesResolve, BuffersKeptUntilWrap, BufferKept
  <1>4. Below
    BY DEF Init, Below
  <1> QED BY <1>2, <1>3, <1>4 DEF IInv

\* Every operation on the tables preserves the invariant.
LEMMA NextIInv == IInv /\ [Next]_vars => IInv'
  <1> SUFFICES ASSUME IInv, [Next]_vars PROVE IInv'
    OBVIOUS
  <1>1. ASSUME NEW h \in Handles, CreateColorBuffer(h) PROVE IInv'
    BY <1>1, CreateColorBufferPreserves
  <1>2. ASSUME NEW h \in Handles, CreateRenderContext(h) PROVE IInv'
    BY <1>2, CreateRenderContextPreserves
  <1>3. ASSUME NEW h \in Handles, CreateWindowSurface(h) PROVE IInv'
    BY <1>3, CreateWindowSurfacePreserves
  <1>4. ASSUME NEW s \in Serials, DestroyRenderContext(s) PROVE IInv'
    BY <1>4, DestroyRenderContextPreserves
  <1>5. ASSUME NEW s \in Serials, DestroyWindowSurface(s) PROVE IInv'
    BY <1>5, DestroyWindowSurfacePreserves
  <1>6. ASSUME NEW s \in Serials, OpenColorBuffer(s) PROVE IInv'
    BY <1>6, OpenColorBufferPreserves
  <1>7. ASSUME NEW s \in Serials, CloseColorBuffer(s) PROVE IInv'
    BY <1>7, CloseColorBufferPreserves
  <1>8. ASSUME NEW s \in Serials, ClientDies(s) PROVE IInv'
    BY <1>8, ClientDiesPreserves
  <1>9. CASE Finalize
    BY <1>9, FinalizePreserves
  <1>10. CASE UNCHANGED vars
    BY <1>10 DEF vars, IInv, TypeOK, Fresh, Below, Counted, HandlesResolve,
                 BuffersKeptUntilWrap, BufferKept
  <1> QED BY <1>1, <1>2, <1>3, <1>4, <1>5, <1>6, <1>7, <1>8, <1>9, <1>10 DEF Next

\* The inductive invariant holds of the handle tables.
THEOREM Invariance == Spec => []IInv
  BY InitIInv, NextIInv, PTL DEF Spec

\* Counters, table entries and reference counts keep their types: refcount,
\* a uint32_t, is never decremented below zero (FrameBuffer.cpp:559-570).
THEOREM TypeCorrectness == Spec => []TypeOK
  <1>1. IInv => TypeOK
    BY DEF IInv
  <1> QED BY <1>1, Invariance, PTL

\* A context or surface handle names the object it was given for, for as long
\* as a client holds it, also after the handle counter wrapped
\* (FrameBuffer.cpp:472-534).
THEOREM ContextsAndSurfacesResolve == Spec => []HandlesResolve
  <1>1. IInv => HandlesResolve
    BY DEF IInv
  <1> QED BY <1>1, Invariance, PTL

\* No order of creating, opening and closing frees a color buffer some client
\* references, until the handle counter wraps (FrameBuffer.cpp:484-570).
THEOREM ColorBuffersKept == Spec => []BuffersKeptUntilWrap
  <1>1. IInv => BuffersKeptUntilWrap
    BY DEF IInv
  <1> QED BY <1>1, Invariance, PTL
=============================================================================
