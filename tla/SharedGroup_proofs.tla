------------------------- MODULE SharedGroup_proofs -------------------------
(***************************************************************************)
(* Proofs about SharedGroup, for any threads, names, layouts and bounds.   *)
(*                                                                         *)
(* The guest counts a program's attachment when its call takes m_lock, the *)
(* host when it executes the packet, and another thread may come between   *)
(* the two.  The inductive invariant says what keeps them together: which  *)
(* packets can still be under way about an object (GroupProtocol), that    *)
(* the guest's lists are what the host's will be once it has executed the  *)
(* packets of the calls that are over (Synchronised), that a count covers  *)
(* every holder (Counted), that the names a shader declares are known to   *)
(* the guest before the host (NamesKnown), and what a link has recorded    *)
(* (Recording).  On top of it LocInv says what the table of a linked       *)
(* program does for the locations that the application holds.              *)
(***************************************************************************)
EXTENDS SharedGroup, FiniteSetTheorems, WellFoundedInduction, TLAPS

\* the packets of t are within their bound, and there is room for the one that
\* s_glShaderSource writes at its end
Room(t) == Len(out[t]) <= MaxOut /\ (call[t].op = "source" => Len(out[t]) < MaxOut)

\* the types, with the domains that GroupTypeOK leaves to the actions; the bound on
\* refcount is left to Bounded
Typed ==
    /\ alive \subseteq Shaders \cup Programs
    /\ call \in [Threads -> Calls]
    /\ out \in [Threads -> Seq(Calls)] /\ \A t \in Threads : Room(t)
    /\ m_programs \subseteq Programs
    /\ attached \in [Programs -> SUBSET Shaders]
    /\ indexes \in [Programs -> Seq(IndexInfo)]
    /\ locShiftWAR \in [Programs -> BOOLEAN]
    /\ refcount \in [Shaders -> Nat]
    /\ external \in [Shaders -> SUBSET Samplers]
    /\ hFlagged \subseteq hShaders /\ hShaders \subseteq Shaders
    /\ hSource \in [Shaders -> SUBSET Samplers]
    /\ hPrograms \subseteq Programs
    /\ hAttached \in [Programs -> SUBSET Shaders]
    /\ \A p \in Programs : hAttached[p] \subseteq hShaders
    /\ hLinked \in [Programs -> Seq(Uniform)]
    /\ \A p \in Programs : hLinked[p] \in Layouts \cup {<<>>}
    /\ hExternal \in [Programs -> SUBSET Samplers]
    /\ given \in [Programs -> SUBSET (Nat \X Nat)]

-----------------------------------------------------------------------------
(* The calls and packets under way *)

\* a call that has written its packet before it takes m_lock
Sent == {"attach", "detach", "deleteShader", "deleteProgram"}

\* the objects a call names
Shape(c) ==
    /\ c.op \in {"source", "deleteShader"} => c.shader \in Shaders /\ c.program = NoObject
    /\ c.op \in {"attach", "detach"} => c.shader \in Shaders /\ c.program \in Programs
    /\ c.op \in {"deleteProgram", "link"} => c.shader = NoObject /\ c.program \in Programs
    /\ c.op = "none" => c = Idle

Deletes(c, o) ==
    \/ c.op = "deleteShader" /\ c.shader = o
    \/ c.op = "deleteProgram" /\ c.program = o

\* c is about an object that must not be deleted: a shader can be detached later
Needs(c, o) == Names(c, o) /\ ~(c.op = "detach" /\ o = c.shader)

\* t has a call or a packet about o
Concerns(t, o) == Names(call[t], o) \/ \E i \in DOMAIN out[t] : Names(out[t][i], o)

\* the packets of the calls of t that are over
Done(t) == {i \in DOMAIN out[t] : call[t].op \in Sent => i # Len(out[t])}

CallsNamed ==
    \A t \in Threads :
        /\ Shape(call[t])
        /\ call[t].op \in Sent => out[t] # <<>> /\ out[t][Len(out[t])] = call[t]
        /\ call[t].op \notin {"none", "deleteShader", "deleteProgram"}
             => \A o \in Shaders \cup Programs : Needs(call[t], o) => o \in alive

\* a packet names objects the host has, not deleted yet if it needs them
PacketsNamed ==
    \A t \in Threads : \A i \in DOMAIN out[t] :
        /\ Shape(out[t][i]) /\ out[t][i].op \notin {"link", "none"}
        /\ \A s \in Shaders : Needs(out[t][i], s) => s \in hShaders \ hFlagged
        /\ \A p \in Programs : Names(out[t][i], p) => p \in hPrograms
        /\ \A o \in Shaders \cup Programs : Deletes(out[t][i], o) => o \notin alive

\* no other thread has a call or a packet that needs o
Unneeded(t, o) ==
    \A u \in Threads \ {t} :
        ~Needs(call[u], o) /\ \A i \in DOMAIN out[u] : ~Needs(out[u][i], o)

\* no call or packet that needs an object follows its deletion
DeletionLast ==
    \A t \in Threads : \A i \in DOMAIN out[t] : \A o \in Shaders \cup Programs :
        Deletes(out[t][i], o) =>
            /\ Unneeded(t, o)
            /\ \A j \in DOMAIN out[t] : j > i => ~Needs(out[t][j], o)
            /\ Needs(call[t], o) => call[t].op \in Sent /\ i = Len(out[t])

\* calls and packets about a program come from one thread at a time
OneThread == \A t \in Threads, p \in Programs : Concerns(t, p) => Free(t, p)

AliveKnown ==
    /\ alive \cap Shaders \subseteq hShaders \ hFlagged
    /\ alive \cap Programs \subseteq hPrograms \cap m_programs
    /\ \A p \in Programs \ hPrograms : hAttached[p] = {} /\ hLinked[p] = <<>>

\* c attaches s to p or takes it away
Affects(c, p, s) ==
    /\ c.program = p
    /\ c.op = "deleteProgram" \/ (c.op \in {"attach", "detach"} /\ c.shader = s)

\* no deletion of s was executed or comes before packet i of t
Undeleted(t, i, s) ==
    /\ s \in hShaders \ hFlagged
    /\ \A u \in Threads : \A j \in DOMAIN out[u] : Deletes(out[u][j], s) => u = t /\ j > i

\* the host has s attached to p when it comes to packet i of t
AttachedBefore(t, i, p, s) ==
    \/ \E j \in DOMAIN out[t] :
          /\ j < i /\ out[t][j].op = "attach" /\ Affects(out[t][j], p, s)
          /\ \A k \in DOMAIN out[t] : j < k /\ k < i => ~Affects(out[t][k], p, s)
    \/ /\ s \in hAttached[p]
       /\ \A k \in DOMAIN out[t] : k < i => ~Affects(out[t][k], p, s)

\* a shader that is to be detached is there until then
DetachesKept ==
    \A t \in Threads : \A i \in DOMAIN out[t] : out[t][i].op = "detach" =>
        \/ Undeleted(t, i, out[t][i].shader)
        \/ AttachedBefore(t, i, out[t][i].program, out[t][i].shader)

GroupProtocol ==
    /\ CallsNamed /\ PacketsNamed /\ DeletionLast /\ OneThread /\ AliveKnown
    /\ DetachesKept

-----------------------------------------------------------------------------
(* The guest's lists and the host's *)

\* of the packets whose calls are over, the last that affects p and s attaches
AttachComes(p, s) ==
    \E t \in Threads : \E i \in Done(t) :
        /\ out[t][i].op = "attach" /\ Affects(out[t][i], p, s)
        /\ \A j \in Done(t) : j > i => ~Affects(out[t][j], p, s)

Quiet(p, s) == \A t \in Threads : \A i \in Done(t) : ~Affects(out[t][i], p, s)

Synchronised ==
    \A p \in Programs, s \in Shaders :
        s \in attached[p] <=> AttachComes(p, s) \/ (Quiet(p, s) /\ s \in hAttached[p])

-----------------------------------------------------------------------------
(* Counts and names *)

Holders(s) == {p \in Programs : s \in attached[p]}
Deleting(s) == \E t \in Threads : call[t].op = "deleteShader" /\ call[t].shader = s
Attaching(s) == {t \in Threads : call[t].op = "attach" /\ call[t].shader = s}
Own(s) == IF s \in alive \/ Deleting(s) THEN 1 ELSE 0

Counted ==
    /\ \A p \in Programs \ m_programs : attached[p] = {}
    /\ \A s \in Shaders : refcount[s] >= Cardinality(Holders(s)) + Own(s)

Bounded == \A s \in Shaders : refcount[s] + Cardinality(Attaching(s)) <= MaxRefs

NamesKnown ==
    \A s \in Shaders : s \in alive \/ Holders(s) # {} =>
        /\ hSource[s] \subseteq external[s]
        /\ \A t \in Threads : \A i \in DOMAIN out[t] :
              out[t][i].op = "source" /\ out[t][i].shader = s => out[t][i].names \subseteq external[s]

-----------------------------------------------------------------------------
(* What a link has recorded *)

Linking(p) == \E t \in Threads : call[t].op = "link" /\ call[t].program = p

\* the entry i of a program's table is about uniform i of its layout
Mirrors(p, i) ==
    /\ indexes[p][i].name = hLinked[p][i].name /\ indexes[p][i].base = hLinked[p][i].base
    /\ indexes[p][i].size = hLinked[p][i].size
    /\ hLinked[p][i].name \in hExternal[p] => indexes[p][i].external

Recording ==
    /\ \A p \in Programs : p \in alive /\ hLinked[p] # <<>> =>
          /\ Len(indexes[p]) <= Len(hLinked[p])
          /\ ~Linking(p) => Len(indexes[p]) = Len(hLinked[p])
          /\ \A i \in DOMAIN indexes[p] : Mirrors(p, i)
    /\ \A p \in Programs : Linking(p) =>
          \A n \in hExternal[p] : \E s \in attached[p] : n \in external[s]

IInv ==
    /\ Typed /\ GroupProtocol /\ Synchronised /\ Counted /\ Bounded
    /\ NamesKnown /\ Recording

-----------------------------------------------------------------------------
(* What the steps of a call do to the calls and the packets *)

\* Shaders, programs and the null name are different things.
LEMMA Distinct ==
  /\ \A s \in Shaders : s \notin Programs /\ s # NoObject
  /\ \A p \in Programs : p \notin Shaders /\ p # NoObject
  BY NamesAssumption

\* Nobody names an object through a thread that is idle.
LEMMA IdleFacts ==
  /\ Idle \in Calls /\ Idle.op = "none" /\ Shape(Idle)
  /\ \A o \in Shaders \cup Programs : ~Names(Idle, o)
  BY NamesAssumption DEF Idle, Call, Calls, Ops, Shape, Names

\* An object is free for t when no other thread is concerned with it.
LEMMA FreeConcerns ==
  ASSUME NEW t \in Threads, NEW o
  PROVE  Free(t, o) <=> \A u \in Threads \ {t} : ~Concerns(u, o)
  BY DEF Free, Concerns

\* What a call needs it names; it needs its program, and whatever it deletes.
LEMMA NeedsFacts ==
  ASSUME NEW c \in Calls
  PROVE  /\ \A o : Needs(c, o) => Names(c, o)
         /\ \A p \in Programs : Names(c, p) => Needs(c, p)
         /\ \A o : c.op # "detach" /\ Names(c, o) => Needs(c, o)
         /\ \A o : Deletes(c, o) => Needs(c, o)
  <1>1. c.shader \in Shaders \cup {NoObject}
    BY DEF Calls
  <1> QED BY <1>1, Distinct DEF Needs, Names, Deletes

\* The calls and packets are calls.
LEMMA CallTypes ==
  ASSUME Typed, NEW t \in Threads
  PROVE  call[t] \in Calls /\ \A i \in DOMAIN out[t] : out[t][i] \in Calls
  <1>1. call[t] \in Calls /\ out[t] \in Seq(Calls)
    BY DEF Typed
  <1> QED BY <1>1

\* A shader that a packet names is there.
LEMMA NamedKept ==
  ASSUME Typed, GroupProtocol, NEW t \in Threads, NEW i \in DOMAIN out[t], NEW s \in Shaders,
         Names(out[t][i], s)
  PROVE  s \in hShaders
  <1> USE DEF GroupProtocol
  <1>1. CASE Needs(out[t][i], s)
    BY <1>1 DEF PacketsNamed
  <1>2. CASE ~Needs(out[t][i], s)
    <2>1. out[t][i].op = "detach" /\ s = out[t][i].shader /\ Shape(out[t][i])
      BY <1>2 DEF Needs, PacketsNamed
    <2>2. PICK p \in Programs : p = out[t][i].program
      BY <2>1 DEF Shape
    <2>3. Undeleted(t, i, s) \/ AttachedBefore(t, i, p, s)
      BY <2>1, <2>2 DEF DetachesKept
    <2>4. CASE Undeleted(t, i, s)
      BY <2>4 DEF Undeleted
    <2>5. CASE s \in hAttached[p]
      BY <2>5 DEF Typed
    <2>6. ASSUME NEW j \in DOMAIN out[t], out[t][j].op = "attach", Affects(out[t][j], p, s)
          PROVE  s \in hShaders
      <3>1. Needs(out[t][j], s)
        BY <2>6 DEF Affects, Needs, Names
      <3> QED BY <3>1 DEF PacketsNamed
    <2> QED BY <2>3, <2>4, <2>5, <2>6 DEF AttachedBefore
  <1> QED BY <1>1, <1>2

\* The effect on the packets of a call that writes one.
LEMMA AppendEffect ==
  ASSUME Typed, NEW t \in Threads, NEW c \in Calls,
         out' = [out EXCEPT ![t] = Append(@, c)]
  PROVE  /\ out' \in [Threads -> Seq(Calls)]
         /\ \A u \in Threads \ {t} : out'[u] = out[u]
         /\ Len(out[t]) \in Nat /\ Len(out'[t]) = Len(out[t]) + 1
         /\ DOMAIN out[t] = 1 .. Len(out[t]) /\ DOMAIN out'[t] = 1 .. Len(out[t]) + 1
         /\ out'[t][Len(out[t]) + 1] = c
         /\ \A i \in DOMAIN out[t] : out'[t][i] = out[t][i]
  <1>1. out[t] \in Seq(Calls) /\ out'[t] = Append(out[t], c)
        /\ \A u \in Threads \ {t} : out'[u] = out[u]
    BY DEF Typed
  <1>2. Append(out[t], c) \in Seq(Calls)
    BY <1>1
  <1>3. out' \in [Threads -> Seq(Calls)]
    BY <1>1, <1>2 DEF Typed
  <1> QED BY <1>1, <1>2, <1>3

\* The effect of entering or leaving a call.
LEMMA CallEffect ==
  ASSUME Typed, NEW t \in Threads, NEW c \in Calls, call' = [call EXCEPT ![t] = c]
  PROVE  /\ call' \in [Threads -> Calls] /\ call'[t] = c
         /\ \A u \in Threads \ {t} : call'[u] = call[u]
  BY DEF Typed

\* What the packets of the calls that are over do depends on those that affect p and s.
LEMMA SameDone ==
  ASSUME NEW p, NEW s,
         \A u \in Threads : Done(u) \subseteq Done(u)',
         \A u \in Threads : \A i \in Done(u) : out'[u][i] = out[u][i],
         \A u \in Threads : \A i \in Done(u)' : Affects(out'[u][i], p, s) => i \in Done(u)
  PROVE  (AttachComes(p, s)' <=> AttachComes(p, s)) /\ (Quiet(p, s)' <=> Quiet(p, s))
  <1>1. ASSUME AttachComes(p, s) PROVE AttachComes(p, s)'
    <2>0. PICK u \in Threads : \E i \in Done(u) :
             /\ out[u][i].op = "attach" /\ Affects(out[u][i], p, s)
             /\ \A j \in Done(u) : j > i => ~Affects(out[u][j], p, s)
      BY <1>1 DEF AttachComes
    <2>1. PICK i \in Done(u) :
             /\ out[u][i].op = "attach" /\ Affects(out[u][i], p, s)
             /\ \A j \in Done(u) : j > i => ~Affects(out[u][j], p, s)
      BY <2>0
    <2>2. i \in Done(u)' /\ \A j \in Done(u)' : j > i => ~Affects(out'[u][j], p, s)
      BY <2>1
    <2>3. out'[u][i].op = "attach" /\ Affects(out'[u][i], p, s)
      BY <2>1
    <2> QED BY <2>2, <2>3 DEF AttachComes
  <1>2. ASSUME AttachComes(p, s)' PROVE AttachComes(p, s)
    <2>0. PICK u \in Threads : \E i \in Done(u)' :
             /\ out'[u][i].op = "attach" /\ Affects(out'[u][i], p, s)
             /\ \A j \in Done(u)' : j > i => ~Affects(out'[u][j], p, s)
      BY <1>2 DEF AttachComes
    <2>1. PICK i \in Done(u)' :
             /\ out'[u][i].op = "attach" /\ Affects(out'[u][i], p, s)
             /\ \A j \in Done(u)' : j > i => ~Affects(out'[u][j], p, s)
      BY <2>0
    <2>2. i \in Done(u) /\ \A j \in Done(u) : j > i => ~Affects(out[u][j], p, s)
      BY <2>1
    <2>3. out[u][i].op = "attach" /\ Affects(out[u][i], p, s)
      BY <2>1, <2>2
    <2> QED BY <2>2, <2>3 DEF AttachComes
  <1>3. Quiet(p, s)' <=> Quiet(p, s)
    BY DEF Quiet
  <1> QED BY <1>1, <1>2, <1>3

\* A call that names living objects, and alone if it must, may write its packet: the
\* order of the packets about an object stays what the host relies on.
LEMMA SendProtocol ==
  ASSUME Typed, GroupProtocol, Synchronised, NEW t \in Threads, NEW c \in Calls,
         call[t] = Idle, Send(t, c), Shape(c), c.op \in Sent,
         \A o \in Shaders \cup Programs : Needs(c, o) => o \in alive,
         c.op = "detach" => c.shader \in alive \cup attached[c.program],
         \A o \in Shaders \cup Programs :
             (Deletes(c, o) \/ (o \in Programs /\ Names(c, o))) => Free(t, o),
         alive' = {o \in alive : ~Deletes(c, o)},
         UNCHANGED <<group, host>>
  PROVE  GroupProtocol' /\ Synchronised'
  <1> USE DEF GroupProtocol
  <1>1. /\ call'[t] = c /\ \A u \in Threads \ {t} : call'[u] = call[u] /\ out'[u] = out[u]
    BY CallEffect, AppendEffect DEF Send
  <1>2. /\ Len(out[t]) \in Nat /\ Len(out'[t]) = Len(out[t]) + 1
        /\ DOMAIN out[t] = 1 .. Len(out[t]) /\ DOMAIN out'[t] = 1 .. Len(out[t]) + 1
        /\ out'[t][Len(out[t]) + 1] = c /\ \A i \in DOMAIN out[t] : out'[t][i] = out[t][i]
    BY AppendEffect DEF Send
  <1>3. UNCHANGED <<m_programs, attached, hShaders, hFlagged, hPrograms, hAttached, hLinked>>
    BY DEF group, host
  <1>4. /\ \A o : Needs(c, o) => Names(c, o)
        /\ \A p \in Programs : Names(c, p) => Needs(c, p)
        /\ \A o : Deletes(c, o) => Needs(c, o)
    BY NeedsFacts
  <1>5. \A o : /\ Free(t, o)' <=> Free(t, o)
               /\ Unneeded(t, o)' <=> Unneeded(t, o)
               /\ \A u \in Threads \ {t} : Concerns(u, o)' <=> Concerns(u, o)
               /\ Concerns(t, o)' => Concerns(t, o) \/ Names(c, o)
    BY <1>1, <1>2 DEF Free, Unneeded, Concerns
  <1>6. CallsNamed'
    <2>1. ASSUME NEW u \in Threads \ {t}
          PROVE  \A o \in Shaders \cup Programs : Needs(call[u], o) /\ o \in alive => o \in alive'
      BY <2>1 DEF Free, Needs
    <2>2. ASSUME NEW u \in Threads \ {t}
          PROVE  /\ Shape(call'[u])
                 /\ call'[u].op \in Sent => out'[u] # <<>> /\ out'[u][Len(out'[u])] = call'[u]
                 /\ call'[u].op \notin {"none", "deleteShader", "deleteProgram"}
                      => \A o \in Shaders \cup Programs : Needs(call'[u], o) => o \in alive'
      BY <1>1, <2>1 DEF CallsNamed
    <2>3. /\ Shape(call'[t]) /\ out'[t] # <<>> /\ out'[t][Len(out'[t])] = call'[t]
      BY <1>1, <1>2
    <2>4. call'[t].op \notin {"none", "deleteShader", "deleteProgram"}
             => \A o \in Shaders \cup Programs : Needs(call'[t], o) => o \in alive'
      BY <1>1 DEF Deletes
    <2> QED BY <2>2, <2>3, <2>4 DEF CallsNamed
  <1>7. PacketsNamed'
    <2>1. ASSUME NEW u \in Threads, NEW i \in DOMAIN out'[u], out'[u][i] # c
          PROVE  i \in DOMAIN out[u] /\ out'[u][i] = out[u][i]
      BY <1>1, <1>2, <2>1
    <2>2. /\ c.op \notin {"link", "none"}
          /\ \A s \in Shaders : Needs(c, s) => s \in hShaders \ hFlagged
          /\ \A p \in Programs : Names(c, p) => p \in hPrograms
          /\ \A o \in Shaders \cup Programs : Deletes(c, o) => o \notin alive'
      BY <1>4 DEF Sent, AliveKnown
    <2> QED BY <1>3, <2>1, <2>2 DEF PacketsNamed
  <1>8. DeletionLast'
    <2> SUFFICES ASSUME NEW u \in Threads, NEW i \in DOMAIN out'[u],
                        NEW o \in Shaders \cup Programs, Deletes(out'[u][i], o)
                 PROVE  /\ Unneeded(u, o)'
                        /\ \A j \in DOMAIN out'[u] : j > i => ~Needs(out'[u][j], o)
                        /\ Needs(call'[u], o) => call'[u].op \in Sent /\ i = Len(out'[u])
      BY DEF DeletionLast
    <2>1. CASE u = t /\ i = Len(out[t]) + 1
      <3>1. Free(t, o)
        BY <1>2, <2>1
      <3>2. Unneeded(t, o)
        BY <3>1 DEF Free, Unneeded, Needs
      <3> QED BY <1>1, <1>2, <1>5, <2>1, <3>2
    <2>2. CASE u = t /\ i # Len(out[t]) + 1
      <3>1. i \in DOMAIN out[t] /\ Deletes(out[t][i], o)
        BY <1>2, <2>2
      <3>2. ~Needs(c, o)
        BY <3>1 DEF PacketsNamed
      <3>3. Unneeded(t, o) /\ \A j \in DOMAIN out[t] : j > i => ~Needs(out[t][j], o)
        BY <3>1 DEF DeletionLast
      <3> QED BY <1>1, <1>2, <1>5, <2>2, <3>2, <3>3
    <2>3. CASE u # t
      <3>1. i \in DOMAIN out[u] /\ Deletes(out[u][i], o)
        BY <1>1, <2>3
      <3>2. ~Needs(c, o)
        BY <3>1 DEF PacketsNamed
      <3>3. /\ Unneeded(u, o) /\ \A j \in DOMAIN out[u] : j > i => ~Needs(out[u][j], o)
            /\ Needs(call[u], o) => call[u].op \in Sent /\ i = Len(out[u])
        BY <3>1 DEF DeletionLast
      <3>4. Unneeded(u, o)'
        <4>1. ASSUME NEW v \in Threads \ {u}
              PROVE  ~Needs(call'[v], o) /\ \A j \in DOMAIN out'[v] : ~Needs(out'[v][j], o)
          <5>1. CASE v = t
            BY <1>1, <1>2, <2>3, <3>2, <3>3, <5>1 DEF Unneeded
          <5>2. CASE v # t
            BY <1>1, <3>3, <5>2 DEF Unneeded
          <5> QED BY <5>1, <5>2
        <4> QED BY <4>1 DEF Unneeded
      <3> QED BY <1>1, <2>3, <3>3, <3>4
    <2> QED BY <2>1, <2>2, <2>3
  <1>9. OneThread'
    <2> SUFFICES ASSUME NEW u \in Threads, NEW p \in Programs, Concerns(u, p)'
                 PROVE  \A v \in Threads \ {u} : ~Concerns(v, p)'
      BY DEF OneThread, Free, Concerns
    <2>1. Concerns(u, p) => \A v \in Threads \ {u} : ~Concerns(v, p)
      BY FreeConcerns DEF OneThread
    <2>2. Names(c, p) => \A v \in Threads \ {t} : ~Concerns(v, p)
      BY FreeConcerns
    <2> QED BY <1>5, <2>1, <2>2
  <1>10. AliveKnown'
    BY <1>3 DEF AliveKnown
  <1>11. Synchronised'
    <2>1. \A u \in Threads : Done(u)' = Done(u) /\ \A i \in Done(u) : out'[u][i] = out[u][i]
      BY <1>1, <1>2, IdleFacts DEF Done, Sent
    <2> QED BY <1>3, <2>1, SameDone DEF Synchronised
  <1>12. DetachesKept'
    <2> SUFFICES ASSUME NEW u \in Threads, NEW i \in DOMAIN out'[u], out'[u][i].op = "detach",
                        NEW p, NEW s, p = out'[u][i].program, s = out'[u][i].shader
                 PROVE  Undeleted(u, i, s)' \/ AttachedBefore(u, i, p, s)'
      BY DEF DetachesKept
    <2>0. DOMAIN out[u] \subseteq DOMAIN out'[u] /\ \A k \in DOMAIN out[u] : out'[u][k] = out[u][k]
      BY <1>1, <1>2
    <2>1. CASE i \in DOMAIN out[u]
      <3>1. out'[u][i] = out[u][i] /\ Shape(out[u][i])
        BY <2>0, <2>1 DEF PacketsNamed
      <3>2. \A k \in DOMAIN out'[u] : k < i => k \in DOMAIN out[u]
        BY <1>1, <1>2, <2>1
      <3>3. CASE Undeleted(u, i, s)
        <4>1. ASSUME NEW v \in Threads, NEW j \in DOMAIN out'[v], Deletes(out'[v][j], s)
              PROVE  v = u /\ j > i
          <5>1. CASE v = t /\ j = Len(out[t]) + 1
            <6>1. Deletes(c, s) /\ s \in Shaders
              BY <1>2, <2>1, <3>1, <4>1, <5>1 DEF Shape
            <6>2. Free(t, s)
              BY <6>1
            <6>3. u = t
              BY <2>1, <3>1, <6>2 DEF Free, Names
            <6> QED BY <1>2, <2>1, <5>1, <6>3
          <5>2. CASE ~(v = t /\ j = Len(out[t]) + 1)
            <6>1. j \in DOMAIN out[v] /\ out'[v][j] = out[v][j]
              BY <1>1, <1>2, <4>1, <5>2
            <6> QED BY <3>3, <4>1, <6>1 DEF Undeleted
          <5> QED BY <5>1, <5>2
        <4> QED BY <1>3, <3>3, <4>1 DEF Undeleted
      <3>4. CASE AttachedBefore(u, i, p, s)
        BY <1>3, <2>0, <3>2, <3>4 DEF AttachedBefore
      <3> QED BY <2>1, <3>1, <3>3, <3>4 DEF DetachesKept
    <2>2. CASE i \notin DOMAIN out[u]
      <3>1. u = t /\ i = Len(out[t]) + 1 /\ out'[u][i] = c /\ c.op = "detach"
        BY <1>1, <1>2, <2>2
      <3>2. /\ p \in Programs /\ s \in Shaders /\ Free(t, p) /\ s \in alive \cup attached[p]
            /\ ~Deletes(c, s)
        <4>1. p \in Programs /\ s \in Shaders /\ ~Deletes(c, s)
          BY <3>1 DEF Shape, Deletes
        <4> QED BY <3>1, <4>1 DEF Names
      <3>3. CASE s \in alive
        <4>1. \A v \in Threads : \A j \in DOMAIN out'[v] : ~Deletes(out'[v][j], s)
          <5> SUFFICES ASSUME NEW v \in Threads, NEW j \in DOMAIN out'[v], Deletes(out'[v][j], s)
                       PROVE  FALSE
            OBVIOUS
          <5>1. j \in DOMAIN out[v] /\ out'[v][j] = out[v][j]
            BY <1>1, <1>2, <3>2
          <5> QED BY <3>2, <3>3, <5>1 DEF PacketsNamed
        <4>2. s \in hShaders \ hFlagged
          BY <3>2, <3>3 DEF AliveKnown
        <4> QED BY <1>3, <4>1, <4>2 DEF Undeleted
      <3>4. CASE s \in attached[p]
        <4>1. Done(t) = DOMAIN out[t]
          BY IdleFacts DEF Done, Sent
        <4>2. \A k \in DOMAIN out'[t] : k < i <=> k \in DOMAIN out[t]
          BY <1>2, <3>1
        <4>3. \A k \in DOMAIN out[t] : k \in DOMAIN out'[t] /\ k < i /\ out'[t][k] = out[t][k]
          BY <1>2, <3>1
        <4>4. CASE Quiet(p, s) /\ s \in hAttached[p]
          <5>1. \A k \in DOMAIN out'[t] : k < i => ~Affects(out'[t][k], p, s)
            BY <4>1, <4>2, <4>3, <4>4 DEF Quiet
          <5> QED BY <1>3, <3>1, <4>4, <5>1 DEF AttachedBefore
        <4>5. CASE AttachComes(p, s)
          <5>1. PICK v \in Threads : \E j \in Done(v) :
                   /\ out[v][j].op = "attach" /\ Affects(out[v][j], p, s)
                   /\ \A k \in Done(v) : k > j => ~Affects(out[v][k], p, s)
            BY <4>5 DEF AttachComes
          <5>2. PICK j \in Done(v) :
                   /\ out[v][j].op = "attach" /\ Affects(out[v][j], p, s)
                   /\ \A k \in Done(v) : k > j => ~Affects(out[v][k], p, s)
            BY <5>1
          <5>3. v = t
            BY <3>2, <5>2 DEF Free, Names, Affects, Done
          <5>4. j \in DOMAIN out[t] /\ \A k \in DOMAIN out[t] : k > j => ~Affects(out[t][k], p, s)
            BY <4>1, <5>2, <5>3
          <5>5. j \in DOMAIN out'[t] /\ j < i /\ out'[t][j] = out[t][j]
            BY <4>3, <5>4
          <5>6. ASSUME NEW k \in DOMAIN out'[t], j < k, k < i PROVE ~Affects(out'[t][k], p, s)
            <6>1. k \in DOMAIN out[t] /\ out'[t][k] = out[t][k] /\ k > j
              BY <1>2, <4>2, <4>3, <5>4, <5>6
            <6> QED BY <5>4, <6>1
          <5> QED BY <3>1, <5>2, <5>3, <5>5, <5>6 DEF AttachedBefore
        <4> QED BY <3>2, <3>4, <4>4, <4>5 DEF Synchronised
      <3> QED BY <3>2, <3>3, <3>4
    <2> QED BY <2>1, <2>2
  <1> QED BY <1>6, <1>7, <1>8, <1>9, <1>10, <1>11, <1>12

\* Entering a call that sends nothing yet, and leaving any call, disturbs no packet: a
\* thread may stop to name an object at any time, and starts only with a living one.
LEMMA CallProtocol ==
  ASSUME Typed, GroupProtocol, NEW t \in Threads, NEW c \in Calls,
         call' = [call EXCEPT ![t] = c], Shape(c), c.op \notin Sent,
         \A o \in Shaders \cup Programs : Names(c, o) => o \in alive,
         \A p \in Programs : Names(c, p) => Free(t, p),
         UNCHANGED <<alive, out, hShaders, hFlagged, hPrograms, hAttached>>, AliveKnown'
  PROVE  GroupProtocol'
  <1> USE DEF GroupProtocol
  <1>1. call'[t] = c /\ \A u \in Threads \ {t} : call'[u] = call[u]
    BY CallEffect
  <1>2. \A o : /\ Free(t, o)' <=> Free(t, o)
               /\ \A u \in Threads \ {t} : Concerns(u, o)' <=> Concerns(u, o)
               /\ Concerns(t, o)' => Concerns(t, o) \/ Names(c, o)
    BY <1>1 DEF Free, Concerns
  <1>3. CallsNamed'
    BY <1>1, NeedsFacts DEF CallsNamed
  <1>4. PacketsNamed'
    BY DEF PacketsNamed
  <1>5. DeletionLast'
    <2> SUFFICES ASSUME NEW u \in Threads, NEW i \in DOMAIN out[u],
                        NEW o \in Shaders \cup Programs, Deletes(out[u][i], o)
                 PROVE  /\ Unneeded(u, o)'
                        /\ \A j \in DOMAIN out[u] : j > i => ~Needs(out[u][j], o)
                        /\ Needs(call'[u], o) => call'[u].op \in Sent /\ i = Len(out[u])
      BY DEF DeletionLast
    <2>1. ~Needs(c, o)
      BY NeedsFacts DEF PacketsNamed
    <2>2. /\ Unneeded(u, o) /\ \A j \in DOMAIN out[u] : j > i => ~Needs(out[u][j], o)
          /\ Needs(call[u], o) => call[u].op \in Sent /\ i = Len(out[u])
      BY DEF DeletionLast
    <2>3. Unneeded(u, o)'
      BY <1>1, <2>1, <2>2 DEF Unneeded
    <2> QED BY <1>1, <2>1, <2>2, <2>3
  <1>6. OneThread'
    <2> SUFFICES ASSUME NEW u \in Threads, NEW p \in Programs, Concerns(u, p)'
                 PROVE  \A v \in Threads \ {u} : ~Concerns(v, p)'
      BY DEF OneThread, Free, Concerns
    <2>1. Concerns(u, p) => \A v \in Threads \ {u} : ~Concerns(v, p)
      BY FreeConcerns DEF OneThread
    <2>2. Names(c, p) => \A v \in Threads \ {t} : ~Concerns(v, p)
      BY FreeConcerns
    <2> QED BY <1>2, <2>1, <2>2
  <1>7. DetachesKept'
    BY DEF DetachesKept, Undeleted, AttachedBefore
  <1> QED BY <1>3, <1>4, <1>5, <1>6, <1>7

\* When the call of a packet is over the packet counts: it decides about the attachments
\* it affects, since it is the last packet about its program, and about no other.
LEMMA ReturnEffect ==
  ASSUME Typed, GroupProtocol, NEW t \in Threads, call[t].op \in Sent, Return(t),
         UNCHANGED out, NEW p \in Programs, NEW s \in Shaders
  PROVE  /\ Affects(call[t], p, s) =>
               (AttachComes(p, s)' <=> call[t].op = "attach") /\ ~Quiet(p, s)'
         /\ ~Affects(call[t], p, s) =>
               (AttachComes(p, s)' <=> AttachComes(p, s)) /\ (Quiet(p, s)' <=> Quiet(p, s))
  <1> USE DEF GroupProtocol
  <1> DEFINE n == Len(out[t])
  <1>1. call'[t] = Idle /\ \A u \in Threads \ {t} : call'[u] = call[u]
    BY CallEffect, IdleFacts DEF Return
  <1>2. /\ n \in Nat \ {0} /\ DOMAIN out[t] = 1 .. n /\ out[t][n] = call[t]
    BY DEF CallsNamed, Typed
  <1>3. /\ Done(t)' = DOMAIN out[t] /\ Done(t) = 1 .. n - 1
        /\ \A u \in Threads \ {t} : Done(u)' = Done(u)
    BY <1>1, <1>2, IdleFacts DEF Done, Sent
  <1> HIDE DEF n
  <1>4. CASE Affects(call[t], p, s)
    <2>1. \A u \in Threads \ {t} : \A i \in DOMAIN out[u] : ~Affects(out[u][i], p, s)
      BY <1>4, FreeConcerns DEF OneThread, Free, Concerns, Names, Affects
    <2>2. \A u \in Threads \ {t} : \A i \in Done(u)' : ~Affects(out[u][i], p, s)
      BY <2>1 DEF Done
    <2>3. ~Quiet(p, s)'
      BY <1>2, <1>3, <1>4 DEF Quiet
    <2>4. call[t].op = "attach" => AttachComes(p, s)'
      BY <1>2, <1>3, <1>4 DEF AttachComes
    <2>5. AttachComes(p, s)' => call[t].op = "attach"
      BY <1>2, <1>3, <1>4, <2>2 DEF AttachComes
    <2> QED BY <1>4, <2>3, <2>4, <2>5
  <1>5. CASE ~Affects(call[t], p, s)
    <2>1. \A u \in Threads : \A i \in Done(u)' :
             Affects(out[u][i], p, s) => i \in Done(u)
      BY <1>2, <1>3, <1>5
    <2>2. \A u \in Threads : Done(u) \subseteq Done(u)'
      BY <1>2, <1>3
    <2> QED BY <1>5, <2>1, <2>2 DEF AttachComes, Quiet
  <1> QED BY <1>4, <1>5

\* s_glShaderSource writes its packet at its end: a shader source affects no attachment,
\* and the shader is alive as long as the call runs.
LEMMA SourceProtocol ==
  ASSUME Typed, GroupProtocol, Synchronised, NEW t \in Threads, call[t].op = "source",
         out' = [out EXCEPT ![t] = Append(@, call[t])], Return(t),
         UNCHANGED <<alive, m_programs, attached, host>>
  PROVE  GroupProtocol' /\ Synchronised'
  <1> USE DEF GroupProtocol
  <1> DEFINE c == call[t]
  <1>0. c \in Calls /\ Shape(c) /\ \A o \in Shaders \cup Programs : Names(c, o) => o \in alive
    BY CallTypes, NeedsFacts DEF CallsNamed
  <1>1. /\ call'[t] = Idle /\ \A u \in Threads \ {t} : call'[u] = call[u] /\ out'[u] = out[u]
    BY <1>0, CallEffect, AppendEffect, IdleFacts DEF Return
  <1>2. /\ Len(out[t]) \in Nat /\ Len(out'[t]) = Len(out[t]) + 1
        /\ DOMAIN out[t] = 1 .. Len(out[t]) /\ DOMAIN out'[t] = 1 .. Len(out[t]) + 1
        /\ out'[t][Len(out[t]) + 1] = c /\ \A i \in DOMAIN out[t] : out'[t][i] = out[t][i]
    BY <1>0, AppendEffect
  <1>3. UNCHANGED <<hShaders, hFlagged, hPrograms, hAttached, hLinked>>
    BY DEF host
  <1>4. c.shader \in Shaders /\ c.program = NoObject /\ c.shader \in alive
        /\ \A o \in Shaders \cup Programs : Names(c, o) <=> o = c.shader
    BY <1>0, Distinct DEF Shape, Names
  <1>5. \A o \in Shaders \cup Programs : \A u \in Threads :
           Concerns(u, o)' => Concerns(u, o)
    BY <1>1, <1>2, IdleFacts DEF Concerns
  <1>6. CallsNamed'
    BY <1>1, IdleFacts DEF CallsNamed, Sent
  <1>7. PacketsNamed'
    <2>1. ASSUME NEW u \in Threads, NEW i \in DOMAIN out'[u], out'[u][i] # c
          PROVE  i \in DOMAIN out[u] /\ out'[u][i] = out[u][i]
      BY <1>1, <1>2, <2>1
    <2>2. /\ c.op \notin {"link", "none"}
          /\ \A s \in Shaders : Needs(c, s) => s \in hShaders \ hFlagged
          /\ \A p \in Programs : ~Names(c, p)
          /\ \A o \in Shaders \cup Programs : ~Deletes(c, o)
      BY <1>4, Distinct DEF AliveKnown, Deletes, Needs
    <2> QED BY <1>0, <1>3, <2>1, <2>2 DEF PacketsNamed
  <1>8. DeletionLast'
    <2> SUFFICES ASSUME NEW u \in Threads, NEW i \in DOMAIN out'[u],
                        NEW o \in Shaders \cup Programs, Deletes(out'[u][i], o)
                 PROVE  /\ Unneeded(u, o)'
                        /\ \A j \in DOMAIN out'[u] : j > i => ~Needs(out'[u][j], o)
                        /\ Needs(call'[u], o) => call'[u].op \in Sent /\ i = Len(out'[u])
      BY DEF DeletionLast
    <2>1. i \in DOMAIN out[u] /\ out'[u][i] = out[u][i]
      BY <1>1, <1>2 DEF Deletes
    <2>2. ~Names(c, o)
      BY <1>4, <2>1 DEF PacketsNamed
    <2>3. /\ Unneeded(u, o) /\ \A j \in DOMAIN out[u] : j > i => ~Needs(out[u][j], o)
          /\ Needs(call[u], o) => call[u].op \in Sent /\ i = Len(out[u])
      BY <2>1 DEF DeletionLast
    <2>4. ~Needs(c, o) /\ ~Needs(Idle, o)
      BY <2>2, IdleFacts DEF Needs
    <2>5. Unneeded(u, o)'
      <3>1. ASSUME NEW v \in Threads \ {u}
            PROVE  ~Needs(call'[v], o) /\ \A j \in DOMAIN out'[v] : ~Needs(out'[v][j], o)
        <4>1. CASE v = t
          BY <1>1, <1>2, <2>3, <2>4, <4>1 DEF Unneeded
        <4>2. CASE v # t
          BY <1>1, <2>3, <4>2 DEF Unneeded
        <4> QED BY <4>1, <4>2
      <3> QED BY <3>1 DEF Unneeded
    <2> QED BY <1>1, <1>2, <2>3, <2>4, <2>5
  <1>9. OneThread'
    BY <1>5, FreeConcerns DEF OneThread, Free, Concerns
  <1>10. AliveKnown'
    BY <1>3 DEF AliveKnown
  <1>11. Synchronised'
    <2>1. Done(t)' = Done(t) \cup {Len(out[t]) + 1}
      BY <1>1, <1>2, IdleFacts DEF Done, Sent
    <2>2. \A u \in Threads \ {t} : Done(u)' = Done(u)
      BY <1>1 DEF Done
    <2>3. \A p \in Programs, s \in Shaders : ~Affects(c, p, s)
      BY DEF Affects
    <2>4. \A u \in Threads : \A i \in Done(u) : out'[u][i] = out[u][i]
      BY <1>1, <1>2 DEF Done
    <2>5. ASSUME NEW p \in Programs, NEW s \in Shaders
          PROVE  (AttachComes(p, s)' <=> AttachComes(p, s)) /\ (Quiet(p, s)' <=> Quiet(p, s))
      <3>1. \A u \in Threads : \A i \in Done(u)' :
               Affects(out'[u][i], p, s) => i \in Done(u)
        BY <1>2, <2>1, <2>2, <2>3
      <3>2. \A u \in Threads : Done(u) \subseteq Done(u)'
        BY <2>1, <2>2
      <3> QED BY <2>4, <3>1, <3>2, SameDone
    <2> QED BY <1>3, <2>5 DEF Synchronised
  <1>12. DetachesKept'
    <2> SUFFICES ASSUME NEW u \in Threads, NEW i \in DOMAIN out'[u], out'[u][i].op = "detach",
                        NEW p, NEW s, p = out'[u][i].program, s = out'[u][i].shader
                 PROVE  Undeleted(u, i, s)' \/ AttachedBefore(u, i, p, s)'
      BY DEF DetachesKept
    <2>1. i \in DOMAIN out[u] /\ out'[u][i] = out[u][i]
      BY <1>1, <1>2
    <2>2. /\ DOMAIN out[u] \subseteq DOMAIN out'[u] /\ \A k \in DOMAIN out[u] : out'[u][k] = out[u][k]
          /\ \A k \in DOMAIN out'[u] : k < i => k \in DOMAIN out[u]
      BY <1>1, <1>2, <2>1
    <2>3. CASE Undeleted(u, i, s)
      <3>1. \A v \in Threads : \A j \in DOMAIN out'[v] : Deletes(out'[v][j], s) =>
                j \in DOMAIN out[v] /\ out'[v][j] = out[v][j]
        BY <1>1, <1>2 DEF Deletes
      <3> QED BY <1>3, <2>3, <3>1 DEF Undeleted
    <2>4. CASE AttachedBefore(u, i, p, s)
      BY <1>3, <2>2, <2>4 DEF AttachedBefore
    <2> QED BY <2>1, <2>3, <2>4 DEF DetachesKept
  <1> QED BY <1>6, <1>7, <1>8, <1>9, <1>10, <1>11, <1>12

\* A name the host is free to give is named by no call or packet, alive or on a list.
LEMMA Fresh ==
  ASSUME Typed, GroupProtocol, Synchronised,
         NEW o \in (Shaders \ hShaders) \cup (Programs \ hPrograms)
  PROVE  /\ o \notin alive /\ \A t \in Threads : ~Concerns(t, o)
         /\ \A p \in Programs : o \notin attached[p]
         /\ o \in Programs => hAttached[o] = {} /\ hLinked[o] = <<>> /\ attached[o] = {}
  <1> USE DEF GroupProtocol
  <1>1. o \notin alive
    BY Distinct DEF AliveKnown
  <1>2. \A t \in Threads : \A i \in DOMAIN out[t] : ~Names(out[t][i], o)
    BY Distinct, NamedKept DEF PacketsNamed
  <1>3. ASSUME NEW t \in Threads PROVE ~Names(call[t], o)
    <2>1. CASE call[t].op \in Sent
      <3>1. Len(out[t]) \in DOMAIN out[t] /\ out[t][Len(out[t])] = call[t]
        BY <2>1 DEF CallsNamed, Typed
      <3> QED BY <1>2, <3>1
    <2>2. CASE call[t].op = "none"
      BY <2>2, IdleFacts DEF CallsNamed, Shape
    <2>3. CASE call[t].op \notin Sent \cup {"none"}
      BY <1>1, <2>3, CallTypes, NeedsFacts DEF CallsNamed, Sent
    <2> QED BY <2>1, <2>2, <2>3
  <1>4. \A p \in Programs, s \in Shaders : o \in {p, s} => ~AttachComes(p, s)
    BY <1>2 DEF AttachComes, Affects, Names, Done
  <1>5. \A p \in Programs : o \notin attached[p]
    BY <1>4, Distinct DEF Synchronised, Typed
  <1>6. o \in Programs => hAttached[o] = {} /\ hLinked[o] = <<>>
    BY Distinct DEF AliveKnown
  <1>7. o \in Programs => attached[o] = {}
    BY <1>4, <1>6 DEF Synchronised, Typed
  <1> QED BY <1>1, <1>2, <1>3, <1>5, <1>6, <1>7 DEF Concerns

\* A new object breaks no order of packets, and is attached to nothing.
LEMMA CreateProtocol ==
  ASSUME Typed, GroupProtocol, Synchronised,
         NEW o \in (Shaders \ hShaders) \cup (Programs \ hPrograms),
         alive' = alive \cup {o}, UNCHANGED <<call, out, hFlagged, hAttached, hLinked>>,
         hShaders' = hShaders \cup ({o} \cap Shaders),
         hPrograms' = hPrograms \cup ({o} \cap Programs),
         m_programs' = m_programs \cup ({o} \cap Programs),
         \A p \in Programs : attached'[p] = IF p = o THEN {} ELSE attached[p]
  PROVE  GroupProtocol' /\ Synchronised'
  <1> USE DEF GroupProtocol
  <1>1. /\ \A t \in Threads : ~Concerns(t, o)
        /\ \A p \in Programs : attached'[p] = attached[p]
    BY Fresh
  <1>2. \A t \in Threads : \A i \in DOMAIN out[t] : ~Names(out[t][i], o)
    BY <1>1 DEF Concerns
  <1>3. CallsNamed'
    BY DEF CallsNamed
  <1>4. PacketsNamed'
    <2>1. \A t \in Threads : \A i \in DOMAIN out[t] : ~Deletes(out[t][i], o)
      BY <1>2 DEF Deletes, Names
    <2> QED BY <2>1 DEF PacketsNamed
  <1>5. DeletionLast' /\ OneThread'
    BY DEF DeletionLast, Unneeded, OneThread, Free, Concerns
  <1>6. AliveKnown'
    <2>1. o \notin hFlagged
      BY Distinct DEF Typed
    <2> QED BY <2>1, Distinct DEF AliveKnown, Typed
  <1>7. Synchronised'
    <2>1. \A u \in Threads : Done(u)' = Done(u)
      BY DEF Done
    <2> QED BY <1>1, <2>1, SameDone DEF Synchronised
  <1>8. DetachesKept'
    BY DEF DetachesKept, Undeleted, AttachedBefore
  <1> QED BY <1>3, <1>4, <1>5, <1>6, <1>7, <1>8

\* The effect on the packets of the host's executing one, which is one of a call that is
\* over.
LEMMA TailEffect ==
  ASSUME Typed, GroupProtocol, NEW t \in Threads, out[t] # <<>>, Executable(t),
         out' = [out EXCEPT ![t] = Tail(@)], UNCHANGED call
  PROVE  /\ out' \in [Threads -> Seq(Calls)]
         /\ \A u \in Threads \ {t} : out'[u] = out[u]
         /\ Len(out[t]) \in Nat \ {0} /\ Len(out'[t]) = Len(out[t]) - 1
         /\ DOMAIN out[t] = 1 .. Len(out[t]) /\ DOMAIN out'[t] = 1 .. Len(out[t]) - 1
         /\ Head(out[t]) = out[t][1] /\ out[t][1] \in Calls
         /\ \A i \in DOMAIN out'[t] : i + 1 \in DOMAIN out[t] /\ out'[t][i] = out[t][i + 1]
         /\ 1 \in Done(t) /\ \A i \in DOMAIN out'[t] : i \in Done(t)' <=> i + 1 \in Done(t)
         /\ \A u \in Threads \ {t} : Done(u)' = Done(u)
         /\ call[t].op \in Sent => Len(out[t]) > 1
  <1>1. out[t] \in Seq(Calls) /\ out'[t] = Tail(out[t])
        /\ \A u \in Threads \ {t} : out'[u] = out[u]
    BY DEF Typed
  <1>2. Tail(out[t]) \in Seq(Calls) /\ Len(Tail(out[t])) = Len(out[t]) - 1
    BY <1>1
  <1>3. out' \in [Threads -> Seq(Calls)]
    BY <1>1, <1>2 DEF Typed
  <1>4. Len(out[t]) \in Nat \ {0} /\ Len(out'[t]) = Len(out[t]) - 1
         /\ DOMAIN out[t] = 1 .. Len(out[t]) /\ DOMAIN out'[t] = 1 .. Len(out[t]) - 1
    <2>1. Len(out[t]) \in Nat \ {0} /\ DOMAIN out[t] = 1 .. Len(out[t])
      BY <1>1
    <2>2. out'[t] \in Seq(Calls) /\ Len(out'[t]) = Len(out[t]) - 1
      BY <1>1, <1>2
    <2>3. DOMAIN out'[t] = 1 .. Len(out'[t])
      BY <2>2
    <2> QED BY <2>1, <2>2, <2>3
  <1>5. /\ Head(out[t]) = out[t][1] /\ out[t][1] \in Calls
        /\ \A i \in DOMAIN out'[t] : i + 1 \in DOMAIN out[t] /\ out'[t][i] = out[t][i + 1]
    BY <1>1, <1>4
  <1>6. call[t].op \in Sent => Len(out[t]) > 1
    BY DEF Executable, Sent
  <1>7. 1 \in Done(t) /\ \A i \in DOMAIN out'[t] : i \in Done(t)' <=> i + 1 \in Done(t)
    <2>2. \A i \in DOMAIN out'[t] : i \in Done(t)' <=> (call[t].op \in Sent => i # Len(out'[t]))
      BY DEF Done
    <2>3. \A i \in DOMAIN out[t] : i \in Done(t) <=> (call[t].op \in Sent => i # Len(out[t]))
      BY DEF Done
    <2>1. 1 \in Done(t)
      <3>1. 1 \in DOMAIN out[t]
        BY <1>4
      <3>2. call[t].op \in Sent => 1 # Len(out[t])
        BY <1>4, <1>6
      <3> QED BY <2>3, <3>1, <3>2
    <2> QED BY <1>4, <1>5, <2>1, <2>2, <2>3
  <1>8. \A u \in Threads \ {t} : Done(u)' = Done(u)
    BY <1>1 DEF Done
  <1> QED BY <1>1, <1>3, <1>4, <1>5, <1>6, <1>7, <1>8

\* The host's list of a program after it executed packet c.
LEMMA HostAttaches ==
  ASSUME Typed, GroupProtocol, NEW t \in Threads, HostExecute(t), NEW c, c = Head(out[t])
  PROVE  /\ hAttached' \in [Programs -> SUBSET Shaders]
         /\ \A p \in Programs, s \in Shaders :
              s \in hAttached'[p] <=>
                 IF Affects(c, p, s) THEN c.op = "attach" ELSE s \in hAttached[p]
  <1>1. c \in Calls /\ Shape(c) /\ c.op \notin {"link", "none"}
    <2>1. out[t] # <<>> /\ Executable(t) /\ out' = [out EXCEPT ![t] = Tail(@)] /\ UNCHANGED call
      BY DEF HostExecute
    <2>2. /\ c = out[t][1] /\ c \in Calls
          /\ Len(out[t]) \in Nat \ {0} /\ DOMAIN out[t] = 1 .. Len(out[t])
      BY <2>1, TailEffect
    <2>3. 1 \in DOMAIN out[t]
      BY <2>2
    <2> QED BY <2>2, <2>3 DEF GroupProtocol, PacketsNamed
  <1>2. CASE c.op = "attach"
    <2>1. hAttached' = [hAttached EXCEPT ![c.program] = @ \cup {c.shader}]
      BY <1>2 DEF HostExecute
    <2> QED BY <1>1, <1>2, <2>1 DEF Typed, Affects, Shape
  <1>3. CASE c.op = "detach"
    <2>1. hAttached' = [hAttached EXCEPT ![c.program] = @ \ {c.shader}]
      BY <1>3 DEF HostExecute
    <2> QED BY <1>1, <1>3, <2>1 DEF Typed, Affects, Shape
  <1>4. CASE c.op = "deleteProgram"
    <2>1. hAttached' = [hAttached EXCEPT ![c.program] = {}]
      BY <1>4 DEF HostExecute
    <2> QED BY <1>1, <1>4, <2>1 DEF Typed, Affects, Shape
  <1>5. CASE c.op \in {"source", "deleteShader"}
    <2>1. hAttached' = hAttached
      BY <1>5 DEF HostExecute
    <2> QED BY <1>5, <2>1 DEF Typed, Affects
  <1>6. c.op \in Ops
    BY <1>1 DEF Calls
  <1> QED BY <1>1, <1>2, <1>3, <1>4, <1>5, <1>6 DEF Ops

\* What the host's execution of a packet leaves: objects it deletes are not named by what
\* is still under way, and the others stay.
LEMMA HostProtocol ==
  ASSUME Typed, GroupProtocol, NEW t \in Threads, HostExecute(t)
  PROVE  GroupProtocol'
  <1> USE DEF GroupProtocol
  <1> DEFINE c == Head(out[t])
  <1>1. /\ \A u \in Threads \ {t} : out'[u] = out[u]
        /\ Len(out[t]) \in Nat \ {0} /\ Len(out'[t]) = Len(out[t]) - 1
        /\ DOMAIN out[t] = 1 .. Len(out[t]) /\ DOMAIN out'[t] = 1 .. Len(out[t]) - 1
        /\ c = out[t][1] /\ c \in Calls
        /\ \A i \in DOMAIN out'[t] : i + 1 \in DOMAIN out[t] /\ out'[t][i] = out[t][i + 1]
        /\ call[t].op \in Sent => Len(out[t]) > 1
    BY TailEffect DEF HostExecute
  <1>2. UNCHANGED <<alive, call, m_programs>>
    BY DEF HostExecute, group
  <1>3. /\ Shape(c) /\ c.op \notin {"link", "none"} /\ 1 \in DOMAIN out[t]
        /\ \A s \in Shaders : Needs(c, s) => s \in hShaders \ hFlagged
        /\ \A p \in Programs : Names(c, p) => p \in hPrograms
        /\ \A o \in Shaders \cup Programs : Deletes(c, o) => o \notin alive
    BY <1>1 DEF PacketsNamed
  <1>4. \A o \in Shaders \cup Programs : Deletes(c, o) =>
           /\ Unneeded(t, o) /\ \A j \in DOMAIN out'[t] : ~Needs(out'[t][j], o)
    <2> TAKE o \in Shaders \cup Programs
    <2> HAVE Deletes(c, o)
    <2>1. Unneeded(t, o) /\ \A j \in DOMAIN out[t] : j > 1 => ~Needs(out[t][j], o)
      BY <1>1, <1>3 DEF DeletionLast
    <2> QED BY <1>1, <2>1
  <1>5. \A o \in Shaders \cup Programs : Deletes(c, o) =>
           \A u \in Threads : \A j \in DOMAIN out'[u] : ~Needs(out'[u][j], o)
    BY <1>1, <1>4 DEF Unneeded
  <1>6. \A s \in Shaders : s \in hShaders \ hFlagged /\ ~Deletes(c, s) => s \in hShaders' \ hFlagged'
    BY DEF HostExecute, Kept, Deletes
  <1>7. \A p \in Programs : p \in hPrograms /\ ~Deletes(c, p) => p \in hPrograms'
    BY DEF HostExecute, Deletes
  <1>8. \A u \in Threads : \A i \in DOMAIN out'[u] :
           \E j \in DOMAIN out[u] : out'[u][i] = out[u][j]
    BY <1>1
  <1> HIDE DEF c
  <1>9. CallsNamed'
    <2>1. ASSUME NEW u \in Threads, call[u].op \in Sent
          PROVE  out'[u] # <<>> /\ out'[u][Len(out'[u])] = call[u]
      <3>1. CASE u = t
        <4>1. Len(out'[t]) \in DOMAIN out'[t]
          BY <1>1, <2>1, <3>1
        <4>2. Len(out'[t]) + 1 = Len(out[t])
          BY <1>1
        <4>3. out'[t][Len(out'[t])] = out[t][Len(out[t])]
          BY <1>1, <4>1, <4>2
        <4> QED BY <2>1, <3>1, <4>1, <4>3 DEF CallsNamed
      <3>2. CASE u # t
        BY <1>1, <2>1, <3>2 DEF CallsNamed
      <3> QED BY <3>1, <3>2
    <2> QED BY <1>2, <2>1 DEF CallsNamed
  <1>10. PacketsNamed'
    <2>1. ASSUME NEW u \in Threads, NEW i \in DOMAIN out'[u]
          PROVE  /\ Shape(out'[u][i]) /\ out'[u][i].op \notin {"link", "none"}
                 /\ \A s \in Shaders : Needs(out'[u][i], s) => s \in hShaders' \ hFlagged'
                 /\ \A p \in Programs : Names(out'[u][i], p) => p \in hPrograms'
                 /\ \A o \in Shaders \cup Programs : Deletes(out'[u][i], o) => o \notin alive'
      <3>1. /\ Shape(out'[u][i]) /\ out'[u][i].op \notin {"link", "none"}
            /\ \A s \in Shaders : Needs(out'[u][i], s) => s \in hShaders \ hFlagged
            /\ \A p \in Programs : Names(out'[u][i], p) => p \in hPrograms
            /\ \A o \in Shaders \cup Programs : Deletes(out'[u][i], o) => o \notin alive
        BY <1>8 DEF PacketsNamed
      <3>2. \A p \in Programs : Names(out'[u][i], p) => Needs(out'[u][i], p)
        BY <1>8, CallTypes, NeedsFacts
      <3> QED BY <1>2, <1>5, <1>6, <1>7, <3>1, <3>2
    <2> QED BY <2>1 DEF PacketsNamed
  <1>11. DeletionLast'
    <2> SUFFICES ASSUME NEW u \in Threads, NEW i \in DOMAIN out'[u],
                        NEW o \in Shaders \cup Programs, Deletes(out'[u][i], o)
                 PROVE  /\ Unneeded(u, o)'
                        /\ \A j \in DOMAIN out'[u] : j > i => ~Needs(out'[u][j], o)
                        /\ Needs(call[u], o) => call[u].op \in Sent /\ i = Len(out'[u])
      BY <1>2 DEF DeletionLast
    <2>1. CASE u = t
      <3>1. i + 1 \in DOMAIN out[t] /\ Deletes(out[t][i + 1], o)
        BY <1>1, <2>1
      <3>2. /\ Unneeded(t, o) /\ \A j \in DOMAIN out[t] : j > i + 1 => ~Needs(out[t][j], o)
            /\ Needs(call[t], o) => call[t].op \in Sent /\ i + 1 = Len(out[t])
        BY <3>1 DEF DeletionLast
      <3>3. Unneeded(t, o)'
        BY <1>1, <1>2, <3>2 DEF Unneeded
      <3> QED BY <1>1, <2>1, <3>2, <3>3
    <2>2. CASE u # t
      <3>1. /\ Unneeded(u, o) /\ \A j \in DOMAIN out[u] : j > i => ~Needs(out[u][j], o)
            /\ Needs(call[u], o) => call[u].op \in Sent /\ i = Len(out[u])
        BY <1>1, <2>2 DEF DeletionLast
      <3>2. Unneeded(u, o)'
        BY <1>8, <1>2, <3>1 DEF Unneeded
      <3> QED BY <1>1, <2>2, <3>1, <3>2
    <2> QED BY <2>1, <2>2
  <1>12. OneThread'
    <2>1. \A u \in Threads, p \in Programs : Concerns(u, p)' => Concerns(u, p)
      BY <1>2, <1>8 DEF Concerns
    <2> QED BY <2>1, FreeConcerns DEF OneThread, Free, Concerns
  <1>13. AliveKnown'
    <2>1. alive' \cap Shaders \subseteq hShaders' \ hFlagged'
      BY <1>2, <1>3, <1>6 DEF AliveKnown
    <2>2. alive' \cap Programs \subseteq hPrograms' \cap m_programs'
      BY <1>2, <1>3, <1>7 DEF AliveKnown
    <2>3. ASSUME NEW p \in Programs \ hPrograms' PROVE hAttached'[p] = {} /\ hLinked'[p] = <<>>
      <3>1. CASE p \in hPrograms
        BY <3>1, <2>3 DEF HostExecute, Typed
      <3>2. CASE p \notin hPrograms
        <4>1. p # c.program /\ hAttached[p] = {} /\ hLinked[p] = <<>>
          BY <1>3, <3>2 DEF AliveKnown, Names
        <4> QED BY <4>1 DEF HostExecute, Typed, c
      <3> QED BY <3>1, <3>2
    <2> QED BY <2>1, <2>2, <2>3 DEF AliveKnown
  <1>14. DetachesKept'
    <2> SUFFICES ASSUME NEW u \in Threads, NEW i \in DOMAIN out'[u], out'[u][i].op = "detach",
                        NEW p, NEW s, p = out'[u][i].program, s = out'[u][i].shader
                 PROVE  Undeleted(u, i, s)' \/ AttachedBefore(u, i, p, s)'
      BY DEF DetachesKept
    <2>1. PICK m \in DOMAIN out[u] : out'[u][i] = out[u][m] /\ m = IF u = t THEN i + 1 ELSE i
      BY <1>1
    <2>2. p \in Programs /\ s \in Shaders
      BY <2>1 DEF PacketsNamed, Shape
    <2>3. s \in hAttached'[p] <=> IF Affects(c, p, s) THEN c.op = "attach" ELSE s \in hAttached[p]
      BY <2>2, HostAttaches DEF c
    <2>4. ASSUME Undeleted(u, m, s) PROVE Undeleted(u, i, s)'
      <3>1. ~Deletes(c, s)
        BY <1>1, <1>3, <2>1, <2>4 DEF Undeleted
      <3>2. s \in hShaders' \ hFlagged'
        BY <1>6, <2>2, <2>4, <3>1 DEF Undeleted
      <3>3. ASSUME NEW v \in Threads, NEW j \in DOMAIN out'[v], Deletes(out'[v][j], s)
            PROVE  v = u /\ j > i
        <4>1. PICK n \in DOMAIN out[v] : out'[v][j] = out[v][n] /\ n = IF v = t THEN j + 1 ELSE j
          BY <1>1, <3>3
        <4>2. v = u /\ n > m
          BY <2>4, <3>3, <4>1 DEF Undeleted
        <4> QED BY <1>1, <2>1, <4>1, <4>2
      <3> QED BY <3>2, <3>3 DEF Undeleted
    <2>5. ASSUME AttachedBefore(u, m, p, s), u # t PROVE AttachedBefore(u, i, p, s)'
      <3>1. ~Affects(c, p, s)
        <4>1. Concerns(u, p)
          BY <2>1 DEF Concerns, Names
        <4>2. ~Concerns(t, p)
          BY <2>2, <2>5, <4>1, FreeConcerns DEF OneThread
        <4> QED BY <1>1, <1>3, <4>2 DEF Concerns, Names, Affects
      <3> QED BY <1>1, <2>1, <2>3, <2>5, <3>1 DEF AttachedBefore
    <2>6. ASSUME AttachedBefore(t, m, p, s), u = t PROVE AttachedBefore(t, i, p, s)'
      <3>0. m = i + 1 /\ i \in Nat /\ \A k \in DOMAIN out'[t] : k \in Nat
        BY <1>1, <2>1, <2>6
      <3>1. CASE s \in hAttached[p] /\ \A k \in DOMAIN out[t] : k < m => ~Affects(out[t][k], p, s)
        <4>1. ~Affects(c, p, s)
          BY <1>1, <1>3, <2>6, <3>0, <3>1
        <4>2. ASSUME NEW k \in DOMAIN out'[t], k < i PROVE ~Affects(out'[t][k], p, s)
          BY <1>1, <3>0, <3>1, <4>2
        <4> QED BY <2>3, <3>1, <4>1, <4>2 DEF AttachedBefore
      <3>2. ASSUME NEW j \in DOMAIN out[t], j < m, out[t][j].op = "attach",
                   Affects(out[t][j], p, s),
                   \A k \in DOMAIN out[t] : j < k /\ k < m => ~Affects(out[t][k], p, s)
            PROVE  AttachedBefore(t, i, p, s)'
        <4>1. CASE j = 1
          <5>1. s \in hAttached'[p]
            BY <1>1, <2>3, <3>2, <4>1
          <5>2. ASSUME NEW k \in DOMAIN out'[t], k < i PROVE ~Affects(out'[t][k], p, s)
            <6>1. /\ k + 1 \in DOMAIN out[t] /\ out'[t][k] = out[t][k + 1]
                  /\ 1 < k + 1 /\ k + 1 < m
              BY <1>1, <3>0, <5>2
            <6> QED BY <3>2, <4>1, <6>1
          <5> QED BY <5>1, <5>2 DEF AttachedBefore
        <4>2. CASE j # 1
          <5>1. /\ j - 1 \in DOMAIN out'[t] /\ (j - 1) + 1 = j /\ j - 1 < i
            BY <1>1, <3>0, <3>2, <4>2
          <5>2. out'[t][j - 1] = out[t][j]
            BY <1>1, <5>1
          <5>3. ASSUME NEW k \in DOMAIN out'[t], j - 1 < k, k < i PROVE ~Affects(out'[t][k], p, s)
            <6>1. /\ k + 1 \in DOMAIN out[t] /\ out'[t][k] = out[t][k + 1]
                  /\ j < k + 1 /\ k + 1 < m
              BY <1>1, <3>0, <5>3
            <6> QED BY <3>2, <6>1
          <5> QED BY <3>2, <5>1, <5>2, <5>3 DEF AttachedBefore
        <4> QED BY <4>1, <4>2
      <3> QED BY <2>6, <3>1, <3>2 DEF AttachedBefore
    <2> QED BY <2>1, <2>4, <2>5, <2>6 DEF DetachesKept
  <1> QED BY <1>9, <1>10, <1>11, <1>12, <1>13, <1>14

\* The host executes a packet: its list becomes what the guest's list says for the
\* attachments the packet decides, and the later packets decide as before.
LEMMA HostSync ==
  ASSUME Typed, GroupProtocol, Synchronised, NEW t \in Threads, HostExecute(t)
  PROVE  Synchronised'
  <1> DEFINE c == Head(out[t])
  <1>1. /\ \A u \in Threads \ {t} : out'[u] = out[u] /\ Done(u)' = Done(u)
        /\ Len(out[t]) \in Nat \ {0}
        /\ DOMAIN out[t] = 1 .. Len(out[t]) /\ DOMAIN out'[t] = 1 .. Len(out[t]) - 1
        /\ c = out[t][1] /\ 1 \in Done(t)
    BY TailEffect DEF HostExecute
  <1>2. Done(t) \subseteq 1 .. Len(out[t]) /\ Done(t)' \subseteq 1 .. Len(out[t]) - 1
    BY <1>1 DEF Done
  <1>3. \A i \in Done(t)' : i + 1 \in Done(t) /\ out'[t][i] = out[t][i + 1]
    BY TailEffect, <1>1, <1>2 DEF HostExecute
  <1>4. \A j \in Done(t) : j > 1 => j - 1 \in Done(t)' /\ out'[t][j - 1] = out[t][j]
    <2> TAKE j \in Done(t)
    <2> HAVE j > 1
    <2>1. j - 1 \in DOMAIN out'[t] /\ (j - 1) + 1 = j
      BY <1>1, <1>2
    <2>2. \A i \in DOMAIN out'[t] : (i \in Done(t)' <=> i + 1 \in Done(t)) /\ out'[t][i] = out[t][i + 1]
      BY TailEffect DEF HostExecute
    <2> QED BY <2>1, <2>2
  <1> SUFFICES ASSUME NEW p \in Programs, NEW s \in Shaders
               PROVE  s \in attached'[p] <=>
                        (AttachComes(p, s)' \/ (Quiet(p, s)' /\ s \in hAttached'[p]))
    BY DEF Synchronised
  <1>5. /\ attached' = attached
        /\ s \in attached[p] <=> (AttachComes(p, s) \/ (Quiet(p, s) /\ s \in hAttached[p]))
        /\ s \in hAttached'[p] <=> IF Affects(c, p, s) THEN c.op = "attach" ELSE s \in hAttached[p]
    BY HostAttaches DEF Synchronised, HostExecute, group
  <1> HIDE DEF c
  <1>6. AttachComes(p, s)' => AttachComes(p, s)
    <2> HAVE AttachComes(p, s)'
    <2>1. PICK u \in Threads : \E i \in Done(u)' :
             /\ out'[u][i].op = "attach" /\ Affects(out'[u][i], p, s)
             /\ \A j \in Done(u)' : j > i => ~Affects(out'[u][j], p, s)
      BY DEF AttachComes
    <2>2. PICK i \in Done(u)' :
             /\ out'[u][i].op = "attach" /\ Affects(out'[u][i], p, s)
             /\ \A j \in Done(u)' : j > i => ~Affects(out'[u][j], p, s)
      BY <2>1
    <2>3. CASE u # t
      BY <1>1, <2>2, <2>3 DEF AttachComes
    <2>4. CASE u = t
      <3>1. i + 1 \in Done(t) /\ out[t][i + 1] = out'[t][i]
        BY <1>3, <2>4
      <3>2. ASSUME NEW j \in Done(t), j > i + 1 PROVE ~Affects(out[t][j], p, s)
        <4>1. j > 1 /\ j - 1 > i
          BY <1>2, <2>4, <3>2
        <4> QED BY <1>4, <2>2, <2>4, <4>1
      <3> QED BY <2>2, <2>4, <3>1, <3>2 DEF AttachComes
    <2> QED BY <2>3, <2>4
  <1>7. CASE ~Affects(c, p, s)
    <2>1. AttachComes(p, s) => AttachComes(p, s)'
      <3> HAVE AttachComes(p, s)
      <3>1. PICK u \in Threads : \E i \in Done(u) :
               /\ out[u][i].op = "attach" /\ Affects(out[u][i], p, s)
               /\ \A j \in Done(u) : j > i => ~Affects(out[u][j], p, s)
        BY DEF AttachComes
      <3>2. PICK i \in Done(u) :
               /\ out[u][i].op = "attach" /\ Affects(out[u][i], p, s)
               /\ \A j \in Done(u) : j > i => ~Affects(out[u][j], p, s)
        BY <3>1
      <3>3. CASE u # t
        BY <1>1, <3>2, <3>3 DEF AttachComes
      <3>4. CASE u = t
        <4>1. i > 1
          BY <1>1, <1>2, <1>7, <3>2, <3>4
        <4>2. i - 1 \in Done(t)' /\ out'[t][i - 1] = out[t][i]
          BY <1>4, <3>4, <4>1
        <4>3. ASSUME NEW j \in Done(t)', j > i - 1 PROVE ~Affects(out'[t][j], p, s)
          <5>1. j + 1 > i
            BY <1>2, <3>4, <4>3
          <5> QED BY <1>3, <3>2, <3>4, <5>1
        <4> QED BY <3>2, <3>4, <4>2, <4>3 DEF AttachComes
      <3> QED BY <3>3, <3>4
    <2>2. Quiet(p, s)' <=> Quiet(p, s)
      <3>1. \A i \in Done(t) : i = 1 \/ i > 1
        BY <1>2
      <3>2. (\A i \in Done(t)' : ~Affects(out'[t][i], p, s))
              <=> \A i \in Done(t) : ~Affects(out[t][i], p, s)
        BY <1>1, <1>3, <1>4, <1>7, <3>1
      <3> QED BY <1>1, <3>2 DEF Quiet
    <2> QED BY <1>5, <1>6, <1>7, <2>1, <2>2
  <1>8. CASE Affects(c, p, s)
    <2>1. \A u \in Threads \ {t} : \A i \in DOMAIN out[u] : ~Affects(out[u][i], p, s)
      BY <1>1, <1>8, FreeConcerns DEF GroupProtocol, OneThread, Free, Concerns, Names, Affects, Done
    <2>2. \A u \in Threads \ {t} : \A i \in Done(u) : ~Affects(out[u][i], p, s)
      BY <2>1 DEF Done
    <2>3. ~Quiet(p, s)
      BY <1>1, <1>8 DEF Quiet
    <2>4. CASE \E j \in Done(t) : j > 1 /\ Affects(out[t][j], p, s)
      <3>1. ~Quiet(p, s)'
        BY <1>4, <2>4 DEF Quiet
      <3>2. AttachComes(p, s) => AttachComes(p, s)'
        <4> HAVE AttachComes(p, s)
        <4>1. PICK i \in Done(t) :
                 /\ out[t][i].op = "attach" /\ Affects(out[t][i], p, s)
                 /\ \A j \in Done(t) : j > i => ~Affects(out[t][j], p, s)
          BY <2>2 DEF AttachComes
        <4>2. i > 1
          BY <1>2, <2>4, <4>1
        <4>3. i - 1 \in Done(t)' /\ out'[t][i - 1] = out[t][i]
          BY <1>4, <4>2
        <4>4. ASSUME NEW j \in Done(t)', j > i - 1 PROVE ~Affects(out'[t][j], p, s)
          <5>1. j + 1 > i
            BY <1>2, <4>4
          <5> QED BY <1>3, <4>1, <5>1
        <4> QED BY <4>1, <4>3, <4>4 DEF AttachComes
      <3> QED BY <1>5, <1>6, <2>3, <3>1, <3>2
    <2>5. CASE ~\E j \in Done(t) : j > 1 /\ Affects(out[t][j], p, s)
      <3>1. \A i \in Done(t)' : ~Affects(out'[t][i], p, s)
        <4> TAKE i \in Done(t)'
        <4>1. i + 1 > 1
          BY <1>2
        <4> QED BY <1>3, <2>5, <4>1
      <3>2. Quiet(p, s)' /\ ~AttachComes(p, s)'
        BY <1>1, <2>2, <3>1 DEF Quiet, AttachComes
      <3>3. AttachComes(p, s) <=> c.op = "attach"
        <4>1. \A i \in Done(t) : i = 1 \/ i > 1
          BY <1>2
        <4>2. c.op = "attach" => AttachComes(p, s)
          BY <1>1, <1>8, <2>5 DEF AttachComes
        <4>3. AttachComes(p, s) => c.op = "attach"
          BY <1>1, <2>2, <2>5, <4>1 DEF AttachComes
        <4> QED BY <4>2, <4>3
      <3> QED BY <1>5, <1>8, <2>3, <3>2, <3>3
    <2> QED BY <2>4, <2>5
  <1> QED BY <1>7, <1>8

-----------------------------------------------------------------------------
(* Counting *)

\* Programs and threads being finitely many, holders can be counted.
LEMMA FiniteCounts ==
  ASSUME NEW s
  PROVE  /\ IsFiniteSet(Holders(s)) /\ Cardinality(Holders(s)) \in Nat
         /\ IsFiniteSet(Attaching(s)) /\ Cardinality(Attaching(s)) \in Nat
         /\ IsFiniteSet(Holders(s)') /\ Cardinality(Holders(s)') \in Nat
         /\ IsFiniteSet(Attaching(s)') /\ Cardinality(Attaching(s)') \in Nat
  <1>1. /\ Holders(s) \subseteq Programs /\ Holders(s)' \subseteq Programs
        /\ Attaching(s) \subseteq Threads /\ Attaching(s)' \subseteq Threads
    BY DEF Holders, Attaching
  <1>2. IsFiniteSet(Programs) /\ IsFiniteSet(Threads)
    BY GroupBoundsAssumption
  <1> QED BY <1>1, <1>2, FS_Subset, FS_CardinalityType

\* A program that holds a shader is one of the references counted.
LEMMA HeldIsCounted ==
  ASSUME Typed, Counted, NEW s \in Shaders
  PROVE  /\ s \in alive => refcount[s] > 0
         /\ Holders(s) # {} => refcount[s] > Own(s)
  <1>1. Cardinality(Holders(s)) \in Nat /\ (Holders(s) # {} => Cardinality(Holders(s)) > 0)
    BY FiniteCounts, FS_EmptySet
  <1>2. refcount[s] \in Nat /\ refcount[s] >= Cardinality(Holders(s)) + Own(s)
    BY DEF Counted, Typed
  <1>3. Own(s) \in {0, 1} /\ (s \in alive => Own(s) = 1)
    BY DEF Own
  <1> QED BY <1>1, <1>2, <1>3

\* Counts cover their holders after a step that changes no count and no list, and adds no
\* shader that is alive or being deleted.
LEMMA CountedSame ==
  ASSUME Typed, Counted, UNCHANGED <<m_programs, attached, refcount>>,
         \A s \in Shaders : s \in alive' \/ Deleting(s)' => s \in alive \/ Deleting(s)
  PROVE  Counted'
  <1>1. \A p \in Programs \ m_programs' : attached'[p] = {}
    BY DEF Counted
  <1>2. ASSUME NEW s \in Shaders
        PROVE  refcount'[s] >= Cardinality(Holders(s)') + Own(s)'
    <2>1. Holders(s)' = Holders(s)
      BY DEF Holders
    <2>2. Own(s) \in {0, 1} /\ Own(s)' \in {0, 1} /\ (Own(s)' = 1 => Own(s) = 1)
      BY DEF Own
    <2>3. refcount[s] \in Nat /\ refcount[s] >= Cardinality(Holders(s)) + Own(s)
      BY DEF Counted, Typed
    <2>4. Cardinality(Holders(s)) \in Nat
      BY FiniteCounts
    <2> QED BY <2>1, <2>2, <2>3, <2>4
  <1> QED BY <1>1, <1>2 DEF Counted

\* The counts stay in their bounds when none grows and no thread begins to attach.
LEMMA BoundedSame ==
  ASSUME Typed, Bounded, refcount' \in [Shaders -> Nat],
         \A s \in Shaders : refcount'[s] <= refcount[s] /\ Attaching(s)' \subseteq Attaching(s)
  PROVE  Bounded'
  <1>1. ASSUME NEW s \in Shaders PROVE refcount'[s] + Cardinality(Attaching(s)') <= MaxRefs
    <2>1. Cardinality(Attaching(s)') <= Cardinality(Attaching(s))
      BY FiniteCounts, FS_Subset
    <2>2. refcount[s] + Cardinality(Attaching(s)) <= MaxRefs /\ refcount[s] \in Nat
          /\ refcount'[s] \in Nat /\ refcount'[s] <= refcount[s]
      BY DEF Bounded, Typed
    <2>3. Cardinality(Attaching(s)) \in Nat /\ Cardinality(Attaching(s)') \in Nat
      BY FiniteCounts
    <2> QED BY <2>1, <2>2, <2>3, GroupBoundsAssumption
  <1> QED BY <1>1 DEF Bounded

\* The names stay known when no shader gains a holder or comes to life, nothing is
\* forgotten and no source is under way or executed that was not before.
LEMMA NamesSame ==
  ASSUME Typed, NamesKnown,
         \A s \in Shaders : (s \in alive' \/ Holders(s)' # {}) =>
             (s \in alive \/ Holders(s) # {}) /\ hSource'[s] = hSource[s]
             /\ external[s] \subseteq external'[s],
         \A t \in Threads : \A i \in DOMAIN out'[t] : out'[t][i].op = "source" =>
             \E j \in DOMAIN out[t] : out[t][j] = out'[t][i]
  PROVE  NamesKnown'
  BY DEF NamesKnown

\* What a link recorded stays when nothing it is about changes.
LEMMA RecordingSame ==
  ASSUME Typed, Recording, UNCHANGED <<indexes, hLinked, hExternal>>,
         \A p \in Programs : p \in alive' /\ hLinked[p] # <<>> =>
             p \in alive /\ (Linking(p) => Linking(p)'),
         \A p \in Programs : Linking(p)' =>
             /\ Linking(p) /\ attached'[p] = attached[p]
             /\ \A s \in attached[p] : external[s] \subseteq external'[s]
  PROVE  Recording'
  <1>1. \A p, i : Mirrors(p, i)' <=> Mirrors(p, i)
    BY DEF Mirrors
  <1>2. ASSUME NEW p \in Programs, p \in alive', hLinked'[p] # <<>>
        PROVE  /\ Len(indexes'[p]) <= Len(hLinked'[p])
               /\ ~Linking(p)' => Len(indexes'[p]) = Len(hLinked'[p])
               /\ \A i \in DOMAIN indexes'[p] : Mirrors(p, i)'
    <2>1. p \in alive /\ hLinked[p] # <<>>
      BY <1>2
    <2> QED BY <1>1, <1>2, <2>1 DEF Recording
  <1>3. ASSUME NEW p \in Programs, Linking(p)'
        PROVE  \A n \in hExternal'[p] : \E s \in attached'[p] : n \in external'[s]
    BY <1>3 DEF Recording
  <1> QED BY <1>2, <1>3 DEF Recording

-----------------------------------------------------------------------------
(* The steps *)

\* The four calls that write their packet first: the rest of the invariant follows the
\* packets, and a reference for an attachment to come has room.
LEMMA SendIInv ==
  ASSUME IInv, NEW t \in Threads, NEW c \in Calls,
         call[t] = Idle, Send(t, c), Shape(c), c.op \in Sent, Len(out[t]) < MaxOut,
         \A o \in Shaders \cup Programs : Needs(c, o) => o \in alive,
         c.op = "detach" => c.shader \in alive \cup attached[c.program],
         \A o \in Shaders \cup Programs :
             (Deletes(c, o) \/ (o \in Programs /\ Names(c, o))) => Free(t, o),
         alive' = {o \in alive : ~Deletes(c, o)},
         c.op = "attach" =>
             refcount[c.shader] + Cardinality({u \in Threads : call[u].op = "attach"}) < MaxRefs,
         UNCHANGED <<group, host>>, given' \in [Programs -> SUBSET (Nat \X Nat)]
  PROVE  IInv'
  <1> USE DEF IInv
  <1>1. GroupProtocol' /\ Synchronised'
    BY SendProtocol
  <1>2. /\ call' \in [Threads -> Calls] /\ call'[t] = c
        /\ \A u \in Threads \ {t} : call'[u] = call[u]
    BY CallEffect DEF Send
  <1>3. /\ out' \in [Threads -> Seq(Calls)] /\ \A u \in Threads \ {t} : out'[u] = out[u]
        /\ Len(out[t]) \in Nat /\ Len(out'[t]) = Len(out[t]) + 1
        /\ DOMAIN out[t] = 1 .. Len(out[t]) /\ DOMAIN out'[t] = 1 .. Len(out[t]) + 1
        /\ out'[t][Len(out[t]) + 1] = c
        /\ \A i \in DOMAIN out[t] : out'[t][i] = out[t][i]
    BY AppendEffect DEF Send
  <1>4. UNCHANGED <<m_programs, attached, indexes, locShiftWAR, refcount, external,
                    hShaders, hFlagged, hSource, hPrograms, hAttached, hLinked, hExternal>>
    BY DEF group, host
  <1>5. Typed'
    <2>1. \A u \in Threads : Room(u)'
      BY <1>2, <1>3, GroupBoundsAssumption DEF Typed, Room, Sent
    <2>2. alive' \subseteq Shaders \cup Programs
      BY DEF Typed
    <2> QED BY <1>2, <1>3, <1>4, <2>1, <2>2 DEF Typed
  <1>6. call[t].op = "none"
    BY IdleFacts
  <1>7. Counted'
    <2>1. ASSUME NEW s \in Shaders, s \in alive' \/ Deleting(s)' PROVE s \in alive \/ Deleting(s)
      BY <1>2, <2>1 DEF Deleting, Names, Needs
    <2> QED BY <1>4, <2>1, CountedSame
  <1>8. Bounded'
    <2>1. CASE c.op # "attach"
      <3>1. \A s \in Shaders : Attaching(s)' \subseteq Attaching(s)
        BY <1>2, <2>1 DEF Attaching
      <3> QED BY <1>4, <3>1, BoundedSame DEF Typed
    <2>2. CASE c.op = "attach"
      <3> SUFFICES ASSUME NEW s \in Shaders
                   PROVE  refcount[s] + Cardinality(Attaching(s)') <= MaxRefs
        BY <1>4 DEF Bounded
      <3>1. CASE s # c.shader
        <4>1. Attaching(s)' = Attaching(s)
          BY <1>2, <1>6, <3>1 DEF Attaching
        <4> QED BY <4>1 DEF Bounded
      <3>2. CASE s = c.shader
        <4> DEFINE A == {u \in Threads : call[u].op = "attach"}
        <4>1. IsFiniteSet(A) /\ t \notin A
          BY <1>6, FS_Subset, GroupBoundsAssumption
        <4>2. /\ IsFiniteSet(A \cup {t}) /\ Cardinality(A \cup {t}) = Cardinality(A) + 1
              /\ Cardinality(A) \in Nat
          BY <4>1, FS_AddElement, FS_CardinalityType
        <4>3. Attaching(s)' \subseteq A \cup {t}
          BY <1>2 DEF Attaching
        <4>4. Cardinality(Attaching(s)') <= Cardinality(A) + 1 /\ Cardinality(Attaching(s)') \in Nat
          BY <4>2, <4>3, FS_Subset, FiniteCounts
        <4>5. refcount[s] \in Nat /\ refcount[s] + Cardinality(A) < MaxRefs
          BY <2>2, <3>2 DEF Typed
        <4> HIDE DEF A
        <4> QED BY <4>2, <4>4, <4>5, GroupBoundsAssumption
      <3> QED BY <3>1, <3>2
    <2> QED BY <2>1, <2>2
  <1>9. NamesKnown'
    <2>1. ASSUME NEW u \in Threads, NEW i \in DOMAIN out'[u], out'[u][i].op = "source"
          PROVE  \E j \in DOMAIN out[u] : out[u][j] = out'[u][i]
      <3>1. out'[u][i] # c
        BY <2>1 DEF Sent
      <3>2. CASE u = t
        <4>1. i \in 1 .. Len(out[t]) + 1 /\ i # Len(out[t]) + 1
          BY <1>3, <3>1, <3>2
        <4>2. i \in DOMAIN out[t]
          BY <1>3, <4>1
        <4> QED BY <1>3, <3>2, <4>2
      <3>3. CASE u # t
        BY <1>3, <3>3
      <3> QED BY <3>2, <3>3
    <2>2. \A s \in Shaders : Holders(s)' = Holders(s)
      BY <1>4 DEF Holders
    <2> QED BY <1>4, <2>1, <2>2, NamesSame
  <1>10. Recording'
    <2>1. c.op # "link"
      BY DEF Sent
    <2>2. ASSUME NEW u \in Threads, call'[u].op = "link" \/ call[u].op = "link"
          PROVE  call'[u] = call[u]
      BY <1>2, <1>6, <2>1, <2>2
    <2>3. \A p \in Programs : Linking(p)' <=> Linking(p)
      BY <2>2 DEF Linking
    <2> QED BY <1>4, <2>3, RecordingSame
  <1> QED BY <1>1, <1>5, <1>7, <1>8, <1>9, <1>10

\* s_glDeleteShader up to m_lock.
LEMMA DeleteShaderStep ==
  ASSUME IInv, NEW t \in Threads, NEW s \in Shaders,
         DeleteShader(t, s)
  PROVE  IInv'
  <1>1. s \notin Programs /\ s # NoObject
    BY Distinct
  <1>2. given \in [Programs -> SUBSET (Nat \X Nat)]
    BY DEF IInv, Typed
  <1> DEFINE c == Call("deleteShader", NoObject, s, {})
  <1>4. /\ c \in Calls /\ Shape(c) /\ c.op \in Sent /\ c.op \notin {"attach", "detach"}
        /\ \A o \in Shaders \cup Programs : (Names(c, o) <=> o = s) /\ (Deletes(c, o) <=> o = s)
    BY <1>1, NamesAssumption DEF Call, Calls, Ops, Shape, Sent, Names, Deletes
  <1>5. /\ call[t] = Idle /\ Len(out[t]) < MaxOut /\ Send(t, c) /\ s \in alive /\ Free(t, s)
        /\ alive' = alive \ {s} /\ UNCHANGED <<group, host>> /\ given' = given
    BY DEF DeleteShader, Ready
  <1> HIDE DEF c
  <1>6. alive' = {o \in alive : ~Deletes(c, o)}
    BY <1>4, <1>5 DEF IInv, Typed
  <1>7. \A o \in Shaders \cup Programs :
           (Deletes(c, o) \/ (o \in Programs /\ Names(c, o))) => Free(t, o)
    BY <1>4, <1>5
  <1>8. /\ \A o \in Shaders \cup Programs : Needs(c, o) => o \in alive
        /\ c.op # "detach"
    BY <1>4, <1>5 DEF Needs
  <1> QED BY <1>2, <1>4, <1>5, <1>6, <1>7, <1>8, SendIInv

\* s_glDeleteProgram up to m_lock.
LEMMA DeleteProgramStep ==
  ASSUME IInv, NEW t \in Threads, NEW p \in Programs,
         DeleteProgram(t, p)
  PROVE  IInv'
  <1>1. p \notin Shaders /\ p # NoObject
    BY Distinct
  <1>2. given \in [Programs -> SUBSET (Nat \X Nat)]
    BY DEF IInv, Typed
  <1> DEFINE c == Call("deleteProgram", p, NoObject, {})
  <1>4. /\ c \in Calls /\ Shape(c) /\ c.op \in Sent /\ c.op \notin {"attach", "detach"}
        /\ \A o \in Shaders \cup Programs : (Names(c, o) <=> o = p) /\ (Deletes(c, o) <=> o = p)
    BY <1>1, NamesAssumption DEF Call, Calls, Ops, Shape, Sent, Names, Deletes
  <1>5. /\ call[t] = Idle /\ Len(out[t]) < MaxOut /\ Send(t, c) /\ p \in alive /\ Free(t, p)
        /\ alive' = alive \ {p} /\ UNCHANGED <<group, host>>
        /\ given' = [given EXCEPT ![p] = {}]
    BY DEF DeleteProgram, Ready
  <1> HIDE DEF c
  <1>6. alive' = {o \in alive : ~Deletes(c, o)}
    BY <1>4, <1>5 DEF IInv, Typed
  <1>7. \A o \in Shaders \cup Programs :
           (Deletes(c, o) \/ (o \in Programs /\ Names(c, o))) => Free(t, o)
    BY <1>4, <1>5
  <1>8. /\ \A o \in Shaders \cup Programs : Needs(c, o) => o \in alive
        /\ c.op # "detach"
    BY <1>4, <1>5 DEF Needs
  <1>9. given' \in [Programs -> SUBSET (Nat \X Nat)]
    BY <1>2, <1>5
  <1> QED BY <1>4, <1>5, <1>6, <1>7, <1>8, <1>9, SendIInv

\* s_glAttachShader and s_glDetachShader up to m_lock.
LEMMA AttachDetachStep ==
  ASSUME IInv, NEW t \in Threads, NEW p \in Programs, NEW s \in Shaders,
         Attach(t, p, s) \/ Detach(t, p, s)
  PROVE  IInv'
  <1>1. p \notin Shaders /\ p # NoObject /\ s \notin Programs /\ s # NoObject
    BY Distinct
  <1>2. given \in [Programs -> SUBSET (Nat \X Nat)]
    BY DEF IInv, Typed
  <1>3. PICK op \in {"attach", "detach"} :
           /\ Ready(t) /\ p \in alive /\ Free(t, p)
           /\ s \in alive \/ (op = "detach" /\ s \in attached[p])
           /\ Send(t, Call(op, p, s, {})) /\ UNCHANGED <<alive, group, host, given>>
           /\ op = "attach" =>
                refcount[s] + Cardinality({u \in Threads : call[u].op = "attach"}) < MaxRefs
    BY DEF Attach, Detach
  <1> DEFINE c == Call(op, p, s, {})
  <1>4. /\ c \in Calls /\ Shape(c) /\ c.op \in Sent /\ c.op = op /\ c.shader = s /\ c.program = p
        /\ \A o \in Shaders \cup Programs : (Names(c, o) <=> o \in {p, s}) /\ ~Deletes(c, o)
    BY <1>1 DEF Call, Calls, Ops, Shape, Sent, Names, Deletes
  <1>5. /\ call[t] = Idle /\ Len(out[t]) < MaxOut /\ Send(t, c)
        /\ alive' = alive /\ UNCHANGED <<group, host>> /\ given' = given
    BY <1>3 DEF Ready
  <1> HIDE DEF c
  <1>6. alive' = {o \in alive : ~Deletes(c, o)}
    BY <1>4, <1>5 DEF IInv, Typed
  <1>7. \A o \in Shaders \cup Programs :
           (Deletes(c, o) \/ (o \in Programs /\ Names(c, o))) => Free(t, o)
    BY <1>1, <1>3, <1>4
  <1>8. /\ \A o \in Shaders \cup Programs : Needs(c, o) => o \in alive
        /\ c.op = "detach" => c.shader \in alive \cup attached[c.program]
    BY <1>3, <1>4 DEF Needs
  <1> QED BY <1>2, <1>3, <1>4, <1>5, <1>6, <1>7, <1>8, SendIInv

\* s_glCreateShader: the count begins at one and no list knows the name.
LEMMA CreateShaderStep ==
  ASSUME IInv, NEW t \in Threads, CreateShader(t)
  PROVE  IInv'
  <1> USE DEF IInv
  <1>1. PICK s \in Shaders \ hShaders :
           /\ alive' = alive \cup {s} /\ hShaders' = hShaders \cup {s}
           /\ refcount' = [refcount EXCEPT ![s] = 1]
           /\ external' = [external EXCEPT ![s] = {}]
           /\ hSource' = [hSource EXCEPT ![s] = {}]
           /\ UNCHANGED <<call, out, given, m_programs, attached, indexes, locShiftWAR,
                          hFlagged, hPrograms, hAttached, hLinked, hExternal>>
    BY DEF CreateShader
  <1>2. /\ s \notin alive /\ \A u \in Threads : ~Concerns(u, s)
        /\ \A p \in Programs : s \notin attached[p]
    BY Fresh
  <1>3. GroupProtocol' /\ Synchronised'
    <2>1. s \notin Programs /\ \A p \in Programs : p # s
      BY Distinct
    <2>2. /\ hShaders' = hShaders \cup ({s} \cap Shaders)
          /\ hPrograms' = hPrograms \cup ({s} \cap Programs)
          /\ m_programs' = m_programs \cup ({s} \cap Programs)
      BY <1>1, <2>1
    <2>3. \A p \in Programs : attached'[p] = IF p = s THEN {} ELSE attached[p]
      BY <1>1, <2>1
    <2> QED BY <1>1, <2>2, <2>3, CreateProtocol
  <1>4. Typed'
    <2>1. refcount' \in [Shaders -> Nat] /\ external' \in [Shaders -> SUBSET Samplers]
          /\ hSource' \in [Shaders -> SUBSET Samplers]
      BY <1>1 DEF Typed
    <2> QED BY <1>1, <2>1 DEF Typed, Room
  <1>5. \A q \in Shaders : /\ Holders(q)' = Holders(q) /\ Attaching(q)' = Attaching(q)
                           /\ Deleting(q)' <=> Deleting(q)
    BY <1>1 DEF Holders, Attaching, Deleting
  <1>6. Holders(s) = {} /\ Attaching(s) = {}
    BY <1>2 DEF Holders, Attaching, Concerns, Names
  <1>7. /\ refcount'[s] = 1 /\ external'[s] = {} /\ hSource'[s] = {}
        /\ \A q \in Shaders \ {s} : /\ refcount'[q] = refcount[q] /\ external'[q] = external[q]
                                    /\ hSource'[q] = hSource[q] /\ (q \in alive' <=> q \in alive)
    BY <1>1 DEF Typed
  <1>8. Counted'
    <2>1. \A p \in Programs \ m_programs' : attached'[p] = {}
      BY <1>1 DEF Counted
    <2>2. ASSUME NEW q \in Shaders PROVE refcount'[q] >= Cardinality(Holders(q)') + Own(q)'
      <3>1. CASE q = s
        <4>1. Cardinality(Holders(s)') = 0
          BY <1>5, <1>6, FS_EmptySet
        <4>2. Own(s)' \in {0, 1}
          BY DEF Own
        <4> QED BY <1>7, <3>1, <4>1, <4>2
      <3>2. CASE q # s
        <4>1. Own(q)' = Own(q)
          BY <1>5, <1>7, <3>2 DEF Own
        <4> QED BY <1>5, <1>7, <3>2, <4>1 DEF Counted
      <3> QED BY <3>1, <3>2
    <2> QED BY <2>1, <2>2 DEF Counted
  <1>9. Bounded'
    <2>1. ASSUME NEW q \in Shaders PROVE refcount'[q] + Cardinality(Attaching(q)') <= MaxRefs
      <3>1. CASE q = s
        <4>1. Cardinality(Attaching(s)') = 0
          BY <1>5, <1>6, FS_EmptySet
        <4> QED BY <1>7, <3>1, <4>1, GroupBoundsAssumption
      <3>2. CASE q # s
        BY <1>5, <1>7, <3>2 DEF Bounded
      <3> QED BY <3>1, <3>2
    <2> QED BY <2>1 DEF Bounded
  <1>10. NamesKnown'
    <2> SUFFICES ASSUME NEW q \in Shaders, q \in alive' \/ Holders(q)' # {}
                 PROVE  /\ hSource'[q] \subseteq external'[q]
                        /\ \A u \in Threads : \A i \in DOMAIN out[u] :
                             out[u][i].op = "source" /\ out[u][i].shader = q
                               => out[u][i].names \subseteq external'[q]
      BY <1>1 DEF NamesKnown
    <2>1. CASE q = s
      BY <1>2, <1>7, <2>1 DEF Concerns, Names
    <2>2. CASE q # s
      BY <1>5, <1>7, <2>2 DEF NamesKnown
    <2> QED BY <2>1, <2>2
  <1>11. Recording'
    <2>1. \A p \in Programs : /\ Linking(p)' <=> Linking(p)
                              /\ p \in alive' <=> p \in alive
      BY <1>1, Distinct DEF Linking
    <2>2. \A p \in Programs : \A q \in attached[p] : external[q] \subseteq external'[q]
      BY <1>2, <1>7 DEF Typed
    <2> QED BY <1>1, <2>1, <2>2, RecordingSame
  <1> QED BY <1>3, <1>4, <1>8, <1>9, <1>10, <1>11

\* s_glCreateProgram: the name is new to the group too, so that nothing is lost.
LEMMA CreateProgramStep ==
  ASSUME IInv, NEW t \in Threads, CreateProgram(t)
  PROVE  IInv'
  <1> USE DEF IInv
  <1>1. PICK p \in Programs \ hPrograms :
           /\ alive' = alive \cup {p} /\ hPrograms' = hPrograms \cup {p}
           /\ m_programs' = m_programs \cup {p}
           /\ attached' = [attached EXCEPT ![p] = {}]
           /\ indexes' = [indexes EXCEPT ![p] = <<>>]
           /\ locShiftWAR' = [locShiftWAR EXCEPT ![p] = FALSE]
           /\ UNCHANGED <<call, out, given, refcount, external,
                          hShaders, hFlagged, hSource, hAttached, hLinked, hExternal>>
    BY DEF CreateProgram
  <1>2. /\ p \notin alive /\ \A u \in Threads : ~Concerns(u, p)
        /\ hLinked[p] = <<>> /\ attached[p] = {}
    BY Fresh
  <1>3. attached' = attached
    BY <1>1, <1>2 DEF Typed
  <1>4. GroupProtocol' /\ Synchronised'
    <2>1. p \notin Shaders
      BY Distinct
    <2>2. /\ hShaders' = hShaders \cup ({p} \cap Shaders)
          /\ hPrograms' = hPrograms \cup ({p} \cap Programs)
          /\ m_programs' = m_programs \cup ({p} \cap Programs)
      BY <1>1, <2>1
    <2>3. \A q \in Programs : attached'[q] = IF q = p THEN {} ELSE attached[q]
      BY <1>2, <1>3
    <2> QED BY <1>1, <2>2, <2>3, CreateProtocol
  <1>5. Typed'
    <2>1. indexes' \in [Programs -> Seq(IndexInfo)] /\ locShiftWAR' \in [Programs -> BOOLEAN]
      BY <1>1 DEF Typed
    <2> QED BY <1>1, <1>3, <2>1 DEF Typed, Room
  <1>6. \A s \in Shaders : /\ Holders(s)' = Holders(s) /\ Attaching(s)' = Attaching(s)
                           /\ Deleting(s)' <=> Deleting(s)
                           /\ s \in alive' <=> s \in alive
    BY <1>1, <1>3, Distinct DEF Holders, Attaching, Deleting
  <1>7. Counted'
    <2>1. \A s \in Shaders : Own(s)' = Own(s)
      BY <1>6 DEF Own
    <2> QED BY <1>1, <1>3, <1>6, <2>1 DEF Counted
  <1>8. Bounded'
    BY <1>1, <1>6 DEF Bounded
  <1>9. NamesKnown'
    BY <1>1, <1>6, NamesSame
  <1>10. Recording'
    <2>1. ~Linking(p) /\ \A q \in Programs : Linking(q)' <=> Linking(q)
      BY <1>1, <1>2 DEF Linking, Concerns, Names
    <2>2. \A q \in Programs \ {p} : indexes'[q] = indexes[q] /\ (q \in alive' <=> q \in alive)
      BY <1>1 DEF Typed
    <2>3. ASSUME NEW q \in Programs, q \in alive', hLinked'[q] # <<>>
          PROVE  /\ Len(indexes'[q]) <= Len(hLinked'[q])
                 /\ ~Linking(q)' => Len(indexes'[q]) = Len(hLinked'[q])
                 /\ \A i \in DOMAIN indexes'[q] : Mirrors(q, i)'
      <3>1. q # p /\ q \in alive /\ indexes'[q] = indexes[q] /\ hLinked[q] # <<>>
        BY <1>1, <1>2, <2>2, <2>3
      <3>2. \A i : Mirrors(q, i)' <=> Mirrors(q, i)
        BY <1>1, <3>1 DEF Mirrors
      <3> QED BY <1>1, <2>1, <3>1, <3>2 DEF Recording
    <2>4. ASSUME NEW q \in Programs, Linking(q)'
          PROVE  \A n \in hExternal'[q] : \E s \in attached'[q] : n \in external'[s]
      BY <1>1, <1>3, <2>1, <2>4 DEF Recording
    <2> QED BY <2>3, <2>4 DEF Recording
  <1> QED BY <1>4, <1>5, <1>7, <1>8, <1>9, <1>10

\* A call that does not write a packet first, and its end, decide about no attachment.
LEMMA UnsentDone ==
  ASSUME Typed, NEW t \in Threads, NEW c \in Calls, call' = [call EXCEPT ![t] = c],
         UNCHANGED out, c.op \notin Sent, call[t].op \notin Sent, NEW p, NEW s
  PROVE  (AttachComes(p, s)' <=> AttachComes(p, s)) /\ (Quiet(p, s)' <=> Quiet(p, s))
  <1>1. call'[t] = c /\ \A u \in Threads \ {t} : call'[u] = call[u]
    BY CallEffect
  <1>2. \A u \in Threads : Done(u)' = Done(u)
    BY <1>1 DEF Done
  <1> QED BY <1>2, SameDone

\* The object a thread is deleting is no longer alive, and nobody else needs it.
LEMMA DeletingAlone ==
  ASSUME Typed, GroupProtocol, NEW t \in Threads, NEW o \in Shaders \cup Programs,
         Deletes(call[t], o)
  PROVE  o \notin alive /\ Unneeded(t, o) /\ (o \in Programs => Free(t, o))
  <1>1. Len(out[t]) \in DOMAIN out[t] /\ out[t][Len(out[t])] = call[t]
    BY DEF GroupProtocol, CallsNamed, Typed, Deletes, Sent
  <1>2. o \notin alive /\ Unneeded(t, o)
    BY <1>1 DEF GroupProtocol, PacketsNamed, DeletionLast
  <1>3. o \in Programs => Free(t, o)
    BY <1>2, CallTypes, NeedsFacts DEF Unneeded, Free
  <1> QED BY <1>2, <1>3

\* Nobody records the uniforms of a program that t has for itself.
LEMMA NotLinking ==
  ASSUME NEW t \in Threads, NEW p \in Programs, Free(t, p), call[t].op # "link"
  PROVE  ~Linking(p)
  BY DEF Free, Names, Linking

\* s_glShaderSource's beginning.
LEMMA ShaderSourceStep ==
  ASSUME IInv, NEW t \in Threads, NEW s \in Shaders, NEW names \in SUBSET Samplers,
         ShaderSource(t, s, names)
  PROVE  IInv'
  <1> USE DEF IInv
  <1> DEFINE c == Call("source", NoObject, s, names)
  <1>1. /\ call[t] = Idle /\ Len(out[t]) < MaxOut /\ s \in alive
        /\ call' = [call EXCEPT ![t] = c]
        /\ UNCHANGED <<alive, out, m_programs, attached, indexes, locShiftWAR, refcount,
                       external, hShaders, hFlagged, hSource, hPrograms, hAttached, hLinked,
                       hExternal, given>>
    BY DEF ShaderSource, Ready, group, host
  <1>2. /\ c \in Calls /\ Shape(c) /\ c.op = "source"
        /\ \A o \in Shaders \cup Programs : Names(c, o) <=> o = s
    BY NamesAssumption DEF Call, Calls, Ops, Shape, Names
  <1> HIDE DEF c
  <1>3. /\ call' \in [Threads -> Calls] /\ call'[t] = c
        /\ \A u \in Threads \ {t} : call'[u] = call[u]
    BY <1>1, <1>2, CallEffect
  <1>4. call[t].op = "none" /\ c.op \notin Sent /\ call[t].op \notin Sent
    BY <1>1, <1>2, IdleFacts DEF Sent
  <1>5. Typed'
    <2>1. \A u \in Threads : Room(u)'
      BY <1>1, <1>3 DEF Typed, Room
    <2> QED BY <1>1, <1>3, <2>1 DEF Typed
  <1>6. GroupProtocol'
    <2>1. \A o \in Shaders \cup Programs : Names(c, o) => o \in alive
      BY <1>1, <1>2
    <2>2. \A p \in Programs : ~Names(c, p)
      BY <1>2, Distinct
    <2>3. AliveKnown'
      BY <1>1 DEF GroupProtocol, AliveKnown
    <2> QED BY <1>1, <1>2, <1>4, <2>1, <2>2, <2>3, CallProtocol
  <1>7. Synchronised'
    BY <1>1, <1>2, <1>4, UnsentDone DEF Synchronised
  <1>8. \A q \in Shaders : /\ Deleting(q)' <=> Deleting(q)
                           /\ Attaching(q)' = Attaching(q) /\ Holders(q)' = Holders(q)
    BY <1>1, <1>2, <1>3, <1>4 DEF Deleting, Attaching, Holders
  <1>9. Counted'
    BY <1>1, <1>8, CountedSame
  <1>10. Bounded'
    BY <1>1, <1>8 DEF Bounded
  <1>11. NamesKnown'
    BY <1>1, <1>8 DEF NamesKnown
  <1>12. Recording'
    <2>1. \A p \in Programs : Linking(p)' <=> Linking(p)
      BY <1>2, <1>3, <1>4 DEF Linking
    <2> QED BY <1>1, <2>1, RecordingSame
  <1> QED BY <1>5, <1>6, <1>7, <1>9, <1>10, <1>11, <1>12

\* s_glShaderSource's end: the guest knows the names before the host gets the source.
LEMMA ShaderStringStep ==
  ASSUME IInv, NEW t \in Threads, ShaderString(t)
  PROVE  IInv'
  <1> USE DEF IInv
  <1> DEFINE c == call[t]
             s == call[t].shader
  <1>1. PICK read \in SUBSET c.names :
           /\ c.op = "source" /\ external' = [external EXCEPT ![s] = @ \cup read]
           /\ \/ read = c.names /\ out' = [out EXCEPT ![t] = Append(@, call[t])]
              \/ UNCHANGED out
           /\ Return(t)
           /\ UNCHANGED <<alive, m_programs, attached, indexes, locShiftWAR, refcount, host, given>>
    BY DEF ShaderString
  <1>2. UNCHANGED <<hShaders, hFlagged, hSource, hPrograms, hAttached, hLinked, hExternal>>
    BY <1>1 DEF host
  <1>3. c \in Calls /\ Shape(c) /\ s \in Shaders /\ c.names \in SUBSET Samplers
    BY <1>1 DEF Typed, GroupProtocol, CallsNamed, Shape, Calls
  <1>4. /\ call' = [call EXCEPT ![t] = Idle] /\ call' \in [Threads -> Calls] /\ call'[t] = Idle
        /\ \A u \in Threads \ {t} : call'[u] = call[u]
    BY <1>1, CallEffect, IdleFacts DEF Return
  <1>5. /\ external' \in [Shaders -> SUBSET Samplers] /\ external'[s] = external[s] \cup read
        /\ \A q \in Shaders : external[q] \subseteq external'[q]
    BY <1>1, <1>3 DEF Typed
  <1>6. /\ out' \in [Threads -> Seq(Calls)] /\ \A u \in Threads \ {t} : out'[u] = out[u]
        /\ \A i \in DOMAIN out'[t] : \/ i \in DOMAIN out[t] /\ out'[t][i] = out[t][i]
                                     \/ out'[t][i] = c /\ read = c.names
    <2>1. CASE UNCHANGED out
      BY <2>1 DEF Typed
    <2>2. CASE read = c.names /\ out' = [out EXCEPT ![t] = Append(@, call[t])]
      <3>1. /\ out' \in [Threads -> Seq(Calls)] /\ \A u \in Threads \ {t} : out'[u] = out[u]
            /\ Len(out[t]) \in Nat
            /\ DOMAIN out[t] = 1 .. Len(out[t]) /\ DOMAIN out'[t] = 1 .. Len(out[t]) + 1
            /\ out'[t][Len(out[t]) + 1] = c
            /\ \A i \in DOMAIN out[t] : out'[t][i] = out[t][i]
        BY <1>3, <2>2, AppendEffect
      <3>2. \A i \in DOMAIN out'[t] : i \in DOMAIN out[t] \/ i = Len(out[t]) + 1
        BY <3>1
      <3> QED BY <2>2, <3>1, <3>2
    <2> QED BY <1>1, <2>1, <2>2
  <1>7. Typed'
    <2>1. Len(out'[t]) <= MaxOut
      <3>1. Len(out[t]) \in Nat /\ Len(out[t]) < MaxOut
        BY <1>1 DEF Typed, Room
      <3>2. out' = [out EXCEPT ![t] = Append(@, call[t])] => Len(out'[t]) = Len(out[t]) + 1
        BY <1>3, AppendEffect
      <3> QED BY <1>1, <3>1, <3>2, GroupBoundsAssumption
    <2>2. \A u \in Threads : Room(u)'
      BY <1>4, <1>6, <2>1, IdleFacts DEF Typed, Room
    <2> QED BY <1>1, <1>2, <1>4, <1>5, <1>6, <2>2 DEF Typed
  <1>8. GroupProtocol' /\ Synchronised'
    <2>1. CASE UNCHANGED out
      <3>1. AliveKnown'
        BY <1>1, <1>2 DEF GroupProtocol, AliveKnown
      <3>2. Idle.op \notin Sent /\ call[t].op \notin Sent
        BY <1>1, IdleFacts DEF Sent
      <3>3. GroupProtocol'
        BY <1>1, <1>2, <1>4, <2>1, <3>1, <3>2, Distinct, IdleFacts, CallProtocol
      <3>4. Synchronised'
        BY <1>1, <1>2, <1>4, <2>1, <3>2, IdleFacts, UnsentDone DEF Synchronised
      <3> QED BY <3>3, <3>4
    <2>2. CASE out' = [out EXCEPT ![t] = Append(@, call[t])]
      BY <1>1, <2>2, SourceProtocol
    <2> QED BY <1>1, <2>1, <2>2
  <1> HIDE DEF c, s
  <1>9. call[t].op = "source" /\ call'[t].op = "none" /\ c = call[t] /\ s = c.shader
    BY <1>1, <1>4, IdleFacts DEF c, s
  <1>10. \A q \in Shaders : /\ Deleting(q)' <=> Deleting(q)
                            /\ Attaching(q)' = Attaching(q) /\ Holders(q)' = Holders(q)
    BY <1>1, <1>4, <1>9 DEF Deleting, Attaching, Holders
  <1>11. Counted'
    BY <1>1, <1>10, CountedSame
  <1>12. Bounded'
    BY <1>1, <1>10 DEF Bounded
  <1>13. NamesKnown'
    <2> SUFFICES ASSUME NEW q \in Shaders, q \in alive' \/ Holders(q)' # {}
                 PROVE  /\ hSource'[q] \subseteq external'[q]
                        /\ \A u \in Threads : \A i \in DOMAIN out'[u] :
                             out'[u][i].op = "source" /\ out'[u][i].shader = q
                               => out'[u][i].names \subseteq external'[q]
      BY DEF NamesKnown
    <2>1. /\ hSource[q] \subseteq external[q]
          /\ \A u \in Threads : \A i \in DOMAIN out[u] :
               out[u][i].op = "source" /\ out[u][i].shader = q => out[u][i].names \subseteq external[q]
      BY <1>1, <1>10 DEF NamesKnown
    <2>2. hSource'[q] \subseteq external'[q]
      BY <1>2, <1>5, <2>1
    <2>3. ASSUME NEW u \in Threads, NEW i \in DOMAIN out'[u],
                 out'[u][i].op = "source", out'[u][i].shader = q
          PROVE  out'[u][i].names \subseteq external'[q]
      <3>1. CASE i \in DOMAIN out[u] /\ out'[u][i] = out[u][i]
        BY <1>5, <2>1, <2>3, <3>1
      <3>2. CASE out'[u][i] = c /\ read = c.names
        BY <1>5, <1>9, <2>3, <3>2
      <3> QED BY <1>6, <3>1, <3>2
    <2> QED BY <2>2, <2>3
  <1>14. Recording'
    <2>1. \A p \in Programs : Linking(p)' <=> Linking(p)
      BY <1>4, <1>9 DEF Linking
    <2>2. \A p \in Programs : \A q \in attached[p] : external[q] \subseteq external'[q]
      BY <1>5 DEF Typed
    <2> QED BY <1>1, <1>2, <2>1, <2>2, RecordingSame
  <1> QED BY <1>7, <1>8, <1>11, <1>12, <1>13, <1>14

\* What the end of a call that wrote its packet first leaves alone.
LEMMA ReturnFacts ==
  ASSUME IInv, NEW t \in Threads, call[t].op \in Sent, Return(t),
         UNCHANGED <<alive, out, host>>, alive \cap Programs \subseteq m_programs'
  PROVE  /\ GroupProtocol' /\ Shape(call[t]) /\ call' \in [Threads -> Calls]
         /\ \A u \in Threads : Room(u)'
         /\ \A s \in Shaders : /\ Attaching(s)' = Attaching(s) \ {t}
                               /\ Deleting(s)' => Deleting(s)
         /\ \A p \in Programs : Linking(p)' <=> Linking(p)
         /\ UNCHANGED <<hShaders, hFlagged, hSource, hPrograms, hAttached, hLinked, hExternal>>
         /\ call'[t].op = "none" /\ \A u \in Threads \ {t} : call'[u] = call[u]
  <1> USE DEF IInv
  <1>1. /\ call' = [call EXCEPT ![t] = Idle] /\ call' \in [Threads -> Calls] /\ call'[t] = Idle
        /\ \A u \in Threads \ {t} : call'[u] = call[u]
    BY CallEffect, IdleFacts DEF Return
  <1>2. call'[t].op = "none" /\ Shape(call[t]) /\ Idle.op \notin Sent
    BY <1>1, IdleFacts DEF GroupProtocol, CallsNamed, Sent
  <1>3. UNCHANGED <<hShaders, hFlagged, hSource, hPrograms, hAttached, hLinked, hExternal>>
    BY DEF host
  <1>4. GroupProtocol'
    <2>1. AliveKnown'
      BY <1>3 DEF GroupProtocol, AliveKnown
    <2> QED BY <1>1, <1>2, <1>3, <2>1, Distinct, IdleFacts, CallProtocol
  <1>5. \A u \in Threads : Room(u)'
    BY <1>1, <1>2 DEF Typed, Room
  <1>6. ASSUME NEW s \in Shaders
        PROVE  Attaching(s)' = Attaching(s) \ {t} /\ (Deleting(s)' => Deleting(s))
    BY <1>1, <1>2 DEF Attaching, Deleting
  <1>7. call[t].op # "link"
    BY DEF Sent
  <1>8. \A p \in Programs : Linking(p)' <=> Linking(p)
    BY <1>1, <1>2, <1>7 DEF Linking
  <1> QED BY <1>1, <1>2, <1>3, <1>4, <1>5, <1>6, <1>8

\* s_glDeleteShader's end, unrefShaderData: the shader's own reference goes; the names are
\* forgotten with the last one, when no program holds the shader.
LEMMA UnrefShaderDataStep ==
  ASSUME IInv, NEW t \in Threads, UnrefShaderData(t)
  PROVE  IInv'
  <1> USE DEF IInv
  <1>0. PICK s : s = call[t].shader
    OBVIOUS
  <1>1. /\ call[t].op = "deleteShader" /\ Return(t)
        /\ UNCHANGED <<alive, out, m_programs, attached, indexes, locShiftWAR, host, given>>
        /\ IF refcount[s] > 0 THEN Unref(s) ELSE UNCHANGED <<refcount, external>>
    BY <1>0 DEF UnrefShaderData
  <1>2. call[t].op \in Sent /\ call[t].op \notin {"attach", "detach", "deleteProgram"}
    BY <1>1 DEF Sent
  <1>3. /\ GroupProtocol' /\ Shape(call[t]) /\ call' \in [Threads -> Calls]
        /\ \A u \in Threads : Room(u)'
        /\ \A q \in Shaders : /\ Attaching(q)' = Attaching(q) \ {t}
                              /\ Deleting(q)' => Deleting(q)
        /\ \A p \in Programs : Linking(p)' <=> Linking(p)
        /\ UNCHANGED <<hShaders, hFlagged, hSource, hPrograms, hAttached, hLinked, hExternal>>
        /\ call'[t].op = "none" /\ \A u \in Threads \ {t} : call'[u] = call[u]
    BY <1>1, <1>2, ReturnFacts DEF GroupProtocol, AliveKnown
  <1>4. s \in Shaders /\ Deletes(call[t], s)
    BY <1>0, <1>1, <1>3 DEF Shape, Deletes
  <1>5. s \notin alive /\ Unneeded(t, s)
    BY <1>4, DeletingAlone
  <1>6. ~Deleting(s)' /\ Deleting(s)
    <2>1. \A u \in Threads \ {t} : ~(call'[u].op = "deleteShader" /\ call'[u].shader = s)
      BY <1>3, <1>5 DEF Unneeded, Needs, Names
    <2> QED BY <1>0, <1>1, <1>3, <2>1 DEF Deleting
  <1>7. \A q \in Shaders : Holders(q)' = Holders(q)
    BY <1>1 DEF Holders
  <1>8. /\ refcount[s] \in Nat /\ Cardinality(Holders(s)) \in Nat
        /\ refcount[s] >= Cardinality(Holders(s)) + 1
    <2>1. Own(s) = 1
      BY <1>6 DEF Own
    <2>2. Cardinality(Holders(s)) \in Nat
      BY FiniteCounts
    <2> QED BY <1>4, <2>1, <2>2 DEF Typed, Counted
  <1>9. Unref(s)
    BY <1>1, <1>8
  <1>10. /\ refcount' \in [Shaders -> Nat] /\ refcount'[s] = refcount[s] - 1
         /\ \A q \in Shaders \ {s} : refcount'[q] = refcount[q]
    BY <1>4, <1>8, <1>9 DEF Unref, Typed
  <1>11. /\ external' \in [Shaders -> SUBSET Samplers]
         /\ \A q \in Shaders \ {s} : external'[q] = external[q]
         /\ refcount[s] # 1 => external'[s] = external[s]
    BY <1>4, <1>9 DEF Unref, Typed
  <1>12. Typed'
    BY <1>1, <1>3, <1>10, <1>11 DEF Typed
  <1>13. Synchronised'
    <2>1. \A p \in Programs, q \in Shaders : ~Affects(call[t], p, q)
      BY <1>2 DEF Affects
    <2> QED BY <1>1, <1>2, <1>3, <2>1, ReturnEffect DEF Synchronised
  <1>14. Counted'
    <2>1. ASSUME NEW q \in Shaders PROVE refcount'[q] >= Cardinality(Holders(q)') + Own(q)'
      <3>1. CASE q = s
        <4>1. Own(s)' = 0
          BY <1>1, <1>5, <1>6 DEF Own
        <4> QED BY <1>4, <1>7, <1>8, <1>10, <3>1, <4>1
      <3>2. CASE q # s
        <4>1. alive' = alive /\ (Deleting(q)' => Deleting(q))
          BY <1>1, <1>3
        <4>2. Own(q) \in {0, 1} /\ Own(q)' \in {0, 1} /\ (Own(q)' = 1 => Own(q) = 1)
          BY <4>1 DEF Own
        <4>3. refcount[q] \in Nat /\ refcount[q] >= Cardinality(Holders(q)) + Own(q)
          BY DEF Typed, Counted
        <4>4. Cardinality(Holders(q)) \in Nat
          BY FiniteCounts
        <4>5. refcount'[q] = refcount[q] /\ Holders(q)' = Holders(q)
          BY <1>7, <1>10, <3>2
        <4> QED BY <4>2, <4>3, <4>4, <4>5
      <3> QED BY <3>1, <3>2
    <2> QED BY <1>1, <2>1 DEF Counted
  <1>15. Bounded'
    <2>1. \A q \in Shaders : refcount[q] \in Nat
      BY DEF Typed
    <2>2. \A q \in Shaders : refcount'[q] <= refcount[q] /\ Attaching(q)' \subseteq Attaching(q)
      BY <1>3, <1>8, <1>10, <2>1
    <2> QED BY <1>10, <2>2, BoundedSame
  <1>16. s \in alive \/ Holders(s) # {} => external'[s] = external[s]
    <2>1. Holders(s) # {} => Cardinality(Holders(s)) > 0
      BY FiniteCounts, FS_EmptySet
    <2> QED BY <1>5, <1>8, <1>11, <2>1
  <1>17. NamesKnown'
    BY <1>1, <1>3, <1>4, <1>7, <1>11, <1>16, NamesSame
  <1>18. Recording'
    <2>1. \A p \in Programs : \A q \in attached[p] : external[q] \subseteq external'[q]
      BY <1>4, <1>11, <1>16 DEF Holders, Typed
    <2> QED BY <1>1, <1>3, <2>1, RecordingSame
  <1> QED BY <1>3, <1>12, <1>13, <1>14, <1>15, <1>17, <1>18

\* s_glDeleteProgram's end, deleteProgramData: references the program held are not given
\* back, so counts only get larger than needed.
LEMMA DeleteProgramDataStep ==
  ASSUME IInv, NEW t \in Threads, DeleteProgramData(t)
  PROVE  IInv'
  <1> USE DEF IInv
  <1> DEFINE p == call[t].program
  <1>1. /\ call[t].op = "deleteProgram" /\ Return(t)
        /\ m_programs' = m_programs \ {p}
        /\ attached' = [attached EXCEPT ![p] = {}]
        /\ indexes' = [indexes EXCEPT ![p] = <<>>]
        /\ locShiftWAR' = [locShiftWAR EXCEPT ![p] = FALSE]
        /\ UNCHANGED <<alive, out, refcount, external, host, given>>
    BY DEF DeleteProgramData
  <1>2. call[t].op \in Sent /\ Shape(call[t])
    BY <1>1 DEF Sent, GroupProtocol, CallsNamed
  <1>3. p \in Programs /\ Deletes(call[t], p)
    BY <1>1, <1>2 DEF Shape, Deletes
  <1>4. p \notin alive /\ Free(t, p)
    BY <1>3, DeletingAlone
  <1>5. /\ GroupProtocol' /\ call' \in [Threads -> Calls]
        /\ \A u \in Threads : Room(u)'
        /\ \A q \in Shaders : /\ Attaching(q)' = Attaching(q) \ {t}
                              /\ Deleting(q)' => Deleting(q)
        /\ \A q \in Programs : Linking(q)' <=> Linking(q)
        /\ UNCHANGED <<hShaders, hFlagged, hSource, hPrograms, hAttached, hLinked, hExternal>>
    BY <1>1, <1>2, <1>4, ReturnFacts DEF GroupProtocol, AliveKnown
  <1>6. ~Linking(p)
    BY <1>1, <1>3, <1>4, NotLinking
  <1>7. \A q \in Programs, s \in Shaders :
           /\ Affects(call[t], q, s) <=> q = p
           /\ Affects(call[t], q, s) => call[t].op # "attach"
    BY <1>1 DEF Affects
  <1> HIDE DEF p
  <1>8. /\ attached' \in [Programs -> SUBSET Shaders] /\ attached'[p] = {}
        /\ indexes' \in [Programs -> Seq(IndexInfo)] /\ locShiftWAR' \in [Programs -> BOOLEAN]
        /\ \A q \in Programs \ {p} : attached'[q] = attached[q] /\ indexes'[q] = indexes[q]
    BY <1>1, <1>3 DEF Typed
  <1>9. Typed'
    BY <1>1, <1>5, <1>8 DEF Typed
  <1>10. Synchronised'
    <2>1. ASSUME NEW q \in Programs, NEW s \in Shaders
          PROVE  s \in attached'[q] <=>
                    AttachComes(q, s)' \/ (Quiet(q, s)' /\ s \in hAttached'[q])
      <3>1. CASE q = p
        BY <1>1, <1>2, <1>7, <1>8, <3>1, ReturnEffect
      <3>2. CASE q # p
        BY <1>1, <1>2, <1>5, <1>7, <1>8, <3>2, ReturnEffect DEF Synchronised
      <3> QED BY <3>1, <3>2
    <2> QED BY <2>1 DEF Synchronised
  <1>11. \A s \in Shaders : Holders(s)' \subseteq Holders(s)
    BY <1>8 DEF Holders
  <1>12. Counted'
    <2>1. ASSUME NEW s \in Shaders PROVE refcount'[s] >= Cardinality(Holders(s)') + Own(s)'
      <3>1. Own(s) \in {0, 1} /\ Own(s)' \in {0, 1} /\ (Own(s)' = 1 => Own(s) = 1)
        BY <1>1, <1>5 DEF Own
      <3>2. /\ refcount[s] \in Nat /\ Cardinality(Holders(s)) \in Nat
            /\ refcount[s] >= Cardinality(Holders(s)) + Own(s) /\ Cardinality(Holders(s)') \in Nat
        BY FiniteCounts DEF Typed, Counted
      <3>3. Cardinality(Holders(s)') <= Cardinality(Holders(s))
        BY <1>11, FiniteCounts, FS_Subset
      <3> QED BY <1>1, <3>1, <3>2, <3>3
    <2>2. \A q \in Programs \ m_programs' : attached'[q] = {}
      BY <1>1, <1>8 DEF Counted
    <2> QED BY <2>1, <2>2 DEF Counted
  <1>13. Bounded'
    <2>1. \A s \in Shaders : refcount'[s] <= refcount[s] /\ Attaching(s)' \subseteq Attaching(s)
      BY <1>1, <1>5 DEF Typed
    <2> QED BY <1>1, <2>1, BoundedSame DEF Typed
  <1>14. NamesKnown'
    <2>1. \A s \in Shaders : Holders(s)' # {} => Holders(s) # {}
      BY <1>11
    <2> QED BY <1>1, <1>5, <2>1, NamesSame
  <1>15. Recording'
    <2>1. ASSUME NEW q \in Programs, q \in alive', hLinked'[q] # <<>>
          PROVE  /\ Len(indexes'[q]) <= Len(hLinked'[q])
                 /\ ~Linking(q)' => Len(indexes'[q]) = Len(hLinked'[q])
                 /\ \A i \in DOMAIN indexes'[q] : Mirrors(q, i)'
      <3>1. q # p /\ q \in alive /\ indexes'[q] = indexes[q] /\ hLinked[q] # <<>>
        BY <1>1, <1>4, <1>5, <1>8, <2>1
      <3>2. \A i : Mirrors(q, i)' <=> Mirrors(q, i)
        BY <1>5, <3>1 DEF Mirrors
      <3> QED BY <1>5, <3>1, <3>2 DEF Recording
    <2>2. ASSUME NEW q \in Programs, Linking(q)'
          PROVE  \A n \in hExternal'[q] : \E s \in attached'[q] : n \in external'[s]
      <3>1. q # p /\ Linking(q)
        BY <1>5, <1>6, <2>2
      <3> QED BY <1>1, <1>5, <1>8, <3>1 DEF Recording
    <2> QED BY <2>1, <2>2 DEF Recording
  <1> QED BY <1>5, <1>9, <1>10, <1>12, <1>13, <1>14, <1>15

\* The end of an attachment or detachment, when the count follows the list.
LEMMA ListStep ==
  ASSUME IInv, NEW t \in Threads, call[t].op \in {"attach", "detach"}, Return(t),
         NEW p, NEW s, p = call[t].program, s = call[t].shader,
         UNCHANGED <<alive, out, m_programs, indexes, locShiftWAR, host, given>>,
         external' \in [Shaders -> SUBSET Samplers],
         \A q \in Shaders : q # s \/ refcount'[s] > 0 => external'[q] = external[q],
         call[t].op = "attach" => attached' = [attached EXCEPT ![p] = @ \cup {s}],
         call[t].op = "detach" => attached' = [attached EXCEPT ![p] = @ \ {s}],
         refcount' \in [Shaders -> Nat], \A q \in Shaders \ {s} : refcount'[q] = refcount[q],
         refcount'[s] + Cardinality(Holders(s)) = refcount[s] + Cardinality(Holders(s)'),
         refcount'[s] <= refcount[s] + 1, call[t].op = "detach" => refcount'[s] <= refcount[s]
  PROVE  IInv'
  <1> USE DEF IInv
  <1>1. call[t].op \in Sent /\ Shape(call[t]) /\ call[t].op # "link"
    BY DEF Sent, GroupProtocol, CallsNamed
  <1>2. p \in Programs /\ s \in Shaders /\ p \in alive /\ (call[t].op = "attach" => s \in alive)
    BY <1>1, Distinct DEF Shape, GroupProtocol, CallsNamed, Names, Needs
  <1>3. /\ GroupProtocol' /\ call' \in [Threads -> Calls]
        /\ \A u \in Threads : Room(u)'
        /\ \A q \in Shaders : /\ Attaching(q)' = Attaching(q) \ {t}
                              /\ Deleting(q)' => Deleting(q)
        /\ \A q \in Programs : Linking(q)' <=> Linking(q)
        /\ UNCHANGED <<hShaders, hFlagged, hSource, hPrograms, hAttached, hLinked, hExternal>>
    BY <1>1, ReturnFacts DEF GroupProtocol, AliveKnown
  <1>4. ~Linking(p)
    <2>1. Concerns(t, p)
      BY DEF Concerns, Names
    <2> QED BY <1>1, <1>2, <2>1, NotLinking DEF GroupProtocol, OneThread
  <1>5. \A q \in Programs, r \in Shaders : Affects(call[t], q, r) <=> q = p /\ r = s
    BY DEF Affects
  <1>6. /\ attached' \in [Programs -> SUBSET Shaders]
        /\ \A q \in Programs, r \in Shaders :
             r \in attached'[q] <=> IF q = p /\ r = s THEN call[t].op = "attach" ELSE r \in attached[q]
        /\ \A q \in Programs \ {p} : attached'[q] = attached[q]
    <2>1. CASE call[t].op = "attach"
      <3>1. attached' = [attached EXCEPT ![p] = @ \cup {s}]
        BY <2>1
      <3> QED BY <1>2, <2>1, <3>1 DEF Typed
    <2>2. CASE call[t].op = "detach"
      <3>1. attached' = [attached EXCEPT ![p] = @ \ {s}]
        BY <2>2
      <3> QED BY <1>2, <2>2, <3>1 DEF Typed
    <2> QED BY <2>1, <2>2
  <1>7. Typed'
    BY <1>3, <1>6 DEF Typed
  <1>8. Synchronised'
    <2>1. ASSUME NEW q \in Programs, NEW r \in Shaders
          PROVE  r \in attached'[q] <=>
                    AttachComes(q, r)' \/ (Quiet(q, r)' /\ r \in hAttached'[q])
      <3>1. CASE q = p /\ r = s
        BY <1>1, <1>5, <1>6, <3>1, ReturnEffect
      <3>2. CASE ~(q = p /\ r = s)
        BY <1>1, <1>3, <1>5, <1>6, <3>2, ReturnEffect DEF Synchronised
      <3> QED BY <3>1, <3>2
    <2> QED BY <2>1 DEF Synchronised
  <1>9. \A r \in Shaders \ {s} : Holders(r)' = Holders(r)
    BY <1>6 DEF Holders
  <1>10. Counted'
    <2>1. ASSUME NEW r \in Shaders PROVE refcount'[r] >= Cardinality(Holders(r)') + Own(r)'
      <3>1. alive' = alive /\ (Deleting(r)' => Deleting(r))
        BY <1>3
      <3>2. Own(r) \in {0, 1} /\ Own(r)' \in {0, 1} /\ (Own(r)' = 1 => Own(r) = 1)
        BY <3>1 DEF Own
      <3>3. /\ refcount[r] \in Nat /\ refcount[r] >= Cardinality(Holders(r)) + Own(r)
            /\ refcount'[r] \in Nat
        BY DEF Typed, Counted
      <3>4. Cardinality(Holders(r)) \in Nat /\ Cardinality(Holders(r)') \in Nat
        BY FiniteCounts
      <3>5. CASE r = s
        BY <3>2, <3>3, <3>4, <3>5
      <3>6. CASE r # s
        <4>1. refcount'[r] = refcount[r] /\ Holders(r)' = Holders(r)
          BY <1>9, <3>6
        <4> QED BY <3>2, <3>3, <3>4, <4>1
      <3> QED BY <3>5, <3>6
    <2>2. \A q \in Programs \ m_programs' : attached'[q] = {}
      BY <1>2, <1>6 DEF Counted, GroupProtocol, AliveKnown
    <2> QED BY <2>1, <2>2 DEF Counted
  <1>11. Bounded'
    <2>1. CASE call[t].op = "detach"
      <3>1. ASSUME NEW r \in Shaders PROVE refcount'[r] <= refcount[r]
        <4>1. refcount[r] \in Nat /\ (r # s => refcount'[r] = refcount[r])
          BY DEF Typed
        <4>2. refcount'[s] <= refcount[s]
          BY <2>1
        <4> QED BY <4>1, <4>2
      <3> QED BY <1>3, <3>1, BoundedSame
    <2>2. CASE call[t].op = "attach"
      <3> SUFFICES ASSUME NEW r \in Shaders
                   PROVE  refcount'[r] + Cardinality(Attaching(r)') <= MaxRefs
        BY DEF Bounded
      <3>1. /\ refcount[r] + Cardinality(Attaching(r)) <= MaxRefs
            /\ refcount[r] \in Nat /\ refcount'[r] \in Nat
        BY DEF Bounded, Typed
      <3>2. CASE r = s
        <4>1. t \in Attaching(s)
          BY <2>2 DEF Attaching
        <4>2. Cardinality(Attaching(s)') = Cardinality(Attaching(s)) - 1
          BY <1>2, <1>3, <4>1, FiniteCounts, FS_RemoveElement
        <4>3. Cardinality(Attaching(s)) \in Nat
          BY FiniteCounts
        <4> QED BY <2>2, <3>1, <3>2, <4>2, <4>3, GroupBoundsAssumption
      <3>3. CASE r # s
        <4>1. Attaching(r)' = Attaching(r) /\ refcount'[r] = refcount[r]
          BY <1>3, <3>3 DEF Attaching
        <4> QED BY <3>1, <4>1
      <3> QED BY <3>2, <3>3
    <2> QED BY <2>1, <2>2
  <1>14. ASSUME NEW r \in Shaders, r \in alive' \/ Holders(r)' # {}
         PROVE  external'[r] = external[r]
    <2>1. refcount'[r] \in Nat /\ refcount'[r] >= Cardinality(Holders(r)') + Own(r)'
      BY <1>7, <1>10 DEF Counted, Typed
    <2>2. IsFiniteSet(Holders(r)') /\ Cardinality(Holders(r)') \in Nat
      BY FiniteCounts
    <2>3. Holders(r)' # {} => Cardinality(Holders(r)') # 0
      BY <2>2, FS_EmptySet
    <2>4. Own(r)' \in {0, 1} /\ (r \in alive' => Own(r)' = 1)
      BY DEF Own
    <2>5. refcount'[r] > 0
      BY <1>14, <2>1, <2>2, <2>3, <2>4
    <2> QED BY <2>5
  <1>12. NamesKnown'
    <2>1. \A r \in Shaders : (r \in alive' \/ Holders(r)' # {}) => (r \in alive \/ Holders(r) # {})
      <3>1. call[t].op = "detach" => Holders(s)' \subseteq Holders(s)
        BY <1>2, <1>6 DEF Holders
      <3> QED BY <1>2, <1>9, <3>1
    <2>2. \A r \in Shaders : (r \in alive' \/ Holders(r)' # {}) => external'[r] = external[r]
      BY <1>14
    <2> QED BY <1>3, <2>1, <2>2, NamesSame
  <1>13. Recording'
    <2>1. \A q \in Programs : Linking(q)' => attached'[q] = attached[q]
      BY <1>3, <1>4, <1>6
    <2>2. ASSUME NEW q \in Programs, Linking(q)', NEW r \in attached[q]
          PROVE  external[r] \subseteq external'[r]
      <3>1. r \in Shaders /\ q \in Holders(r)'
        BY <1>6, <2>1, <2>2 DEF Holders, Typed
      <3> QED BY <1>14, <3>1
    <2> QED BY <1>3, <2>1, <2>2, RecordingSame
  <1> QED BY <1>3, <1>7, <1>8, <1>10, <1>11, <1>12, <1>13

\* The shader and the program of a call to attach or detach are in the group's records.
LEMMA ListCall ==
  ASSUME IInv, NEW t \in Threads, call[t].op \in {"attach", "detach"},
         NEW p, NEW s, p = call[t].program, s = call[t].shader
  PROVE  /\ p \in Programs /\ s \in Shaders /\ p \in m_programs
         /\ refcount[s] \in Nat
         /\ call[t].op = "attach" \/ s \in attached[p] => refcount[s] > 0
  <1> USE DEF IInv
  <1>1. call[t].op # "link" /\ call[t].op # "none" /\ Shape(call[t])
    BY DEF GroupProtocol, CallsNamed
  <1>2. p \in Programs /\ s \in Shaders /\ p \in alive /\ (call[t].op = "attach" => s \in alive)
    BY <1>1, Distinct DEF Shape, GroupProtocol, CallsNamed, Names, Needs
  <1>3. refcount[s] \in Nat
    BY <1>2 DEF Typed
  <1>4. s \in alive \/ Holders(s) # {} => refcount[s] > 0
    BY <1>2, <1>3, HeldIsCounted DEF Own
  <1>5. s \in attached[p] => Holders(s) # {}
    BY <1>2 DEF Holders
  <1> QED BY <1>2, <1>3, <1>4, <1>5 DEF GroupProtocol, AliveKnown

\* s_glAttachShader's end: the program's list takes a reference of its own.
LEMMA AttachShaderStep ==
  ASSUME IInv, NEW t \in Threads, AttachShader(t)
  PROVE  IInv'
  <1> USE DEF IInv
  <1>1. PICK p, s : p = call[t].program /\ s = call[t].shader
    OBVIOUS
  <1>2. /\ call[t].op = "attach" /\ Return(t)
        /\ IF p \in m_programs /\ refcount[s] > 0 /\ s \notin attached[p]
             THEN attached' = [attached EXCEPT ![p] = @ \cup {s}] /\ Ref(s)
             ELSE UNCHANGED <<attached, refcount, external>>
        /\ UNCHANGED <<alive, out, m_programs, indexes, locShiftWAR, host, given>>
    BY <1>1 DEF AttachShader
  <1>3. p \in Programs /\ s \in Shaders /\ p \in m_programs
        /\ refcount[s] \in Nat /\ refcount[s] > 0
    BY <1>1, <1>2, ListCall
  <1>4. attached \in [Programs -> SUBSET Shaders] /\ refcount \in [Shaders -> Nat]
    BY DEF Typed
  <1>7. external \in [Shaders -> SUBSET Samplers]
    BY DEF Typed
  <1>5. CASE s \in attached[p]
    <2>1. UNCHANGED <<attached, refcount, external>>
      BY <1>2, <1>5
    <2>2. Holders(s)' = Holders(s)
      BY <2>1 DEF Holders
    <2>3. attached' = [attached EXCEPT ![p] = @ \cup {s}]
      BY <1>2, <1>3, <1>4, <1>5, <2>1
    <2>4. /\ refcount'[s] + Cardinality(Holders(s)) = refcount[s] + Cardinality(Holders(s)')
          /\ refcount'[s] <= refcount[s] + 1 /\ (call[t].op = "detach" => refcount'[s] <= refcount[s])
      BY <1>2, <1>3, <2>1, <2>2
    <2> QED BY <1>1, <1>2, <1>4, <1>7, <2>1, <2>3, <2>4, ListStep
  <1>6. CASE s \notin attached[p]
    <2>1. attached' = [attached EXCEPT ![p] = @ \cup {s}] /\ Ref(s)
      BY <1>2, <1>3, <1>6
    <2>2. /\ refcount' \in [Shaders -> Nat] /\ refcount'[s] = refcount[s] + 1
          /\ \A q \in Shaders \ {s} : refcount'[q] = refcount[q] /\ external' = external
      BY <1>3, <1>4, <2>1 DEF Ref
    <2>3. external' = external
      BY <2>1 DEF Ref
    <2>4. Holders(s)' = Holders(s) \cup {p} /\ p \notin Holders(s)
      BY <1>3, <1>4, <1>6, <2>1 DEF Holders
    <2>5. Cardinality(Holders(s)') = Cardinality(Holders(s)) + 1 /\ Cardinality(Holders(s)) \in Nat
      BY <2>4, FiniteCounts, FS_AddElement
    <2>7. /\ refcount'[s] + Cardinality(Holders(s)) = refcount[s] + Cardinality(Holders(s)')
          /\ refcount'[s] <= refcount[s] + 1 /\ (call[t].op = "detach" => refcount'[s] <= refcount[s])
      BY <1>2, <1>3, <2>2, <2>5
    <2> QED BY <1>1, <1>2, <1>7, <2>1, <2>2, <2>3, <2>7, ListStep
  <1> QED BY <1>5, <1>6

\* s_glDetachShader's end: the list gives its reference back, the last one if the shader
\* was deleted and was attached to no other program.
LEMMA DetachShaderStep ==
  ASSUME IInv, NEW t \in Threads, DetachShader(t)
  PROVE  IInv'
  <1> USE DEF IInv
  <1>1. PICK p, s : p = call[t].program /\ s = call[t].shader
    OBVIOUS
  <1>2. /\ call[t].op = "detach" /\ Return(t)
        /\ IF p \in m_programs /\ refcount[s] > 0 /\ s \in attached[p]
             THEN attached' = [attached EXCEPT ![p] = @ \ {s}] /\ Unref(s)
             ELSE UNCHANGED <<attached, refcount, external>>
        /\ UNCHANGED <<alive, out, m_programs, indexes, locShiftWAR, host, given>>
    BY <1>1 DEF DetachShader
  <1>3. /\ p \in Programs /\ s \in Shaders /\ p \in m_programs
        /\ refcount[s] \in Nat /\ (s \in attached[p] => refcount[s] > 0)
    BY <1>1, <1>2, ListCall
  <1>4. attached \in [Programs -> SUBSET Shaders] /\ refcount \in [Shaders -> Nat]
    BY DEF Typed
  <1>7. external \in [Shaders -> SUBSET Samplers]
    BY DEF Typed
  <1>5. CASE s \notin attached[p]
    <2>1. UNCHANGED <<attached, refcount, external>>
      BY <1>2, <1>5
    <2>2. Holders(s)' = Holders(s)
      BY <2>1 DEF Holders
    <2>3. attached' = [attached EXCEPT ![p] = @ \ {s}]
      BY <1>2, <1>3, <1>4, <1>5, <2>1
    <2>4. /\ refcount'[s] + Cardinality(Holders(s)) = refcount[s] + Cardinality(Holders(s)')
          /\ refcount'[s] <= refcount[s] + 1 /\ (call[t].op = "detach" => refcount'[s] <= refcount[s])
      BY <1>2, <1>3, <2>1, <2>2
    <2> QED BY <1>1, <1>2, <1>4, <1>7, <2>1, <2>3, <2>4, ListStep
  <1>6. CASE s \in attached[p]
    <2>1. attached' = [attached EXCEPT ![p] = @ \ {s}] /\ Unref(s)
      BY <1>2, <1>3, <1>6
    <2>2. /\ refcount' \in [Shaders -> Nat] /\ refcount'[s] = refcount[s] - 1
          /\ \A q \in Shaders \ {s} : refcount'[q] = refcount[q]
      BY <1>3, <1>4, <1>6, <2>1 DEF Unref
    <2>3. /\ external' \in [Shaders -> SUBSET Samplers]
          /\ \A q \in Shaders : q # s \/ refcount'[s] > 0 => external'[q] = external[q]
      <3>1. CASE refcount[s] = 1
        <4>1. external' = [external EXCEPT ![s] = {}] /\ refcount'[s] = 0
          BY <2>1, <2>2, <3>1 DEF Unref
        <4>2. external' \in [Shaders -> SUBSET Samplers]
          BY <1>7, <4>1
        <4>3. ~(refcount'[s] > 0)
          BY <4>1
        <4>4. \A q \in Shaders : q # s => external'[q] = external[q]
          BY <1>7, <4>1
        <4> QED BY <4>2, <4>3, <4>4
      <3>2. CASE refcount[s] # 1
        <4>1. external' = external
          BY <2>1, <3>2 DEF Unref
        <4> QED BY <1>7, <4>1
      <3> QED BY <3>1, <3>2
    <2>4. Holders(s)' = Holders(s) \ {p} /\ p \in Holders(s)
      BY <1>3, <1>4, <1>6, <2>1 DEF Holders
    <2>5. Cardinality(Holders(s)') = Cardinality(Holders(s)) - 1 /\ Cardinality(Holders(s)) \in Nat
      BY <2>4, FiniteCounts, FS_RemoveElement
    <2>7. /\ refcount'[s] + Cardinality(Holders(s)) = refcount[s] + Cardinality(Holders(s)')
          /\ refcount'[s] <= refcount[s] + 1 /\ (call[t].op = "detach" => refcount'[s] <= refcount[s])
      BY <1>2, <1>3, <2>2, <2>5
    <2> QED BY <1>1, <1>2, <2>1, <2>2, <2>3, <2>7, ListStep
  <1> QED BY <1>5, <1>6

\* When t alone is concerned with a program and waits for nothing, the guest's list of its
\* shaders is the host's.
LEMMA ListsAgree ==
  ASSUME Typed, Synchronised, NEW t \in Threads, NEW p \in Programs, Free(t, p), out[t] = <<>>
  PROVE  attached[p] = hAttached[p]
  <1>1. \A u \in Threads : \A i \in DOMAIN out[u] : out[u][i].program # p
    BY DEF Free, Names
  <1>2. \A s \in Shaders : Quiet(p, s) /\ ~AttachComes(p, s)
    BY <1>1 DEF Quiet, AttachComes, Affects, Done
  <1> QED BY <1>2 DEF Synchronised, Typed

\* s_glLinkProgram's beginning: the external samplers the host links are known to the
\* shaders on the guest's list.
LEMMA LinkProgramStep ==
  ASSUME IInv, NEW t \in Threads, NEW p \in Programs, LinkProgram(t, p)
  PROVE  IInv'
  <1> USE DEF IInv
  <1>1. /\ call[t] = Idle /\ out[t] = <<>> /\ p \in alive /\ Free(t, p)
        /\ given' = [given EXCEPT ![p] = {}]
        /\ UNCHANGED <<alive, out, m_programs, attached, refcount, external,
                       hShaders, hFlagged, hSource, hPrograms, hAttached>>
    BY DEF LinkProgram
  <1> DEFINE c == Call("link", p, NoObject, {})
  <1>2. /\ c \in Calls /\ Shape(c) /\ c.op = "link" /\ c.program = p
        /\ \A o \in Shaders \cup Programs : Names(c, o) <=> o = p
    BY NamesAssumption DEF Call, Calls, Ops, Shape, Names
  <1> HIDE DEF c
  <1>3. \/ /\ \E l \in Layouts : hLinked' = [hLinked EXCEPT ![p] = l]
           /\ hExternal' = [hExternal EXCEPT ![p] = UNION {hSource[s] : s \in hAttached[p]}]
           /\ indexes' = [indexes EXCEPT ![p] = <<>>]
           /\ locShiftWAR' = [locShiftWAR EXCEPT ![p] = FALSE]
           /\ call' = [call EXCEPT ![t] = c]
        \/ /\ hLinked' = [hLinked EXCEPT ![p] = <<>>]
           /\ hExternal' = [hExternal EXCEPT ![p] = {}]
           /\ UNCHANGED <<call, indexes, locShiftWAR>>
    BY DEF LinkProgram, c
  <1>4. PICK d \in {c, Idle} :
           /\ call' = [call EXCEPT ![t] = d]
           /\ d = c => indexes'[p] = <<>> /\ hExternal'[p] = UNION {hSource[s] : s \in hAttached[p]}
           /\ d = Idle => hLinked'[p] = <<>>
    <2>1. CASE UNCHANGED call /\ hLinked' = [hLinked EXCEPT ![p] = <<>>]
      <3>1. call' = [call EXCEPT ![t] = Idle]
        BY <1>1, <2>1 DEF Typed
      <3>2. Idle # c
        BY <1>2, IdleFacts
      <3> QED BY <2>1, <3>1, <3>2 DEF Typed
    <2>2. CASE /\ hExternal' = [hExternal EXCEPT ![p] = UNION {hSource[s] : s \in hAttached[p]}]
               /\ indexes' = [indexes EXCEPT ![p] = <<>>]
               /\ call' = [call EXCEPT ![t] = c]
      <3>1. Idle # c
        BY <1>2, IdleFacts
      <3> QED BY <2>2, <3>1 DEF Typed
    <2> QED BY <1>3, <2>1, <2>2
  <1>5. /\ hLinked' \in [Programs -> Seq(Uniform)] /\ hLinked'[p] \in Layouts \cup {<<>>}
        /\ \A q \in Programs \ {p} : hLinked'[q] = hLinked[q]
    <2>1. PICK l \in Layouts \cup {<<>>} : hLinked' = [hLinked EXCEPT ![p] = l]
      BY <1>3
    <2>2. l \in Seq(Uniform)
      <3>1. <<>> \in Seq(Uniform)
        OBVIOUS
      <3> QED BY <3>1, LayoutsAssumption
    <2> QED BY <2>1, <2>2 DEF Typed
  <1>6. /\ hExternal' \in [Programs -> SUBSET Samplers]
        /\ \A q \in Programs \ {p} : hExternal'[q] = hExternal[q]
    <2>1. UNION {hSource[s] : s \in hAttached[p]} \in SUBSET Samplers
      BY DEF Typed
    <2>2. PICK e \in SUBSET Samplers : hExternal' = [hExternal EXCEPT ![p] = e]
      BY <1>3, <2>1
    <2> QED BY <2>2 DEF Typed
  <1>7. /\ indexes' \in [Programs -> Seq(IndexInfo)] /\ locShiftWAR' \in [Programs -> BOOLEAN]
        /\ \A q \in Programs \ {p} : indexes'[q] = indexes[q]
    <2>1. CASE UNCHANGED <<indexes, locShiftWAR>>
      BY <2>1 DEF Typed
    <2>2. CASE /\ indexes' = [indexes EXCEPT ![p] = <<>>]
               /\ locShiftWAR' = [locShiftWAR EXCEPT ![p] = FALSE]
      BY <2>2 DEF Typed
    <2> QED BY <1>3, <2>1, <2>2
  <1>8. /\ d \in Calls /\ Shape(d) /\ d.op \in {"link", "none"} /\ d.op \notin Sent
        /\ \A o \in Shaders \cup Programs : Names(d, o) => o = p
        /\ d.op = "link" => d = c
    BY <1>2, IdleFacts DEF Sent
  <1>9. /\ call' \in [Threads -> Calls] /\ call'[t] = d
        /\ \A u \in Threads \ {t} : call'[u] = call[u]
    BY <1>4, <1>8, CallEffect
  <1>10. call[t].op = "none" /\ call[t].op \notin Sent
    BY <1>1, IdleFacts DEF Sent
  <1>11. Typed'
    <2>1. given' \in [Programs -> SUBSET (Nat \X Nat)]
      BY <1>1 DEF Typed
    <2>2. \A u \in Threads : Room(u)'
      BY <1>1, <1>8, <1>9 DEF Typed, Room
    <2>3. \A q \in Programs : hLinked'[q] \in Layouts \cup {<<>>}
      BY <1>5 DEF Typed
    <2> QED BY <1>1, <1>5, <1>6, <1>7, <1>9, <2>1, <2>2, <2>3 DEF Typed
  <1>12. GroupProtocol'
    <2>1. AliveKnown'
      <3>1. p \in hPrograms
        BY <1>1 DEF GroupProtocol, AliveKnown
      <3> QED BY <1>1, <1>5, <3>1 DEF GroupProtocol, AliveKnown
    <2>2. \A o \in Shaders \cup Programs : Names(d, o) => o \in alive
      BY <1>1, <1>8
    <2>3. \A q \in Programs : Names(d, q) => Free(t, q)
      BY <1>1, <1>8
    <2> QED BY <1>1, <1>4, <1>8, <2>1, <2>2, <2>3, CallProtocol
  <1>13. Synchronised'
    BY <1>1, <1>4, <1>8, <1>10, UnsentDone DEF Synchronised
  <1>14. \A q \in Shaders : /\ Deleting(q)' <=> Deleting(q)
                            /\ Attaching(q)' = Attaching(q) /\ Holders(q)' = Holders(q)
    BY <1>1, <1>8, <1>9, <1>10 DEF Deleting, Attaching, Holders
  <1>15. Counted'
    BY <1>1, <1>14, CountedSame
  <1>16. Bounded'
    BY <1>1, <1>14 DEF Bounded
  <1>17. NamesKnown'
    BY <1>1, <1>14 DEF NamesKnown
  <1>18. Recording'
    <2>1. \A q \in Programs \ {p} : Linking(q)' <=> Linking(q)
      BY <1>2, <1>8, <1>9, <1>10 DEF Linking
    <2>2. Linking(p)' => d = c
      BY <1>1, <1>8, <1>9 DEF Linking, Free, Names
    <2>3. d = c => Linking(p)'
      BY <1>2, <1>9 DEF Linking
    <2>4. ASSUME NEW q \in Programs, q \in alive', hLinked'[q] # <<>>
          PROVE  /\ Len(indexes'[q]) <= Len(hLinked'[q])
                 /\ ~Linking(q)' => Len(indexes'[q]) = Len(hLinked'[q])
                 /\ \A i \in DOMAIN indexes'[q] : Mirrors(q, i)'
      <3>1. CASE q = p
        <4>1. indexes'[p] = <<>> /\ Linking(p)'
          BY <1>4, <2>3, <2>4, <3>1
        <4>2. Len(hLinked'[p]) \in Nat
          BY <1>5
        <4> QED BY <3>1, <4>1, <4>2
      <3>2. CASE q # p
        <4>1. q \in alive /\ indexes'[q] = indexes[q] /\ hLinked'[q] = hLinked[q]
              /\ hExternal'[q] = hExternal[q]
          BY <1>1, <1>5, <1>6, <1>7, <2>4, <3>2
        <4>2. \A i : Mirrors(q, i)' <=> Mirrors(q, i)
          BY <4>1 DEF Mirrors
        <4> QED BY <2>1, <2>4, <3>2, <4>1, <4>2 DEF Recording
      <3> QED BY <3>1, <3>2
    <2>5. ASSUME NEW q \in Programs, Linking(q)'
          PROVE  \A n \in hExternal'[q] : \E s \in attached'[q] : n \in external'[s]
      <3>1. CASE q = p
        <4>1. hExternal'[p] = UNION {hSource[s] : s \in attached[p]}
          BY <1>1, <1>4, <2>2, <2>5, <3>1, ListsAgree
        <4>2. \A s \in attached[p] : hSource[s] \subseteq external[s]
          <5> TAKE s \in attached[p]
          <5>1. s \in Shaders /\ Holders(s) # {}
            BY DEF Typed, Holders
          <5> QED BY <5>1 DEF NamesKnown
        <4> QED BY <1>1, <3>1, <4>1, <4>2
      <3>2. CASE q # p
        BY <1>1, <1>6, <2>1, <2>5, <3>2 DEF Recording
      <3> QED BY <3>1, <3>2
    <2> QED BY <2>4, <2>5 DEF Recording
  <1> QED BY <1>11, <1>12, <1>13, <1>15, <1>16, <1>17, <1>18

\* Steps that touch only a program's table of uniforms or the application's locations.
LEMMA TableFrame ==
  ASSUME IInv, UNCHANGED <<alive, call, out, m_programs, attached, refcount, external, host>>
  PROVE  /\ GroupProtocol' /\ Synchronised' /\ Counted' /\ Bounded' /\ NamesKnown'
         /\ \A t \in Threads : Room(t)'
         /\ \A p \in Programs : Linking(p)' <=> Linking(p)
         /\ UNCHANGED <<hShaders, hFlagged, hSource, hPrograms, hAttached, hLinked, hExternal>>
  <1> USE DEF IInv
  <1>1. UNCHANGED <<hShaders, hFlagged, hSource, hPrograms, hAttached, hLinked, hExternal>>
    BY DEF host
  <1>2. CallsNamed' /\ PacketsNamed' /\ AliveKnown'
    BY <1>1 DEF GroupProtocol, CallsNamed, PacketsNamed, AliveKnown
  <1>3. DeletionLast' /\ OneThread' /\ DetachesKept'
    BY <1>1 DEF GroupProtocol, DeletionLast, Unneeded, OneThread, Free, Concerns,
                DetachesKept, Undeleted, AttachedBefore
  <1>4. \A u \in Threads : Done(u)' = Done(u)
    BY DEF Done
  <1>5. Synchronised'
    BY <1>1, <1>4, SameDone DEF Synchronised
  <1>6. \A s \in Shaders : /\ Deleting(s)' <=> Deleting(s)
                           /\ Attaching(s)' = Attaching(s) /\ Holders(s)' = Holders(s)
    BY DEF Deleting, Attaching, Holders
  <1>7. Counted' /\ Bounded'
    <2>1. Counted'
      BY <1>6, CountedSame
    <2>2. Bounded'
      BY <1>6 DEF Bounded
    <2> QED BY <2>1, <2>2
  <1>8. NamesKnown'
    BY <1>1, <1>6 DEF NamesKnown
  <1>9. (\A t \in Threads : Room(t)') /\ \A p \in Programs : Linking(p)' <=> Linking(p)
    BY DEF Typed, Room, Linking
  <1> QED BY <1>1, <1>2, <1>3, <1>5, <1>7, <1>8, <1>9 DEF GroupProtocol

\* The entry recorded for a uniform is about it, and flags a sampler that a shader on the
\* program's list declares external.
LEMMA IndexInfoFacts ==
  ASSUME IInv, NEW p \in Programs, NEW u \in Uniform, NEW e, e = IndexInfoFor(p, u)
  PROVE  /\ e \in IndexInfo /\ e.name = u.name /\ e.base = u.base /\ e.size = u.size
         /\ u.name \in Samplers /\ (\E s \in attached[p] : u.name \in external[s]) => e.external
  <1> USE DEF IInv
  <1> DEFINE n == Len(indexes[p])
             last == indexes[p][n]
             appBase == IF n > 0 THEN last.appBase + last.size ELSE 0
             flag == /\ u.name \in Samplers
                     /\ \E s \in attached[p] : refcount[s] > 0 /\ u.name \in external[s]
  <1>1. appBase \in Nat
    <2>1. indexes[p] \in Seq(IndexInfo)
      BY DEF Typed
    <2>2. n > 0 => last \in IndexInfo
      BY <2>1
    <2> QED BY <2>2 DEF IndexInfo
  <1>2. flag \in BOOLEAN
    OBVIOUS
  <1>3. e = [name |-> u.name, base |-> u.base, size |-> u.size, appBase |-> appBase,
             hostLocsPerElement |-> 1, external |-> flag]
    BY DEF IndexInfoFor
  <1>4. u.name \in STRING /\ u.base \in Nat /\ u.size \in Nat
    BY DEF Uniform
  <1>5. \A s \in attached[p] : refcount[s] > 0
    <2> TAKE s \in attached[p]
    <2>1. s \in Shaders /\ Holders(s) # {}
      BY DEF Typed, Holders
    <2>2. refcount[s] \in Nat /\ refcount[s] > Own(s) /\ Own(s) \in {0, 1}
      BY <2>1, HeldIsCounted DEF Typed, Own
    <2> QED BY <2>2
  <1>6. u.name \in Samplers /\ (\E s \in attached[p] : u.name \in external[s]) => flag
    BY <1>5
  <1> HIDE DEF appBase, flag
  <1> QED BY <1>1, <1>2, <1>3, <1>4, <1>6 DEF IndexInfo

\* s_glLinkProgram's loop.
LEMMA SetProgramIndexInfoStep ==
  ASSUME IInv, NEW t \in Threads, SetProgramIndexInfo(t)
  PROVE  IInv'
  <1> USE DEF IInv
  <1>1. PICK p : p = call[t].program
    OBVIOUS
  <1>2. PICK n : n = Len(indexes[p])
    OBVIOUS
  <1>3. PICK e : e = IndexInfoFor(p, hLinked[p][n + 1])
    OBVIOUS
  <1>4. /\ call[t].op = "link" /\ n < Len(hLinked[p])
        /\ indexes' = [indexes EXCEPT ![p] = Append(@, e)]
        /\ UNCHANGED <<alive, call, out, m_programs, attached, locShiftWAR, refcount, external,
                       host, given>>
    BY <1>1, <1>2, <1>3 DEF SetProgramIndexInfo
  <1>5. p \in Programs /\ p \in alive /\ Linking(p)
    BY <1>1, <1>4, Distinct DEF GroupProtocol, CallsNamed, Shape, Names, Needs, Linking
  <1>6. /\ indexes[p] \in Seq(IndexInfo) /\ hLinked[p] \in Seq(Uniform)
    BY <1>5 DEF Typed
  <1>7. n \in Nat /\ n + 1 \in DOMAIN hLinked[p] /\ hLinked[p][n + 1] \in Uniform /\ hLinked[p] # <<>>
    BY <1>2, <1>4, <1>6
  <1>8. /\ e \in IndexInfo /\ e.name = hLinked[p][n + 1].name
        /\ e.base = hLinked[p][n + 1].base /\ e.size = hLinked[p][n + 1].size
        /\ hLinked[p][n + 1].name \in Samplers
             /\ (\E s \in attached[p] : hLinked[p][n + 1].name \in external[s]) => e.external
    BY <1>3, <1>5, <1>7, IndexInfoFacts
  <1>9. /\ indexes'[p] = Append(indexes[p], e) /\ indexes'[p] \in Seq(IndexInfo)
        /\ \A q \in Programs \ {p} : indexes'[q] = indexes[q]
    BY <1>4, <1>5, <1>6, <1>8 DEF Typed
  <1>10. indexes' \in [Programs -> Seq(IndexInfo)]
    BY <1>4, <1>5, <1>9 DEF Typed
  <1>11. /\ Len(indexes'[p]) = n + 1 /\ DOMAIN indexes'[p] = 1 .. n + 1 /\ indexes'[p][n + 1] = e
         /\ \A i \in 1 .. n : i \in DOMAIN indexes[p] /\ indexes'[p][i] = indexes[p][i]
    BY <1>2, <1>6, <1>8, <1>9
  <1>12. /\ GroupProtocol' /\ Synchronised' /\ Counted' /\ Bounded' /\ NamesKnown'
         /\ \A u \in Threads : Room(u)'
         /\ \A q \in Programs : Linking(q)' <=> Linking(q)
         /\ UNCHANGED <<hShaders, hFlagged, hSource, hPrograms, hAttached, hLinked, hExternal>>
    BY <1>4, TableFrame
  <1>13. Typed'
    BY <1>4, <1>10, <1>12 DEF Typed
  <1>14. Recording'
    <2>1. ASSUME NEW i \in DOMAIN indexes'[p] PROVE Mirrors(p, i)'
      <3>1. CASE i \in 1 .. n
        <4>1. Mirrors(p, i)
          BY <1>5, <1>7, <1>11, <3>1 DEF Recording
        <4> QED BY <1>11, <1>12, <3>1, <4>1 DEF Mirrors
      <3>2. CASE i = n + 1
        <4>1. hLinked[p][n + 1].name \in hExternal[p] => e.external
          BY <1>5, <1>8 DEF Recording, Typed
        <4> QED BY <1>8, <1>11, <1>12, <3>2, <4>1 DEF Mirrors
      <3> QED BY <1>7, <1>11, <3>1, <3>2
    <2>2. ASSUME NEW q \in Programs, q \in alive', hLinked'[q] # <<>>
          PROVE  /\ Len(indexes'[q]) <= Len(hLinked'[q])
                 /\ ~Linking(q)' => Len(indexes'[q]) = Len(hLinked'[q])
                 /\ \A i \in DOMAIN indexes'[q] : Mirrors(q, i)'
      <3>1. CASE q = p
        <4>1. Len(hLinked[p]) \in Nat
          BY <1>6
        <4>2. Len(indexes'[p]) <= Len(hLinked'[p])
          BY <1>4, <1>7, <1>11, <1>12, <4>1
        <4> QED BY <1>5, <1>12, <2>1, <3>1, <4>2
      <3>2. CASE q # p
        <4>1. q \in alive /\ indexes'[q] = indexes[q] /\ hLinked[q] # <<>>
          BY <1>4, <1>9, <1>12, <2>2, <3>2
        <4>2. \A i : Mirrors(q, i)' <=> Mirrors(q, i)
          BY <1>12, <4>1 DEF Mirrors
        <4> QED BY <1>12, <4>1, <4>2 DEF Recording
      <3> QED BY <3>1, <3>2
    <2>3. ASSUME NEW q \in Programs, Linking(q)'
          PROVE  \A m \in hExternal'[q] : \E s \in attached'[q] : m \in external'[s]
      BY <1>4, <1>12, <2>3 DEF Recording
    <2> QED BY <2>2, <2>3 DEF Recording
  <1> QED BY <1>12, <1>13, <1>14

\* s_glLinkProgram's end: the table has an entry for every uniform.
LEMMA SetupLocationShiftWARStep ==
  ASSUME IInv, NEW t \in Threads, SetupLocationShiftWAR(t)
  PROVE  IInv'
  <1> USE DEF IInv
  <1>1. PICK p : p = call[t].program
    OBVIOUS
  <1>2. /\ call[t].op = "link" /\ Return(t) /\ Len(indexes[p]) = Len(hLinked[p])
        /\ locShiftWAR' = [locShiftWAR EXCEPT ![p] = NeedsShiftWAR(indexes[p])]
        /\ UNCHANGED <<alive, out, m_programs, attached, indexes, refcount, external, host, given>>
    BY <1>1 DEF SetupLocationShiftWAR
  <1>3. UNCHANGED <<hShaders, hFlagged, hSource, hPrograms, hAttached, hLinked, hExternal>>
    BY <1>2 DEF host
  <1>4. p \in Programs
    BY <1>1, <1>2 DEF GroupProtocol, CallsNamed, Shape
  <1>5. /\ call' = [call EXCEPT ![t] = Idle] /\ call' \in [Threads -> Calls] /\ call'[t] = Idle
        /\ \A u \in Threads \ {t} : call'[u] = call[u]
    BY <1>2, CallEffect, IdleFacts DEF Return
  <1>6. call'[t].op = "none" /\ Idle.op \notin Sent /\ call[t].op \notin Sent
    BY <1>2, <1>5, IdleFacts DEF Sent
  <1>7. Typed'
    <2>1. NeedsShiftWAR(indexes[p]) \in BOOLEAN
      BY DEF NeedsShiftWAR
    <2>2. locShiftWAR' \in [Programs -> BOOLEAN]
      BY <1>2, <1>4, <2>1 DEF Typed
    <2>3. \A u \in Threads : Room(u)'
      BY <1>2, <1>5, <1>6 DEF Typed, Room
    <2> QED BY <1>2, <1>3, <1>5, <2>2, <2>3 DEF Typed
  <1>8. GroupProtocol'
    <2>1. AliveKnown'
      BY <1>2, <1>3 DEF GroupProtocol, AliveKnown
    <2> QED BY <1>2, <1>3, <1>5, <1>6, <2>1, Distinct, IdleFacts, CallProtocol
  <1>9. Synchronised'
    BY <1>2, <1>3, <1>5, <1>6, IdleFacts, UnsentDone DEF Synchronised
  <1>10. \A q \in Shaders : /\ Deleting(q)' <=> Deleting(q)
                            /\ Attaching(q)' = Attaching(q) /\ Holders(q)' = Holders(q)
    BY <1>2, <1>5, <1>6 DEF Deleting, Attaching, Holders
  <1>11. Counted'
    BY <1>2, <1>10, CountedSame
  <1>12. Bounded'
    BY <1>2, <1>10 DEF Bounded
  <1>13. NamesKnown'
    BY <1>2, <1>3, <1>10 DEF NamesKnown
  <1>14. Recording'
    <2>1. \A q \in Programs : Linking(q)' => Linking(q)
      BY <1>5, <1>6 DEF Linking
    <2>2. \A q \in Programs \ {p} : Linking(q) => Linking(q)'
      BY <1>1, <1>2, <1>5 DEF Linking
    <2>3. \A q, i : Mirrors(q, i)' <=> Mirrors(q, i)
      BY <1>2, <1>3 DEF Mirrors
    <2>4. ASSUME NEW q \in Programs, q \in alive', hLinked'[q] # <<>>
          PROVE  /\ Len(indexes'[q]) <= Len(hLinked'[q])
                 /\ ~Linking(q)' => Len(indexes'[q]) = Len(hLinked'[q])
                 /\ \A i \in DOMAIN indexes'[q] : Mirrors(q, i)'
      <3>1. q \in alive /\ hLinked[q] # <<>>
        BY <1>2, <1>3, <2>4
      <3>2. ~Linking(q)' => Len(indexes[q]) = Len(hLinked[q])
        BY <1>2, <2>2, <3>1 DEF Recording
      <3> QED BY <1>2, <1>3, <2>3, <3>1, <3>2 DEF Recording
    <2>5. ASSUME NEW q \in Programs, Linking(q)'
          PROVE  \A m \in hExternal'[q] : \E s \in attached'[q] : m \in external'[s]
      BY <1>2, <1>3, <2>1, <2>5 DEF Recording
    <2> QED BY <2>4, <2>5 DEF Recording
  <1> QED BY <1>7, <1>8, <1>9, <1>11, <1>12, <1>13, <1>14

\* A set of numbers that is not empty has a smallest one.
LEMMA SmallestNumber ==
  ASSUME NEW S \in SUBSET Nat, S # {}
  PROVE  \E x \in S : \A y \in S : x <= y
  <1> DEFINE R == OpToRel(<, Nat)
  <1>1. IsWellFoundedOn(R, Nat)
    BY NatLessThanWellFounded
  <1>2. \A x, y \in Nat : y < x => <<y, x>> \in R
    BY DEF OpToRel
  <1> HIDE DEF R
  <1>3. \E x \in S : \A y \in S : ~ (<<y, x>> \in R)
    BY <1>1, WFMin
  <1>4. PICK x \in S : \A y \in S : ~ (<<y, x>> \in R)
    BY <1>3
  <1>5. ASSUME NEW y \in S PROVE x <= y
    <2>1. x \in Nat /\ y \in Nat
      OBVIOUS
    <2>2. ~ (y < x)
      BY <1>2, <1>4, <2>1, Zenon
    <2> QED BY <2>1, <2>2
  <1> QED BY <1>4, <1>5

\* getIndexForLocation finds an entry when one starts at or below the location.
LEMMA IndexFound ==
  ASSUME NEW table \in Seq(IndexInfo), NEW location \in Nat,
         NEW k \in DOMAIN table, table[k].base <= location,
         NEW i, i = IndexForLocation(table, location)
  PROVE  /\ i \in DOMAIN table /\ table[i].base <= location
         /\ \A j \in DOMAIN table : table[j].base <= location => table[j].base <= table[i].base
  <1>1. ASSUME NEW j \in DOMAIN table PROVE table[j] \in IndexInfo /\ table[j].base \in Nat
    <2>1. table[j] \in IndexInfo
      OBVIOUS
    <2> QED BY <2>1 DEF IndexInfo
  <1> DEFINE S == {location - table[j].base : j \in {m \in DOMAIN table : table[m].base <= location}}
  <1>2. S \in SUBSET Nat /\ S # {}
    <2>1. \A j \in DOMAIN table : table[j].base <= location => location - table[j].base \in Nat
      BY <1>1
    <2>2. location - table[k].base \in S
      OBVIOUS
    <2> QED BY <2>1, <2>2
  <1>3. PICK x \in S : \A y \in S : x <= y
    BY <1>2, SmallestNumber
  <1>4. PICK m \in DOMAIN table : table[m].base <= location /\ x = location - table[m].base
    BY <1>3
  <1>5. ASSUME NEW j \in DOMAIN table, table[j].base <= location
        PROVE  table[j].base <= table[m].base
    <2>1. location - table[j].base \in S
      BY <1>5
    <2>2. location - table[m].base <= location - table[j].base
      BY <1>3, <1>4, <2>1
    <2> QED BY <1>1, <2>2
  <1> HIDE DEF S
  <1> QED BY <1>4, <1>5 DEF IndexForLocation

\* s_glGetUniformLocation: of the table only a number of locations per element changes.
LEMMA GetUniformLocationStep ==
  ASSUME IInv, NEW t \in Threads, NEW p \in Programs, NEW i \in DOMAIN hLinked[p],
         NEW k \in 0 .. hLinked[p][i].size - 1, GetUniformLocation(t, p, i, k)
  PROVE  IInv'
  <1> USE DEF IInv
  <1>1. PICK hostLoc : hostLoc = hLinked[p][i].base + k * hLinked[p][i].stride
    OBVIOUS
  <1>2. PICK war : war = LocationWARHostToApp(indexes[p], hostLoc, k)
    OBVIOUS
  <1>3. PICK m : m = IndexForLocation(indexes[p], hostLoc)
    OBVIOUS
  <1>4. /\ call[t] = Idle /\ p \in alive /\ Free(t, p)
        /\ IF locShiftWAR[p]
             THEN /\ indexes' = [indexes EXCEPT ![p] = war.table]
                  /\ given' = [given EXCEPT ![p] = @ \cup {<<war.location, hostLoc>>}]
             ELSE /\ UNCHANGED indexes
                  /\ given' = [given EXCEPT ![p] = @ \cup {<<hostLoc, hostLoc>>}]
        /\ UNCHANGED <<alive, call, out, m_programs, attached, locShiftWAR, refcount, external, host>>
    BY <1>1, <1>2 DEF GetUniformLocation
  <1>5. /\ indexes[p] \in Seq(IndexInfo) /\ hLinked[p] \in Seq(Uniform)
    BY DEF Typed
  <1>6. /\ hLinked[p][i] \in Uniform /\ hLinked[p] # <<>> /\ i \in 1 .. Len(hLinked[p])
    BY <1>5
  <1>7. /\ hLinked[p][i].base \in Nat /\ hLinked[p][i].size \in Nat \ {0}
        /\ hLinked[p][i].stride \in Nat \ {0}
    BY <1>6 DEF Uniform
  <1>8. k \in Nat
    BY <1>7
  <1>9. hostLoc \in Nat /\ hLinked[p][i].base <= hostLoc
    <2>1. k * hLinked[p][i].stride \in Nat
      BY <1>7, <1>8
    <2> QED BY <1>1, <1>7, <2>1
  <1>10. ~Linking(p)
    BY <1>4, IdleFacts, NotLinking
  <1>11. Len(indexes[p]) = Len(hLinked[p]) /\ \A j \in DOMAIN indexes[p] : Mirrors(p, j)
    BY <1>4, <1>6, <1>10 DEF Recording
  <1>12. i \in DOMAIN indexes[p] /\ indexes[p][i].base <= hostLoc
    <2>1. i \in DOMAIN indexes[p]
      BY <1>5, <1>6, <1>11
    <2>2. indexes[p][i].base = hLinked[p][i].base
      BY <1>11, <2>1 DEF Mirrors
    <2> QED BY <1>9, <2>1, <2>2
  <1>13. m \in DOMAIN indexes[p] /\ indexes[p][m].base <= hostLoc
    BY <1>3, <1>5, <1>9, <1>12, IndexFound
  <1>14. indexes[p][m] \in IndexInfo /\ indexes[p][m].base \in Nat
         /\ indexes[p][m].appBase \in Nat /\ indexes[p][m].hostLocsPerElement \in Nat
    <2>1. indexes[p][m] \in IndexInfo
      BY <1>5, <1>13
    <2> QED BY <2>1 DEF IndexInfo
  <1>15. PICK h : h = HostLocsPerElement(indexes[p][m], hostLoc, k)
    OBVIOUS
  <1>16. h \in Nat
    <2>1. CASE k > 0
      <3>1. hostLoc - indexes[p][m].base \in Nat
        BY <1>9, <1>13, <1>14
      <3>2. h = (hostLoc - indexes[p][m].base) \div k
        BY <1>15, <2>1 DEF HostLocsPerElement
      <3> QED BY <1>8, <2>1, <3>1, <3>2
    <2>2. CASE ~(k > 0)
      BY <1>14, <1>15, <2>2 DEF HostLocsPerElement
    <2> QED BY <2>1, <2>2
  <1>17. /\ war.table = [indexes[p] EXCEPT ![m].hostLocsPerElement = h]
         /\ war.location = indexes[p][m].appBase + k
    BY <1>2, <1>3, <1>15 DEF LocationWARHostToApp
  <1>18. PICK entry : entry = [indexes[p][m] EXCEPT !.hostLocsPerElement = h]
    OBVIOUS
  <1>19. /\ entry \in IndexInfo /\ entry.name = indexes[p][m].name
         /\ entry.base = indexes[p][m].base /\ entry.size = indexes[p][m].size
         /\ entry.external = indexes[p][m].external
    BY <1>14, <1>16, <1>18 DEF IndexInfo
  <1>20. /\ war.table \in Seq(IndexInfo) /\ Len(war.table) = Len(indexes[p])
         /\ DOMAIN war.table = DOMAIN indexes[p] /\ war.table[m] = entry
         /\ \A j \in DOMAIN indexes[p] \ {m} : war.table[j] = indexes[p][j]
    <2>1. war.table = [indexes[p] EXCEPT ![m] = entry]
      BY <1>17, <1>18
    <2> QED BY <1>5, <1>13, <1>19, <2>1
  <1>21. /\ indexes' \in [Programs -> Seq(IndexInfo)] /\ given' \in [Programs -> SUBSET (Nat \X Nat)]
         /\ \A q \in Programs \ {p} : indexes'[q] = indexes[q]
         /\ Len(indexes'[p]) = Len(indexes[p]) /\ DOMAIN indexes'[p] = DOMAIN indexes[p]
         /\ \A j \in DOMAIN indexes[p] : indexes'[p][j] = indexes[p][j] \/ (j = m /\ indexes'[p][j] = entry)
    <2>1. CASE locShiftWAR[p]
      <3>1. /\ indexes' = [indexes EXCEPT ![p] = war.table]
            /\ given' = [given EXCEPT ![p] = @ \cup {<<war.location, hostLoc>>}]
        BY <1>4, <2>1
      <3>2. war.location \in Nat
        BY <1>8, <1>14, <1>17
      <3>3. given' \in [Programs -> SUBSET (Nat \X Nat)]
        BY <1>9, <3>1, <3>2 DEF Typed
      <3>4. /\ indexes' \in [Programs -> Seq(IndexInfo)] /\ indexes'[p] = war.table
            /\ \A q \in Programs \ {p} : indexes'[q] = indexes[q]
        BY <1>20, <3>1 DEF Typed
      <3> QED BY <1>20, <3>3, <3>4
    <2>2. CASE ~locShiftWAR[p]
      <3>1. indexes' = indexes /\ given' = [given EXCEPT ![p] = @ \cup {<<hostLoc, hostLoc>>}]
        BY <1>4, <2>2
      <3> QED BY <1>9, <3>1 DEF Typed
    <2> QED BY <2>1, <2>2
  <1>22. /\ GroupProtocol' /\ Synchronised' /\ Counted' /\ Bounded' /\ NamesKnown'
         /\ \A u \in Threads : Room(u)'
         /\ \A q \in Programs : Linking(q)' <=> Linking(q)
         /\ UNCHANGED <<hShaders, hFlagged, hSource, hPrograms, hAttached, hLinked, hExternal>>
    BY <1>4, TableFrame
  <1>23. Typed'
    BY <1>4, <1>21, <1>22 DEF Typed
  <1>24. Recording'
    <2>1. ASSUME NEW j \in DOMAIN indexes'[p] PROVE Mirrors(p, j)'
      <3>1. Mirrors(p, j) /\ j \in DOMAIN indexes[p]
        BY <1>11, <1>21
      <3>2. CASE indexes'[p][j] = indexes[p][j]
        BY <1>22, <3>1, <3>2 DEF Mirrors
      <3>3. CASE j = m /\ indexes'[p][j] = entry
        BY <1>19, <1>22, <3>1, <3>3 DEF Mirrors
      <3> QED BY <1>21, <3>1, <3>2, <3>3
    <2>2. ASSUME NEW q \in Programs, q \in alive', hLinked'[q] # <<>>
          PROVE  /\ Len(indexes'[q]) <= Len(hLinked'[q])
                 /\ ~Linking(q)' => Len(indexes'[q]) = Len(hLinked'[q])
                 /\ \A j \in DOMAIN indexes'[q] : Mirrors(q, j)'
      <3>1. CASE q = p
        <4>1. Len(hLinked[p]) \in Nat
          BY <1>5
        <4>2. Len(indexes'[p]) = Len(hLinked'[p]) /\ Len(indexes'[p]) <= Len(hLinked'[p])
          BY <1>11, <1>21, <1>22, <4>1
        <4> QED BY <2>1, <3>1, <4>2
      <3>2. CASE q # p
        <4>1. q \in alive /\ indexes'[q] = indexes[q] /\ hLinked[q] # <<>>
          BY <1>4, <1>21, <1>22, <2>2, <3>2
        <4>2. \A j : Mirrors(q, j)' <=> Mirrors(q, j)
          BY <1>22, <4>1 DEF Mirrors
        <4> QED BY <1>22, <4>1, <4>2 DEF Recording
      <3> QED BY <3>1, <3>2
    <2>3. ASSUME NEW q \in Programs, Linking(q)'
          PROVE  \A n \in hExternal'[q] : \E s \in attached'[q] : n \in external'[s]
      BY <1>4, <1>22, <2>3 DEF Recording
    <2> QED BY <2>2, <2>3 DEF Recording
  <1> QED BY <1>22, <1>23, <1>24

\* The host executes a packet.
LEMMA HostExecuteStep ==
  ASSUME IInv, NEW t \in Threads, HostExecute(t)
  PROVE  IInv'
  <1> USE DEF IInv
  <1>1. PICK c : c = Head(out[t])
    OBVIOUS
  <1>2. /\ out[t] # <<>> /\ Executable(t) /\ out' = [out EXCEPT ![t] = Tail(@)]
        /\ UNCHANGED <<alive, call, m_programs, attached, indexes, locShiftWAR, refcount,
                       external, given>>
        /\ hSource' = IF c.op = "source" THEN [hSource EXCEPT ![c.shader] = c.names] ELSE hSource
        /\ IF c.op = "deleteProgram"
             THEN /\ hPrograms' = hPrograms \ {c.program}
                  /\ hLinked' = [hLinked EXCEPT ![c.program] = <<>>]
                  /\ hExternal' = [hExternal EXCEPT ![c.program] = {}]
             ELSE UNCHANGED <<hPrograms, hLinked, hExternal>>
    BY <1>1 DEF HostExecute, group
  <1>3. /\ out' \in [Threads -> Seq(Calls)] /\ \A u \in Threads \ {t} : out'[u] = out[u]
        /\ Len(out[t]) \in Nat \ {0} /\ Len(out'[t]) = Len(out[t]) - 1
        /\ DOMAIN out[t] = 1 .. Len(out[t]) /\ c = out[t][1] /\ c \in Calls
        /\ \A i \in DOMAIN out'[t] : i + 1 \in DOMAIN out[t] /\ out'[t][i] = out[t][i + 1]
    BY <1>1, <1>2, TailEffect
  <1>4. 1 \in DOMAIN out[t]
    BY <1>3
  <1>5. /\ Shape(c) /\ \A s \in Shaders : Names(c, s) => s \in hShaders
        /\ \A o \in Shaders \cup Programs : Deletes(c, o) => o \notin alive
    BY <1>3, <1>4, NamedKept DEF GroupProtocol, PacketsNamed
  <1>6. GroupProtocol' /\ Synchronised'
    BY HostProtocol, HostSync
  <1>7. /\ hAttached' \in [Programs -> SUBSET Shaders]
        /\ \A p \in Programs, s \in Shaders :
              s \in hAttached'[p] <=>
                 IF Affects(c, p, s) THEN c.op = "attach" ELSE s \in hAttached[p]
    BY <1>1, HostAttaches
  <1>8. \A u \in Threads : \A i \in DOMAIN out'[u] :
           \E j \in DOMAIN out[u] : out[u][j] = out'[u][i]
    BY <1>3
  <1>9. /\ hSource' \in [Shaders -> SUBSET Samplers]
        /\ \A s \in Shaders : hSource'[s] = hSource[s] \/ (c.op = "source" /\ c.shader = s /\ hSource'[s] = c.names)
    <2>1. CASE c.op = "source"
      <3>1. c.names \in SUBSET Samplers /\ c.shader \in Shaders
        BY <1>3, <1>5, <2>1 DEF Calls, Shape
      <3> QED BY <1>2, <2>1, <3>1 DEF Typed
    <2>2. CASE c.op # "source"
      BY <1>2, <2>2 DEF Typed
    <2> QED BY <2>1, <2>2
  <1>10. /\ hLinked' \in [Programs -> Seq(Uniform)] /\ hExternal' \in [Programs -> SUBSET Samplers]
         /\ hPrograms' \subseteq Programs
         /\ \A p \in Programs : hLinked'[p] \in Layouts \cup {<<>>}
         /\ \A p \in Programs : p \in alive => hLinked'[p] = hLinked[p] /\ hExternal'[p] = hExternal[p]
    <2>1. CASE c.op = "deleteProgram"
      <3>1. c.program \in Programs /\ c.program \notin alive
        BY <1>5, <2>1 DEF Shape, Deletes
      <3>2. /\ hLinked' = [hLinked EXCEPT ![c.program] = <<>>]
            /\ hExternal' = [hExternal EXCEPT ![c.program] = {}]
            /\ hPrograms' = hPrograms \ {c.program}
        BY <1>2, <2>1
      <3> QED BY <3>1, <3>2 DEF Typed
    <2>2. CASE c.op # "deleteProgram"
      BY <1>2, <2>2 DEF Typed
    <2> QED BY <2>1, <2>2
  <1>11. /\ hFlagged' \subseteq hShaders' /\ hShaders' \subseteq Shaders
         /\ \A p \in Programs : hAttached'[p] \subseteq hShaders'
    <2>1. PICK flagged :
             /\ hShaders' = Kept(hShaders, flagged, hAttached')
             /\ hFlagged' = flagged \cap Kept(hShaders, flagged, hAttached')
      BY DEF HostExecute
    <2>2. \A p \in Programs : hAttached'[p] \subseteq hShaders
      <3> SUFFICES ASSUME NEW p \in Programs, NEW s \in Shaders, s \in hAttached'[p]
                   PROVE  s \in hShaders
        BY <1>7
      <3>1. CASE Affects(c, p, s)
        <4>1. c.op = "attach" /\ c.shader = s
          BY <1>7, <3>1 DEF Affects
        <4> QED BY <1>5, <4>1 DEF Names
      <3>2. CASE ~Affects(c, p, s)
        BY <1>7, <3>2 DEF Typed
      <3> QED BY <3>1, <3>2
    <2> QED BY <2>1, <2>2 DEF Kept, Typed
  <1>12. Typed'
    <2>1. \A u \in Threads : Room(u)'
      <3>1. Room(t)'
        <4>1. Len(out[t]) <= MaxOut /\ (call[t].op = "source" => Len(out[t]) < MaxOut)
          BY DEF Typed, Room
        <4> QED BY <1>2, <1>3, <4>1, GroupBoundsAssumption DEF Room
      <3> QED BY <1>2, <1>3, <3>1 DEF Typed, Room
    <2> QED BY <1>2, <1>3, <1>7, <1>9, <1>10, <1>11, <2>1 DEF Typed
  <1>13. \A s \in Shaders : /\ Deleting(s)' <=> Deleting(s)
                            /\ Attaching(s)' = Attaching(s) /\ Holders(s)' = Holders(s)
    BY <1>2 DEF Deleting, Attaching, Holders
  <1>14. Counted'
    BY <1>2, <1>13, CountedSame
  <1>15. Bounded'
    BY <1>2, <1>13 DEF Bounded
  <1>16. NamesKnown'
    <2> SUFFICES ASSUME NEW s \in Shaders, s \in alive' \/ Holders(s)' # {}
                 PROVE  /\ hSource'[s] \subseteq external'[s]
                        /\ \A u \in Threads : \A i \in DOMAIN out'[u] :
                             out'[u][i].op = "source" /\ out'[u][i].shader = s
                               => out'[u][i].names \subseteq external'[s]
      BY DEF NamesKnown
    <2>1. /\ hSource[s] \subseteq external[s] /\ external' = external
          /\ \A u \in Threads : \A i \in DOMAIN out[u] :
               out[u][i].op = "source" /\ out[u][i].shader = s => out[u][i].names \subseteq external[s]
      BY <1>2, <1>13 DEF NamesKnown
    <2>2. hSource'[s] \subseteq external'[s]
      BY <1>3, <1>4, <1>9, <2>1
    <2> QED BY <1>8, <2>1, <2>2
  <1>17. Recording'
    <2>1. \A p \in Programs : (Linking(p)' <=> Linking(p)) /\ (Linking(p) => p \in alive)
      BY <1>2 DEF Linking, GroupProtocol, CallsNamed, Names, Needs
    <2>2. ASSUME NEW p \in Programs, p \in alive', hLinked'[p] # <<>>
          PROVE  /\ Len(indexes'[p]) <= Len(hLinked'[p])
                 /\ ~Linking(p)' => Len(indexes'[p]) = Len(hLinked'[p])
                 /\ \A i \in DOMAIN indexes'[p] : Mirrors(p, i)'
      <3>1. p \in alive /\ hLinked'[p] = hLinked[p] /\ hExternal'[p] = hExternal[p]
            /\ indexes' = indexes
        BY <1>2, <1>10, <2>2
      <3>2. \A i : Mirrors(p, i)' <=> Mirrors(p, i)
        BY <3>1 DEF Mirrors
      <3> QED BY <2>1, <2>2, <3>1, <3>2 DEF Recording
    <2>3. ASSUME NEW p \in Programs, Linking(p)'
          PROVE  \A n \in hExternal'[p] : \E s \in attached'[p] : n \in external'[s]
      BY <1>2, <1>10, <2>1, <2>3 DEF Recording
    <2> QED BY <2>2, <2>3 DEF Recording
  <1> QED BY <1>6, <1>12, <1>14, <1>15, <1>16, <1>17

-----------------------------------------------------------------------------
(* The theorems *)

\* Nothing exists before the first call.
LEMMA InitIInv == Init => IInv
  <1> SUFFICES ASSUME Init PROVE IInv
    OBVIOUS
  <1> USE DEF Init
  <1>1. Idle \in Calls /\ Idle.op = "none" /\ Shape(Idle)
    BY IdleFacts
  <1>2. \A t \in Threads : call[t] = Idle /\ out[t] = <<>>
    OBVIOUS
  <1>3. \A t \in Threads : DOMAIN out[t] = {} /\ Done(t) = {} /\ Len(out[t]) = 0
    BY <1>2 DEF Done
  <1>4. Typed
    <2>1. \A t \in Threads : Room(t)
      BY <1>1, <1>2, <1>3, GroupBoundsAssumption DEF Room
    <2>2. call \in [Threads -> Calls] /\ out \in [Threads -> Seq(Calls)]
      BY <1>1
    <2> QED BY <2>1, <2>2 DEF Typed
  <1>5. GroupProtocol
    <2>1. CallsNamed
      BY <1>1, <1>2 DEF CallsNamed, Sent
    <2>2. PacketsNamed /\ DeletionLast /\ DetachesKept
      BY <1>3 DEF PacketsNamed, DeletionLast, DetachesKept
    <2>3. OneThread
      <3>1. \A t \in Threads, p \in Programs : ~Concerns(t, p)
        BY <1>2, <1>3, IdleFacts DEF Concerns
      <3> QED BY <3>1 DEF OneThread
    <2>4. AliveKnown
      BY DEF AliveKnown
    <2> QED BY <2>1, <2>2, <2>3, <2>4 DEF GroupProtocol
  <1>6. Synchronised
    <2>1. \A p, s : ~AttachComes(p, s)
      BY <1>3 DEF AttachComes
    <2> QED BY <2>1 DEF Synchronised
  <1>7. \A s \in Shaders : Holders(s) = {} /\ Attaching(s) = {} /\ ~Deleting(s)
    BY <1>1, <1>2 DEF Holders, Attaching, Deleting
  <1>8. Counted
    <2>1. ASSUME NEW s \in Shaders PROVE refcount[s] >= Cardinality(Holders(s)) + Own(s)
      <3>1. Cardinality(Holders(s)) = 0
        BY <1>7, FS_EmptySet
      <3>2. Own(s) = 0
        BY <1>7 DEF Own
      <3> QED BY <3>1, <3>2
    <2> QED BY <2>1 DEF Counted
  <1>9. Bounded
    <2>1. \A s \in Shaders : Cardinality(Attaching(s)) = 0
      BY <1>7, FS_EmptySet
    <2> QED BY <2>1, GroupBoundsAssumption DEF Bounded
  <1>10. NamesKnown
    BY <1>3 DEF NamesKnown
  <1>11. Recording
    <2>1. \A p \in Programs : ~Linking(p)
      BY <1>1, <1>2 DEF Linking
    <2> QED BY <2>1 DEF Recording
  <1> QED BY <1>4, <1>5, <1>6, <1>8, <1>9, <1>10, <1>11 DEF IInv

\* Every step of an application's call and of the host keeps the invariant.
LEMMA NextIInv == IInv /\ [Next]_vars => IInv'
  <1> SUFFICES ASSUME IInv, [Next]_vars PROVE IInv'
    OBVIOUS
  <1>1. CASE UNCHANGED vars
    <2>1. UNCHANGED <<alive, call, out, m_programs, attached, indexes, locShiftWAR, refcount,
                      external, host, given>>
      BY <1>1 DEF vars, group
    <2>2. /\ GroupProtocol' /\ Synchronised' /\ Counted' /\ Bounded' /\ NamesKnown'
          /\ \A u \in Threads : Room(u)'
          /\ \A q \in Programs : Linking(q)' <=> Linking(q)
          /\ UNCHANGED <<hShaders, hFlagged, hSource, hPrograms, hAttached, hLinked, hExternal>>
      BY <2>1, TableFrame
    <2>3. Typed'
      BY <2>1, <2>2 DEF IInv, Typed
    <2>4. Recording'
      BY <2>1, <2>2, RecordingSame DEF IInv
    <2> QED BY <2>2, <2>3, <2>4 DEF IInv
  <1>2. CASE Next
    <2>1. PICK t \in Threads :
             \/ CreateShader(t) \/ CreateProgram(t)
             \/ \E s \in Shaders : \/ DeleteShader(t, s)
                                   \/ \E names \in SUBSET Samplers : ShaderSource(t, s, names)
             \/ \E p \in Programs : DeleteProgram(t, p) \/ LinkProgram(t, p)
             \/ \E p \in Programs, s \in Shaders : Attach(t, p, s) \/ Detach(t, p, s)
             \/ \E p \in Programs : \E i \in DOMAIN hLinked[p] :
                    \E k \in 0 .. hLinked[p][i].size - 1 : GetUniformLocation(t, p, i, k)
             \/ ShaderString(t) \/ UnrefShaderData(t) \/ DeleteProgramData(t)
             \/ AttachShader(t) \/ DetachShader(t)
             \/ SetProgramIndexInfo(t) \/ SetupLocationShiftWAR(t)
             \/ HostExecute(t)
      BY <1>2 DEF Next
    <2>2. CASE \E s \in Shaders : DeleteShader(t, s)
      BY <2>2, DeleteShaderStep
    <2>3. CASE \E s \in Shaders : \E names \in SUBSET Samplers : ShaderSource(t, s, names)
      BY <2>3, ShaderSourceStep
    <2>4. CASE \E p \in Programs : DeleteProgram(t, p) \/ LinkProgram(t, p)
      BY <2>4, DeleteProgramStep, LinkProgramStep
    <2>5. CASE \E p \in Programs, s \in Shaders : Attach(t, p, s) \/ Detach(t, p, s)
      BY <2>5, AttachDetachStep
    <2>6. CASE \E p \in Programs : \E i \in DOMAIN hLinked[p] :
                  \E k \in 0 .. hLinked[p][i].size - 1 : GetUniformLocation(t, p, i, k)
      BY <2>6, GetUniformLocationStep
    <2>7. CASE CreateShader(t) \/ CreateProgram(t)
      BY <2>7, CreateShaderStep, CreateProgramStep
    <2>8. CASE ShaderString(t) \/ UnrefShaderData(t) \/ DeleteProgramData(t)
      BY <2>8, ShaderStringStep, UnrefShaderDataStep, DeleteProgramDataStep
    <2>9. CASE AttachShader(t) \/ DetachShader(t)
      BY <2>9, AttachShaderStep, DetachShaderStep
    <2>10. CASE SetProgramIndexInfo(t) \/ SetupLocationShiftWAR(t)
      BY <2>10, SetProgramIndexInfoStep, SetupLocationShiftWARStep
    <2>11. CASE HostExecute(t)
      BY <2>11, HostExecuteStep
    <2> QED BY <2>1, <2>2, <2>3, <2>4, <2>5, <2>6, <2>7, <2>8, <2>9, <2>10, <2>11
  <1> QED BY <1>1, <1>2

\* The guest's records and the host's objects stay as related as IInv says.
THEOREM Invariance == Spec => []IInv
  <1>1. Init => IInv
    BY InitIInv
  <1>2. IInv /\ [Next]_vars => IInv'
    BY NextIInv
  <1> QED BY <1>1, <1>2, PTL DEF Spec

\* The records of GLSharedGroup and of the host have their types, and the counts and the
\* packets under way their bounds.
THEOREM TypeCorrectness == Spec => []GroupTypeOK
  <1>1. IInv => GroupTypeOK
    <2> SUFFICES ASSUME IInv PROVE GroupTypeOK
      OBVIOUS
    <2>1. Typed /\ Bounded
      BY DEF IInv
    <2>2. ASSUME NEW t \in Threads PROVE Len(out[t]) <= MaxOut /\ Range(out[t]) \subseteq Calls
      BY <2>1 DEF Typed, Room, Range
    <2>3. ASSUME NEW p \in Programs PROVE Range(indexes[p]) \subseteq IndexInfo
      BY <2>1 DEF Typed, Range
    <2>4. ASSUME NEW s \in Shaders PROVE refcount[s] \in 0 .. MaxRefs
      <3>1. /\ refcount[s] \in Nat /\ refcount[s] + Cardinality(Attaching(s)) <= MaxRefs
            /\ Cardinality(Attaching(s)) \in Nat
        BY <2>1, FiniteCounts DEF Typed, Bounded
      <3> QED BY <3>1, GroupBoundsAssumption
    <2>5. refcount \in [Shaders -> 0 .. MaxRefs]
      BY <2>1, <2>4 DEF Typed
    <2>6. hAttached \in [Programs -> SUBSET hShaders]
      BY <2>1 DEF Typed
    <2>7. hLinked \in [Programs -> Layouts \cup {<<>>}]
      BY <2>1 DEF Typed
    <2>8. \A p \in Programs : given[p] \subseteq Nat \X Nat
      BY <2>1 DEF Typed
    <2> QED BY <2>1, <2>2, <2>3, <2>5, <2>6, <2>7, <2>8 DEF GroupTypeOK, Typed
  <1> QED BY <1>1, Invariance, PTL

\* ShaderDataKept: whatever the threads attach, detach, delete and create under reused
\* names, unrefShaderData frees no ShaderData that a living shader or a program needs.
THEOREM ShaderDataAlwaysKept == Spec => []ShaderDataKept
  <1>1. IInv => ShaderDataKept
    <2> SUFFICES ASSUME IInv, NEW s \in Shaders,
                        s \in alive \/ \E p \in m_programs : s \in attached[p]
                 PROVE  refcount[s] > 0
      BY DEF ShaderDataKept
    <2>1. Typed /\ Counted
      BY DEF IInv
    <2>2. s \in alive \/ Holders(s) # {}
      BY <2>1 DEF Holders, Typed
    <2>3. refcount[s] \in Nat /\ Own(s) \in {0, 1}
      BY <2>1 DEF Typed, Own
    <2> QED BY <2>1, <2>2, <2>3, HeldIsCounted
  <1> QED BY <1>1, Invariance, PTL

\* SamplersFlagged: glLinkProgram flags every uniform that a shader of the program declared
\* external, although the host took it for an ordinary sampler.
THEOREM SamplersAlwaysFlagged == Spec => []SamplersFlagged
  <1>1. IInv => SamplersFlagged
    <2> SUFFICES ASSUME IInv, NEW p \in Programs, Recorded(p), NEW i \in DOMAIN hLinked[p],
                        hLinked[p][i].name \in hExternal[p]
                 PROVE  indexes[p][i].external
      BY DEF SamplersFlagged
    <2>1. ~Linking(p) /\ p \in alive /\ hLinked[p] # <<>>
      BY DEF Recorded, Linking, Names
    <2>2. Len(indexes[p]) = Len(hLinked[p]) /\ \A j \in DOMAIN indexes[p] : Mirrors(p, j)
      BY <2>1 DEF IInv, Recording
    <2>3. i \in DOMAIN indexes[p]
      <3>1. indexes[p] \in Seq(IndexInfo) /\ hLinked[p] \in Seq(Uniform)
        BY DEF IInv, Typed
      <3> QED BY <2>2, <3>1
    <2> QED BY <2>2, <2>3 DEF Mirrors
  <1> QED BY <1>1, Invariance, PTL

-----------------------------------------------------------------------------
(* What the application holds: locations *)

\* the guest's locations of a uniform come after those of the ones before it
Ordered(table) ==
    \A i, j \in DOMAIN table : i < j => table[i].appBase + table[i].size <= table[j].appBase

\* loc was given for element k of uniform i
Leads(loc, table, layout) ==
    \E i \in DOMAIN table : \E k \in Nat :
        /\ i \in DOMAIN layout /\ k < table[i].size
        /\ loc = <<table[i].appBase + k, table[i].base + k * layout[i].stride>>
        /\ k > 0 => table[i].hostLocsPerElement = layout[i].stride

\* what the application holds was given since the last link, with the same table
LocationsHeld(p) ==
    /\ Ordered(indexes[p])
    /\ p \notin alive \/ Linking(p) => given[p] = {}
    /\ \A loc \in given[p] :
          IF locShiftWAR[p] THEN Leads(loc, indexes[p], hLinked[p]) ELSE loc[1] = loc[2]

LocInv == \A p \in Programs : LocationsHeld(p)

\* a step leaves p, or no location of it is held after it
LocSame(p) ==
    /\ indexes'[p] = indexes[p] /\ locShiftWAR'[p] = locShiftWAR[p] /\ hLinked'[p] = hLinked[p]
    /\ given'[p] = given[p] /\ (p \in alive => p \in alive') /\ (Linking(p)' => Linking(p))
LocNone(p) == given'[p] = {} /\ Ordered(indexes'[p])

\* The elements of an array are its stride apart.
LEMMA StrideOf ==
  ASSUME NEW k \in Nat, k > 0, NEW s \in Nat
  PROVE  (k * s) \div k = s
  OBVIOUS

\* Such a step keeps the locations in order.
LEMMA LocStep ==
  ASSUME NEW p \in Programs, LocationsHeld(p), LocSame(p) \/ LocNone(p)
  PROVE  LocationsHeld(p)'
  <1>1. CASE LocSame(p)
    BY <1>1 DEF LocSame, LocationsHeld
  <1>2. CASE LocNone(p)
    BY <1>2 DEF LocNone, LocationsHeld
  <1> QED BY <1>1, <1>2

\* No link begins with a call of another kind.
LEMMA NoLinkBegins ==
  ASSUME Typed, NEW t \in Threads, NEW c \in Calls, c.op # "link",
         call' = call \/ call' = [call EXCEPT ![t] = c]
  PROVE  \A p \in Programs : Linking(p)' => Linking(p)
  <1>1. CASE call' = call
    BY <1>1 DEF Linking
  <1>2. CASE call' = [call EXCEPT ![t] = c]
    <2>1. call'[t] = c /\ \A u \in Threads \ {t} : call'[u] = call[u]
      BY <1>2, CallEffect
    <2> QED BY <2>1 DEF Linking
  <1> QED BY <1>1, <1>2

\* A step that has nothing to do with locations.
LEMMA LocFrame ==
  ASSUME Typed, NEW t \in Threads, NEW c \in Calls, c.op # "link",
         call' = call \/ call' = [call EXCEPT ![t] = c],
         UNCHANGED <<indexes, locShiftWAR, hLinked, given>>,
         \A p \in Programs : p \in alive => p \in alive'
  PROVE  \A p \in Programs : LocSame(p)
  BY NoLinkBegins DEF LocSame

\* What the calls about shaders, and about attaching them, do.
LEMMA ShaderCalls ==
  ASSUME IInv, NEW t \in Threads,
         \/ CreateShader(t) \/ ShaderString(t) \/ UnrefShaderData(t)
         \/ AttachShader(t) \/ DetachShader(t)
         \/ \E s \in Shaders : \/ DeleteShader(t, s)
                               \/ \E names \in SUBSET Samplers : ShaderSource(t, s, names)
         \/ \E p \in Programs, s \in Shaders : Attach(t, p, s) \/ Detach(t, p, s)
  PROVE  \A p \in Programs : LocSame(p)
  <1>0. Typed /\ Idle \in Calls /\ Idle.op # "link"
    BY IdleFacts DEF IInv
  <1>1. ASSUME NEW op \in Ops, NEW p \in Programs \cup {NoObject}, NEW s \in Shaders \cup {NoObject},
               NEW names \in SUBSET Samplers
        PROVE  Call(op, p, s, names) \in Calls /\ Call(op, p, s, names).op = op
    BY DEF Call, Calls
  <1>2. CASE CreateShader(t)
    <2>1. UNCHANGED <<call, indexes, locShiftWAR, hLinked, given>> /\ alive \subseteq alive'
      BY <1>2 DEF CreateShader
    <2> QED BY <1>0, <2>1, LocFrame
  <1>3. CASE ShaderString(t) \/ UnrefShaderData(t) \/ AttachShader(t) \/ DetachShader(t)
    <2>1. UNCHANGED <<alive, indexes, locShiftWAR, hLinked, given>> /\ call' = [call EXCEPT ![t] = Idle]
      BY <1>3 DEF ShaderString, UnrefShaderData, AttachShader, DetachShader, Return, host
    <2> QED BY <1>0, <2>1, LocFrame
  <1>4. ASSUME NEW s \in Shaders, DeleteShader(t, s) PROVE \A p \in Programs : LocSame(p)
    <2>1. PICK c \in Calls : c = Call("deleteShader", NoObject, s, {}) /\ c.op = "deleteShader"
      BY <1>1 DEF Ops
    <2>2. /\ UNCHANGED <<indexes, locShiftWAR, hLinked, given>> /\ alive' = alive \ {s}
          /\ call' = [call EXCEPT ![t] = c]
      BY <1>4, <2>1 DEF DeleteShader, Send, group, host
    <2>3. \A p \in Programs : p \in alive => p \in alive'
      BY <2>2, Distinct
    <2> QED BY <1>0, <2>1, <2>2, <2>3, LocFrame
  <1>5. ASSUME NEW s \in Shaders, NEW names \in SUBSET Samplers, ShaderSource(t, s, names)
        PROVE  \A p \in Programs : LocSame(p)
    <2>1. PICK c \in Calls : c = Call("source", NoObject, s, names) /\ c.op = "source"
      BY <1>1 DEF Ops
    <2>2. UNCHANGED <<alive, indexes, locShiftWAR, hLinked, given>> /\ call' = [call EXCEPT ![t] = c]
      BY <1>5, <2>1 DEF ShaderSource, group, host
    <2> QED BY <1>0, <2>1, <2>2, LocFrame
  <1>6. ASSUME NEW p \in Programs, NEW s \in Shaders, NEW op \in {"attach", "detach"},
               Send(t, Call(op, p, s, {})), UNCHANGED <<alive, group, host, given>>
        PROVE  \A q \in Programs : LocSame(q)
    <2>1. PICK c \in Calls : c = Call(op, p, s, {}) /\ c.op = op
      BY <1>1 DEF Ops
    <2>2. UNCHANGED <<alive, indexes, locShiftWAR, hLinked, given>> /\ call' = [call EXCEPT ![t] = c]
      BY <1>6, <2>1 DEF Send, group, host
    <2> QED BY <1>0, <2>1, <2>2, LocFrame
  <1>7. CASE \E p \in Programs, s \in Shaders : Attach(t, p, s) \/ Detach(t, p, s)
    BY <1>6, <1>7 DEF Attach, Detach
  <1> QED BY <1>2, <1>3, <1>4, <1>5, <1>7

\* An empty table is ordered.
LEMMA EmptyOrdered == Ordered(<<>>)
  BY DEF Ordered

\* A program is created or deleted, by the application, in the group or at the host: the
\* application holds no location of it.
LEMMA ProgramCalls ==
  ASSUME IInv, LocInv, NEW t \in Threads,
         CreateProgram(t) \/ (\E p \in Programs : DeleteProgram(t, p)) \/ DeleteProgramData(t)
  PROVE  \A p \in Programs : LocSame(p) \/ LocNone(p)
  <1>0. Typed /\ GroupProtocol /\ Idle \in Calls /\ Idle.op # "link"
    BY IdleFacts DEF IInv
  <1>1. CASE CreateProgram(t)
    <2>1. PICK p \in Programs \ hPrograms :
             /\ alive' = alive \cup {p} /\ indexes' = [indexes EXCEPT ![p] = <<>>]
             /\ locShiftWAR' = [locShiftWAR EXCEPT ![p] = FALSE]
      BY <1>1 DEF CreateProgram
    <2>2. call' = call /\ given' = given /\ hLinked' = hLinked
      BY <1>1 DEF CreateProgram
    <2>3. p \notin alive
      BY <1>0, <2>1 DEF GroupProtocol, AliveKnown
    <2>4. given'[p] = {}
      BY <2>1, <2>2, <2>3 DEF LocInv, LocationsHeld
    <2>5. indexes'[p] = <<>>
      BY <1>0, <2>1 DEF Typed
    <2>6. LocNone(p)
      BY <2>4, <2>5, EmptyOrdered DEF LocNone
    <2>7. ASSUME NEW q \in Programs, q # p PROVE LocSame(q)
      <3>1. indexes'[q] = indexes[q] /\ locShiftWAR'[q] = locShiftWAR[q]
        BY <1>0, <2>1, <2>7 DEF Typed
      <3> QED BY <2>1, <2>2, <3>1 DEF LocSame, Linking
    <2> QED BY <2>6, <2>7
  <1>2. ASSUME NEW p \in Programs, DeleteProgram(t, p) PROVE \A q \in Programs : LocSame(q) \/ LocNone(q)
    <2>1. PICK c : c = Call("deleteProgram", p, NoObject, {})
      OBVIOUS
    <2>2. c \in Calls /\ c.op # "link"
      BY <2>1 DEF Call, Calls, Ops
    <2>3. /\ alive' = alive \ {p} /\ given' = [given EXCEPT ![p] = {}] /\ call' = [call EXCEPT ![t] = c]
          /\ UNCHANGED <<indexes, locShiftWAR, hLinked>>
      BY <1>2, <2>1 DEF DeleteProgram, Send, group, host
    <2>4. \A q \in Programs : Linking(q)' => Linking(q)
      BY <1>0, <2>2, <2>3, NoLinkBegins
    <2>5. given'[p] = {} /\ \A q \in Programs \ {p} : given'[q] = given[q]
      BY <1>0, <2>3 DEF Typed
    <2>6. LocNone(p)
      BY <2>3, <2>5 DEF LocNone, LocInv, LocationsHeld
    <2>7. ASSUME NEW q \in Programs, q # p PROVE LocSame(q)
      BY <2>3, <2>4, <2>5, <2>7 DEF LocSame
    <2> QED BY <2>6, <2>7
  <1>3. CASE DeleteProgramData(t)
    <2>1. PICK p : p = call[t].program
      OBVIOUS
    <2>2. /\ call[t].op = "deleteProgram" /\ indexes' = [indexes EXCEPT ![p] = <<>>]
          /\ locShiftWAR' = [locShiftWAR EXCEPT ![p] = FALSE] /\ call' = [call EXCEPT ![t] = Idle]
          /\ UNCHANGED <<alive, given, hLinked>>
      BY <1>3, <2>1 DEF DeleteProgramData, Return, host
    <2>3. p \in Programs
      BY <1>0, <2>1, <2>2 DEF GroupProtocol, CallsNamed, Shape
    <2>4. p \notin alive
      <3>1. out[t] # <<>> /\ out[t][Len(out[t])] = call[t] /\ out[t] \in Seq(Calls)
        BY <1>0, <2>2 DEF GroupProtocol, CallsNamed, Sent, Typed
      <3>2. Len(out[t]) \in DOMAIN out[t]
        BY <3>1
      <3>3. Deletes(out[t][Len(out[t])], p)
        BY <2>1, <2>2, <3>1 DEF Deletes
      <3> QED BY <1>0, <2>3, <3>2, <3>3 DEF GroupProtocol, PacketsNamed
    <2>5. LocNone(p)
      <3>1. given[p] = {}
        BY <2>3, <2>4 DEF LocInv, LocationsHeld
      <3>2. indexes'[p] = <<>>
        BY <1>0, <2>2, <2>3 DEF Typed
      <3> QED BY <2>2, <3>1, <3>2, EmptyOrdered DEF LocNone
    <2>6. \A q \in Programs : Linking(q)' => Linking(q)
      BY <1>0, <2>2, NoLinkBegins
    <2>7. ASSUME NEW q \in Programs, q # p PROVE LocSame(q)
      <3>1. indexes'[q] = indexes[q] /\ locShiftWAR'[q] = locShiftWAR[q]
        BY <1>0, <2>2, <2>7 DEF Typed
      <3> QED BY <2>2, <2>6, <3>1 DEF LocSame
    <2> QED BY <2>5, <2>7
  <1> QED BY <1>1, <1>2, <1>3

\* A link begins with an empty table, and takes all locations away.
LEMMA LinkCall ==
  ASSUME IInv, LocInv, NEW t \in Threads, NEW p \in Programs, LinkProgram(t, p)
  PROVE  \A q \in Programs : LocSame(q) \/ LocNone(q)
  <1>0. Typed
    BY DEF IInv
  <1>1. /\ given' = [given EXCEPT ![p] = {}] /\ alive' = alive
        /\ indexes' = indexes \/ indexes' = [indexes EXCEPT ![p] = <<>>]
        /\ locShiftWAR' = locShiftWAR \/ locShiftWAR' = [locShiftWAR EXCEPT ![p] = FALSE]
        /\ \E l : hLinked' = [hLinked EXCEPT ![p] = l]
        /\ call' = call \/ call' = [call EXCEPT ![t] = Call("link", p, NoObject, {})]
    BY DEF LinkProgram
  <1>2. given'[p] = {} /\ \A q \in Programs \ {p} : given'[q] = given[q]
    BY <1>0, <1>1 DEF Typed
  <1>3. (indexes'[p] = indexes[p] \/ indexes'[p] = <<>>) /\ \A q \in Programs \ {p} : indexes'[q] = indexes[q]
    BY <1>0, <1>1 DEF Typed
  <1>4. \A q \in Programs \ {p} : locShiftWAR'[q] = locShiftWAR[q] /\ hLinked'[q] = hLinked[q]
    BY <1>0, <1>1 DEF Typed
  <1>5. LocNone(p)
    BY <1>2, <1>3, EmptyOrdered DEF LocNone, LocInv, LocationsHeld
  <1>6. ASSUME NEW q \in Programs, q # p PROVE Linking(q)' => Linking(q)
    <2>1. PICK c : c = Call("link", p, NoObject, {})
      OBVIOUS
    <2>2. c \in Calls /\ c.program = p
      BY <2>1 DEF Call, Calls, Ops
    <2>3. CASE call' = call
      BY <2>3 DEF Linking
    <2>4. CASE call' = [call EXCEPT ![t] = c]
      <3>1. call'[t] = c /\ \A u \in Threads \ {t} : call'[u] = call[u]
        BY <1>0, <2>2, <2>4, CallEffect
      <3> QED BY <1>6, <2>2, <3>1 DEF Linking
    <2> QED BY <1>1, <2>1, <2>3, <2>4
  <1>7. ASSUME NEW q \in Programs, q # p PROVE LocSame(q)
    BY <1>1, <1>2, <1>3, <1>4, <1>6, <1>7 DEF LocSame
  <1> QED BY <1>5, <1>7

\* An entry behind the last one keeps the order.
LEMMA OrderedMore ==
  ASSUME NEW table \in Seq(IndexInfo), Ordered(table), NEW e \in IndexInfo,
         e.appBase = IF Len(table) > 0 THEN table[Len(table)].appBase + table[Len(table)].size ELSE 0
  PROVE  Ordered(Append(table, e))
  <1>1. PICK n, z : n = Len(table) /\ z = Append(table, e)
    OBVIOUS
  <1>2. /\ n \in Nat /\ DOMAIN table = 1 .. n /\ DOMAIN z = 1 .. n + 1
        /\ z[n + 1] = e /\ \A i \in 1 .. n : z[i] = table[i]
    BY <1>1
  <1>3. \A i \in 1 .. n : table[i].appBase \in Nat /\ table[i].size \in Nat
    <2>1. \A i \in 1 .. n : table[i] \in IndexInfo
      BY <1>2
    <2> QED BY <2>1 DEF IndexInfo
  <1>4. ASSUME NEW i \in DOMAIN z, NEW j \in DOMAIN z, i < j
        PROVE  z[i].appBase + z[i].size <= z[j].appBase
    <2>1. CASE j \in 1 .. n
      BY <1>2, <1>4, <2>1 DEF Ordered
    <2>2. CASE j = n + 1
      <3>1. i \in 1 .. n /\ n > 0 /\ n \in 1 .. n
        BY <1>2, <1>4, <2>2
      <3>2. z[j].appBase = table[n].appBase + table[n].size /\ z[i] = table[i]
        BY <1>1, <1>2, <2>2, <3>1
      <3>3. CASE i = n
        <4>1. z[i].appBase + z[i].size = z[j].appBase /\ z[j].appBase \in Nat
          BY <1>3, <3>1, <3>2, <3>3
        <4> QED BY <4>1
      <3>4. CASE i # n
        <4>1. i < n
          BY <3>1, <3>4
        <4>2. table[i].appBase + table[i].size <= table[n].appBase
          BY <1>2, <3>1, <4>1 DEF Ordered
        <4>3. PICK a \in Nat, b \in Nat, x \in Nat, y \in Nat :
                /\ a = table[i].appBase /\ b = table[i].size
                /\ x = table[n].appBase /\ y = table[n].size
          BY <1>3, <3>1
        <4>4. a + b <= x /\ z[j].appBase = x + y /\ z[i].appBase = a /\ z[i].size = b
          BY <3>2, <4>2, <4>3
        <4> QED BY <4>4
      <3> QED BY <3>3, <3>4
    <2> QED BY <1>2, <2>1, <2>2
  <1> QED BY <1>1, <1>4 DEF Ordered

\* The steps of a link that has begun.
LEMMA LinkSteps ==
  ASSUME IInv, LocInv, NEW t \in Threads, SetProgramIndexInfo(t) \/ SetupLocationShiftWAR(t)
  PROVE  \A q \in Programs : LocSame(q) \/ LocNone(q)
  <1>0. Typed /\ Idle \in Calls /\ Idle.op # "link"
    BY IdleFacts DEF IInv
  <1>1. PICK p : p = call[t].program
    OBVIOUS
  <1>2. p \in Programs /\ Linking(p) /\ given[p] = {} /\ Ordered(indexes[p])
    <2>1. call[t].op = "link"
      BY DEF SetProgramIndexInfo, SetupLocationShiftWAR
    <2>2. p \in Programs /\ Linking(p)
      BY <1>1, <2>1 DEF IInv, GroupProtocol, CallsNamed, Shape, Linking
    <2> QED BY <2>2 DEF LocInv, LocationsHeld
  <1>3. CASE SetProgramIndexInfo(t)
    <2>1. PICK n, e : n = Len(indexes[p]) /\ e = IndexInfoFor(p, hLinked[p][n + 1])
      OBVIOUS
    <2>2. /\ n < Len(hLinked[p]) /\ indexes' = [indexes EXCEPT ![p] = Append(@, e)]
          /\ UNCHANGED <<alive, call, locShiftWAR, given, hLinked>>
      BY <1>1, <1>3, <2>1 DEF SetProgramIndexInfo, host
    <2>3. indexes[p] \in Seq(IndexInfo) /\ hLinked[p] \in Seq(Uniform)
      BY <1>0, <1>2 DEF Typed
    <2>4. hLinked[p][n + 1] \in Uniform
      <3>1. n \in Nat /\ n + 1 \in 1 .. Len(hLinked[p])
        BY <2>1, <2>2, <2>3
      <3> QED BY <2>3, <3>1
    <2>5. e \in IndexInfo
      BY <1>2, <2>1, <2>4, IndexInfoFacts
    <2>6. e.appBase = IF n > 0 THEN indexes[p][n].appBase + indexes[p][n].size ELSE 0
      BY <2>1 DEF IndexInfoFor
    <2>7. indexes'[p] = Append(indexes[p], e) /\ \A q \in Programs \ {p} : indexes'[q] = indexes[q]
      BY <1>0, <1>2, <2>2 DEF Typed
    <2>8. Ordered(indexes'[p])
      BY <1>2, <2>1, <2>3, <2>5, <2>6, <2>7, OrderedMore
    <2>9. LocNone(p)
      BY <1>2, <2>2, <2>8 DEF LocNone
    <2>10. ASSUME NEW q \in Programs, q # p PROVE LocSame(q)
      BY <2>2, <2>7, <2>10 DEF LocSame, Linking
    <2> QED BY <2>9, <2>10
  <1>4. CASE SetupLocationShiftWAR(t)
    <2>1. /\ locShiftWAR' = [locShiftWAR EXCEPT ![p] = NeedsShiftWAR(indexes[p])]
          /\ UNCHANGED <<alive, indexes, given, hLinked>> /\ call' = [call EXCEPT ![t] = Idle]
      BY <1>1, <1>4 DEF SetupLocationShiftWAR, Return, host
    <2>2. \A q \in Programs : Linking(q)' => Linking(q)
      BY <1>0, <2>1, NoLinkBegins
    <2>3. LocNone(p)
      BY <1>2, <2>1 DEF LocNone
    <2>4. ASSUME NEW q \in Programs, q # p PROVE LocSame(q)
      <3>1. locShiftWAR'[q] = locShiftWAR[q]
        BY <1>0, <2>1, <2>4 DEF Typed
      <3> QED BY <2>1, <2>2, <3>1 DEF LocSame
    <2> QED BY <2>3, <2>4
  <1> QED BY <1>3, <1>4

\* The host forgets a program's layout when it deletes it, after the application did.
LEMMA HostForgets ==
  ASSUME IInv, LocInv, NEW t \in Threads, HostExecute(t)
  PROVE  \A q \in Programs : LocSame(q) \/ LocNone(q)
  <1>0. Typed /\ GroupProtocol
    BY DEF IInv
  <1>1. PICK c : c = Head(out[t])
    OBVIOUS
  <1>2. /\ out[t] # <<>> /\ Executable(t) /\ out' = [out EXCEPT ![t] = Tail(@)]
        /\ UNCHANGED <<alive, call, indexes, locShiftWAR, given>>
        /\ IF c.op = "deleteProgram" THEN hLinked' = [hLinked EXCEPT ![c.program] = <<>>]
                                     ELSE hLinked' = hLinked
    BY <1>1 DEF HostExecute, group
  <1>3. 1 \in DOMAIN out[t] /\ c = out[t][1]
    <2>1. Len(out[t]) \in Nat \ {0} /\ DOMAIN out[t] = 1 .. Len(out[t]) /\ c = out[t][1]
      BY <1>0, <1>1, <1>2, TailEffect
    <2> QED BY <2>1
  <1>4. ASSUME NEW q \in Programs, c.op = "deleteProgram", c.program = q PROVE LocNone(q)
    <2>1. Deletes(c, q)
      BY <1>4 DEF Deletes
    <2>2. q \notin alive
      BY <1>0, <1>3, <2>1 DEF GroupProtocol, PacketsNamed
    <2> QED BY <1>2, <2>2 DEF LocNone, LocInv, LocationsHeld
  <1>5. ASSUME NEW q \in Programs, ~(c.op = "deleteProgram" /\ c.program = q) PROVE LocSame(q)
    <2>1. hLinked'[q] = hLinked[q]
      BY <1>0, <1>2, <1>5 DEF Typed
    <2> QED BY <1>2, <2>1 DEF LocSame, Linking
  <1> QED BY <1>4, <1>5

\* An element of an array is within it.
LEMMA ElementWithin ==
  ASSUME NEW k \in Nat, NEW size \in Nat \ {0}, k < size, NEW s \in Nat
  PROVE  k * s \in Nat /\ k * s <= (size - 1) * s
  <1>1. PICK d \in Nat : size - 1 = k + d
    <2>1. size - 1 - k \in Nat /\ size - 1 = k + (size - 1 - k)
      OBVIOUS
    <2> QED BY <2>1
  <1>2. k * s \in Nat /\ d * s \in Nat /\ (k + d) * s = k * s + d * s
    OBVIOUS
  <1> QED BY <1>1, <1>2

\* getIndexForLocation finds the uniform whose element is looked for.
LEMMA IndexOfElement ==
  ASSUME NEW table \in Seq(IndexInfo), NEW layout \in Layouts, Len(table) = Len(layout),
         \A j \in DOMAIN table : table[j].base = layout[j].base,
         NEW i \in DOMAIN layout, NEW k \in Nat, k < layout[i].size,
         NEW hostLoc, hostLoc = layout[i].base + k * layout[i].stride
  PROVE  /\ hostLoc \in Nat /\ i \in DOMAIN table
         /\ IndexForLocation(table, hostLoc) = i
  <1>1. layout \in Seq(Uniform) /\ DOMAIN table = DOMAIN layout
    <2>1. layout \in Seq(Uniform)
      BY LayoutsAssumption
    <2>2. DOMAIN table = 1 .. Len(table) /\ DOMAIN layout = 1 .. Len(layout)
      BY <2>1
    <2> QED BY <2>1, <2>2
  <1>2. \A j \in DOMAIN layout : layout[j].base \in Nat /\ layout[j].size \in Nat \ {0} /\ layout[j].stride \in Nat
    <2>1. \A j \in DOMAIN layout : layout[j] \in Uniform
      BY <1>1
    <2> QED BY <2>1 DEF Uniform
  <1>3. PICK b \in Nat, z \in Nat \ {0}, s \in Nat :
          b = layout[i].base /\ z = layout[i].size /\ s = layout[i].stride
    BY <1>2
  <1>4. k * s \in Nat /\ k * s <= (z - 1) * s /\ (z - 1) * s \in Nat
    <2>1. z - 1 \in Nat /\ z - 1 < z
      OBVIOUS
    <2> QED BY <1>3, <2>1, ElementWithin
  <1>5. hostLoc = b + k * s /\ hostLoc \in Nat /\ b <= hostLoc /\ hostLoc <= b + (z - 1) * s
    <2>1. hostLoc = b + k * s
      BY <1>3
    <2>2. PICK x \in Nat, y \in Nat : x = k * s /\ y = (z - 1) * s
      BY <1>4
    <2>3. hostLoc = b + x /\ x <= y
      BY <1>4, <2>1, <2>2
    <2>4. hostLoc \in Nat /\ b <= hostLoc /\ hostLoc <= b + y
      BY <2>3
    <2> QED BY <2>1, <2>2, <2>4
  <1>6. PICK m : m = IndexForLocation(table, hostLoc)
    OBVIOUS
  <1>7. table[i].base = b /\ i \in DOMAIN table
    BY <1>1, <1>3
  <1>8. /\ m \in DOMAIN table /\ table[m].base <= hostLoc
        /\ \A j \in DOMAIN table : table[j].base <= hostLoc => table[j].base <= table[m].base
    BY <1>5, <1>6, <1>7, IndexFound
  <1>9. b <= table[m].base /\ table[m].base = layout[m].base /\ layout[m].base \in Nat
    BY <1>1, <1>2, <1>5, <1>7, <1>8
  <1>10. (z - 1) * s \in Int /\ layout[m].base <= b + (z - 1) * s
    BY <1>4, <1>5, <1>8, <1>9
  <1>11. layout[m].base \in b .. b + (z - 1) * s
    BY <1>9, <1>10
  <1>12. m = i
    BY <1>1, <1>3, <1>8, <1>11, ApartAssumption
  <1> QED BY <1>5, <1>6, <1>7, <1>12

\* A location leads where it led if only distances between elements were found out.
LEMMA LeadsKept ==
  ASSUME NEW table, NEW new, NEW layout, DOMAIN new = DOMAIN table,
         \A j \in DOMAIN table :
            /\ new[j].appBase = table[j].appBase /\ new[j].base = table[j].base
            /\ new[j].size = table[j].size
            /\ \/ new[j].hostLocsPerElement = table[j].hostLocsPerElement
               \/ new[j].hostLocsPerElement = layout[j].stride
  PROVE  /\ Ordered(table) => Ordered(new)
         /\ \A loc : Leads(loc, table, layout) => Leads(loc, new, layout)
  <1>1. Ordered(table) => Ordered(new)
    BY DEF Ordered
  <1>2. ASSUME NEW loc, Leads(loc, table, layout) PROVE Leads(loc, new, layout)
    <2>1. PICK i \in DOMAIN table : \E k \in Nat :
            /\ i \in DOMAIN layout /\ k < table[i].size
            /\ loc = <<table[i].appBase + k, table[i].base + k * layout[i].stride>>
            /\ k > 0 => table[i].hostLocsPerElement = layout[i].stride
      BY <1>2 DEF Leads
    <2>2. PICK k \in Nat :
            /\ i \in DOMAIN layout /\ k < table[i].size
            /\ loc = <<table[i].appBase + k, table[i].base + k * layout[i].stride>>
            /\ k > 0 => table[i].hostLocsPerElement = layout[i].stride
      BY <2>1
    <2>3. k > 0 => new[i].hostLocsPerElement = layout[i].stride
      BY <2>2
    <2>4. loc = <<new[i].appBase + k, new[i].base + k * layout[i].stride>> /\ k < new[i].size
      BY <2>2
    <2> QED BY <2>2, <2>3, <2>4 DEF Leads
  <1> QED BY <1>1, <1>2

\* s_glGetUniformLocation: the location it gives leads to the element.
LEMMA LocationGiven ==
  ASSUME IInv, LocInv, NEW t \in Threads, NEW p \in Programs, NEW i \in DOMAIN hLinked[p],
         NEW k \in 0 .. hLinked[p][i].size - 1, GetUniformLocation(t, p, i, k)
  PROVE  LocInv'
  <1>0. Typed /\ Recording
    BY DEF IInv
  <1>1. PICK table, layout : table = indexes[p] /\ layout = hLinked[p]
    OBVIOUS
  <1>2. PICK hostLoc : hostLoc = layout[i].base + k * layout[i].stride
    OBVIOUS
  <1>3. PICK war : war = LocationWARHostToApp(table, hostLoc, k)
    OBVIOUS
  <1>4. /\ call[t] = Idle /\ p \in alive /\ Free(t, p)
        /\ IF locShiftWAR[p]
             THEN /\ indexes' = [indexes EXCEPT ![p] = war.table]
                  /\ given' = [given EXCEPT ![p] = @ \cup {<<war.location, hostLoc>>}]
             ELSE /\ UNCHANGED indexes
                  /\ given' = [given EXCEPT ![p] = @ \cup {<<hostLoc, hostLoc>>}]
        /\ UNCHANGED <<alive, call, locShiftWAR, hLinked>>
    BY <1>1, <1>2, <1>3 DEF GetUniformLocation, host
  <1>5. /\ table \in Seq(IndexInfo) /\ layout \in Seq(Uniform) /\ layout \in Layouts \cup {<<>>}
    BY <1>0, <1>1 DEF Typed
  <1>6. layout # <<>> /\ layout \in Layouts /\ i \in DOMAIN layout
    <2>1. i \in DOMAIN layout
      BY <1>1
    <2>2. layout # <<>>
      BY <2>1
    <2> QED BY <1>5, <2>1, <2>2
  <1>7. layout[i].stride \in Nat /\ layout[i].size \in Nat /\ layout[i].base \in Nat
    <2>1. layout[i] \in Uniform
      BY <1>5, <1>6
    <2> QED BY <2>1 DEF Uniform
  <1>8. k \in Nat /\ k < layout[i].size
    <2>1. k \in 0 .. layout[i].size - 1
      BY <1>1
    <2> QED BY <1>7, <2>1
  <1>9. ~Linking(p)
    BY <1>4, IdleFacts, NotLinking
  <1>10. /\ Len(table) = Len(layout)
         /\ \A j \in DOMAIN table : table[j].base = layout[j].base /\ table[j].size = layout[j].size
    <2>1. Len(indexes[p]) = Len(hLinked[p]) /\ \A j \in DOMAIN indexes[p] : Mirrors(p, j)
      BY <1>0, <1>1, <1>4, <1>6, <1>9 DEF Recording
    <2> QED BY <1>1, <2>1 DEF Mirrors
  <1>11. hostLoc \in Nat /\ i \in DOMAIN table /\ IndexForLocation(table, hostLoc) = i
    BY <1>2, <1>5, <1>6, <1>8, <1>10, IndexOfElement
  <1>12. PICK h, entry : /\ h = HostLocsPerElement(table[i], hostLoc, k)
                         /\ entry = [table[i] EXCEPT !.hostLocsPerElement = h]
    OBVIOUS
  <1>13. IF k > 0 THEN h = layout[i].stride ELSE h = table[i].hostLocsPerElement
    <2>1. CASE k > 0
      <3>1. hostLoc - table[i].base = k * layout[i].stride
        <4>1. k * layout[i].stride \in Nat
          BY <1>7, <1>8
        <4> QED BY <1>2, <1>7, <1>10, <1>11, <4>1
      <3>2. h = (k * layout[i].stride) \div k
        BY <1>12, <2>1, <3>1 DEF HostLocsPerElement
      <3> QED BY <1>7, <1>8, <2>1, <3>2, StrideOf
    <2>2. CASE ~(k > 0)
      BY <1>12, <2>2 DEF HostLocsPerElement
    <2> QED BY <2>1, <2>2
  <1>14. /\ entry.appBase = table[i].appBase /\ entry.base = table[i].base /\ entry.size = table[i].size
         /\ entry.hostLocsPerElement = h /\ table[i].appBase \in Nat
    <2>1. table[i] \in IndexInfo
      BY <1>5, <1>11
    <2> QED BY <1>12, <2>1 DEF IndexInfo
  <1>15. war.table = [table EXCEPT ![i] = entry] /\ war.location = table[i].appBase + k
    BY <1>3, <1>11, <1>12 DEF LocationWARHostToApp
  <1>16. PICK new : new = war.table
    OBVIOUS
  <1>17. /\ DOMAIN new = DOMAIN table /\ new[i] = entry
         /\ \A j \in DOMAIN table \ {i} : new[j] = table[j]
    BY <1>5, <1>11, <1>15, <1>16
  <1>18. \A j \in DOMAIN table :
            /\ new[j].appBase = table[j].appBase /\ new[j].base = table[j].base
            /\ new[j].size = table[j].size
            /\ \/ new[j].hostLocsPerElement = table[j].hostLocsPerElement
               \/ new[j].hostLocsPerElement = layout[j].stride
    BY <1>13, <1>14, <1>17
  <1>19. /\ Ordered(table) => Ordered(new)
         /\ \A loc : Leads(loc, table, layout) => Leads(loc, new, layout)
    BY <1>17, <1>18, LeadsKept
  <1>20. Leads(<<war.location, hostLoc>>, new, layout)
    <2>1. <<war.location, hostLoc>> = <<new[i].appBase + k, new[i].base + k * layout[i].stride>>
      BY <1>2, <1>10, <1>11, <1>14, <1>15, <1>17
    <2>2. k > 0 => new[i].hostLocsPerElement = layout[i].stride
      BY <1>13, <1>14, <1>17
    <2>3. k < new[i].size /\ i \in DOMAIN new
      BY <1>8, <1>10, <1>11, <1>14, <1>17
    <2> QED BY <1>6, <1>8, <2>1, <2>2, <2>3 DEF Leads
  <1>21. /\ Ordered(table) /\ \A loc \in given[p] :
               IF locShiftWAR[p] THEN Leads(loc, table, layout) ELSE loc[1] = loc[2]
    BY <1>1 DEF LocInv, LocationsHeld
  <1>22. LocationsHeld(p)'
    <2>1. p \in alive' /\ ~Linking(p)' /\ locShiftWAR'[p] = locShiftWAR[p] /\ hLinked'[p] = layout
      BY <1>1, <1>4, <1>9 DEF Linking
    <2>2. CASE locShiftWAR[p]
      <3>1. indexes'[p] = new /\ given'[p] = given[p] \cup {<<war.location, hostLoc>>}
        BY <1>0, <1>4, <1>16, <2>2 DEF Typed
      <3> QED BY <1>19, <1>20, <1>21, <2>1, <2>2, <3>1 DEF LocationsHeld
    <2>3. CASE ~locShiftWAR[p]
      <3>1. indexes'[p] = table /\ given'[p] = given[p] \cup {<<hostLoc, hostLoc>>}
        BY <1>0, <1>1, <1>4, <2>3 DEF Typed
      <3>2. \A loc \in given'[p] : loc[1] = loc[2]
        BY <1>21, <2>3, <3>1
      <3> QED BY <1>21, <2>1, <2>3, <3>1, <3>2 DEF LocationsHeld
    <2> QED BY <2>2, <2>3
  <1>23. ASSUME NEW q \in Programs, q # p PROVE LocationsHeld(q)'
    <2>1. indexes'[q] = indexes[q] /\ given'[q] = given[q]
      BY <1>0, <1>4, <1>23 DEF Typed
    <2>2. LocSame(q)
      BY <1>4, <2>1 DEF LocSame, Linking
    <2> QED BY <2>2, LocStep DEF LocInv
  <1> QED BY <1>22, <1>23 DEF LocInv

\* A location of the guest's own belongs to one entry of the table.
LEMMA LeadsBack ==
  ASSUME Typed, NEW p \in Programs, locShiftWAR[p], Ordered(indexes[p]),
         NEW loc, Leads(loc, indexes[p], hLinked[p])
  PROVE  LocationWARAppToHost(p, loc[1]) = loc[2]
  <1>1. PICK table : table = indexes[p]
    OBVIOUS
  <1>2. PICK i \in DOMAIN table : \E k \in Nat :
          /\ i \in DOMAIN hLinked[p] /\ k < table[i].size
          /\ loc = <<table[i].appBase + k, table[i].base + k * hLinked[p][i].stride>>
          /\ k > 0 => table[i].hostLocsPerElement = hLinked[p][i].stride
    BY <1>1 DEF Leads
  <1>3. PICK k \in Nat :
          /\ i \in DOMAIN hLinked[p] /\ k < table[i].size
          /\ loc = <<table[i].appBase + k, table[i].base + k * hLinked[p][i].stride>>
          /\ k > 0 => table[i].hostLocsPerElement = hLinked[p][i].stride
    BY <1>2
  <1>4. /\ table \in Seq(IndexInfo) /\ Ordered(table) /\ hLinked[p] \in Seq(Uniform)
    BY <1>1 DEF Typed
  <1>5. \A j \in DOMAIN table : /\ j \in Nat /\ table[j].appBase \in Nat /\ table[j].size \in Nat
                                /\ table[j].base \in Nat /\ table[j].hostLocsPerElement \in Nat
    <2>1. \A j \in DOMAIN table : table[j] \in IndexInfo /\ j \in Nat
      BY <1>4
    <2> QED BY <2>1 DEF IndexInfo
  <1>6. PICK appLoc : appLoc = loc[1]
    OBVIOUS
  <1>7. appLoc = table[i].appBase + k /\ loc[2] = table[i].base + k * hLinked[p][i].stride
    BY <1>3, <1>6
  <1>8. PICK owners : owners = {j \in DOMAIN table : appLoc - table[j].appBase \in 0 .. table[j].size - 1}
    OBVIOUS
  <1>9. appLoc - table[i].appBase = k /\ i \in owners
    BY <1>3, <1>5, <1>7, <1>8
  <1>10. ASSUME NEW j \in owners PROVE j = i
    <2>1. /\ j \in DOMAIN table /\ appLoc - table[j].appBase \in 0 .. table[j].size - 1
      BY <1>8
    <2>2. PICK a \in Nat, b \in Nat, x \in Nat, y \in Nat :
            a = table[i].appBase /\ b = table[i].size /\ x = table[j].appBase /\ y = table[j].size
      BY <1>5, <2>1
    <2>3. appLoc = a + k /\ k < b /\ x <= a + k /\ a + k < x + y
      <3>1. appLoc = a + k /\ k < b /\ appLoc - x \in 0 .. y - 1
        BY <1>3, <1>7, <2>1, <2>2
      <3> QED BY <3>1
    <2>4. (i < j => a + b <= x) /\ (j < i => x + y <= a)
      BY <1>4, <2>1, <2>2 DEF Ordered
    <2>5. ~(i < j) /\ ~(j < i)
      BY <2>3, <2>4
    <2> QED BY <1>5, <2>1, <2>5
  <1>11. (CHOOSE j \in owners : \A n \in owners : j <= n) = i
    <2>1. i <= i
      BY <1>5
    <2>2. \A j \in owners : (\A n \in owners : j <= n) <=> j = i
      BY <1>9, <1>10, <2>1
    <2> QED BY <1>9, <1>10, <2>2
  <1>12. LocationWARAppToHost(p, appLoc) = table[i].base + k * table[i].hostLocsPerElement
    <2>1. owners # {}
      BY <1>9
    <2>2. LocationWARAppToHost(p, appLoc)
            = table[i].base + (appLoc - table[i].appBase) * table[i].hostLocsPerElement
      BY <1>1, <1>8, <1>11, <2>1 DEF LocationWARAppToHost
    <2> QED BY <1>9, <2>2
  <1>13. k * table[i].hostLocsPerElement = k * hLinked[p][i].stride
    <2>1. CASE k > 0
      BY <1>3, <2>1
    <2>2. CASE k = 0
      <3>1. hLinked[p][i] \in Uniform
        BY <1>3, <1>4
      <3>2. hLinked[p][i].stride \in Nat
        BY <3>1 DEF Uniform
      <3> QED BY <1>5, <2>2, <3>2
    <2> QED BY <2>1, <2>2
  <1> QED BY <1>6, <1>7, <1>12, <1>13

\* Every step keeps what the application holds in order.
LEMMA LocNext ==
  ASSUME IInv, LocInv, [Next]_vars
  PROVE  LocInv'
  <1>1. ASSUME \A p \in Programs : LocSame(p) \/ LocNone(p) PROVE LocInv'
    BY <1>1, LocStep DEF LocInv
  <1>2. CASE UNCHANGED vars
    <2>1. UNCHANGED <<alive, call, indexes, locShiftWAR, hLinked, given>>
      BY <1>2 DEF vars, group, host
    <2>2. \A p \in Programs : LocSame(p)
      BY <2>1 DEF LocSame, Linking
    <2> QED BY <1>1, <2>2
  <1>3. ASSUME NEW t \in Threads, NEW p \in Programs, LinkProgram(t, p) PROVE LocInv'
    BY <1>1, <1>3, LinkCall
  <1>4. ASSUME NEW t \in Threads, SetProgramIndexInfo(t) \/ SetupLocationShiftWAR(t) PROVE LocInv'
    BY <1>1, <1>4, LinkSteps
  <1>5. ASSUME NEW t \in Threads, HostExecute(t) PROVE LocInv'
    BY <1>1, <1>5, HostForgets
  <1>6. ASSUME NEW t \in Threads,
               CreateProgram(t) \/ (\E p \in Programs : DeleteProgram(t, p)) \/ DeleteProgramData(t)
        PROVE  LocInv'
    BY <1>1, <1>6, ProgramCalls
  <1>7. ASSUME NEW t \in Threads,
               \/ CreateShader(t) \/ ShaderString(t) \/ UnrefShaderData(t)
               \/ AttachShader(t) \/ DetachShader(t)
               \/ \E s \in Shaders : \/ DeleteShader(t, s)
                                     \/ \E names \in SUBSET Samplers : ShaderSource(t, s, names)
               \/ \E p \in Programs, s \in Shaders : Attach(t, p, s) \/ Detach(t, p, s)
        PROVE  LocInv'
    BY <1>1, <1>7, ShaderCalls
  <1>8. CASE Next
    BY <1>3, <1>4, <1>5, <1>6, <1>7, <1>8, LocationGiven DEF Next
  <1> QED BY <1>2, <1>8

\* LocationsRoundTrip: a location from glGetUniformLocation leads glUniform to its element
\* until the next link, also when the guest numbers locations itself and learns the
\* distance between the elements of an array only later.
THEOREM LocationsAlwaysRoundTrip == Spec => []LocationsRoundTrip
  <1>1. Init => LocInv
    <2> SUFFICES ASSUME Init, NEW p \in Programs PROVE LocationsHeld(p)
      BY DEF LocInv
    <2>1. indexes[p] = <<>> /\ given[p] = {}
      BY DEF Init
    <2> QED BY <2>1, EmptyOrdered DEF LocationsHeld
  <1>2. IInv /\ LocInv /\ [Next]_vars => LocInv'
    BY LocNext
  <1>3. IInv /\ LocInv => LocationsRoundTrip
    <2> SUFFICES ASSUME IInv, LocInv, NEW p \in Programs, NEW loc \in given[p]
                 PROVE  LocationWARAppToHost(p, loc[1]) = loc[2]
      BY DEF LocationsRoundTrip
    <2>1. CASE locShiftWAR[p]
      BY <2>1, LeadsBack DEF IInv, LocInv, LocationsHeld
    <2>2. CASE ~locShiftWAR[p]
      <3>1. loc[1] = loc[2]
        BY <2>2 DEF LocInv, LocationsHeld
      <3>2. LocationWARAppToHost(p, loc[1]) = loc[1]
        BY <2>2 DEF LocationWARAppToHost
      <3> QED BY <3>1, <3>2
    <2> QED BY <2>1, <2>2
  <1> QED BY <1>1, <1>2, <1>3, Invariance, PTL DEF Spec
=============================================================================
