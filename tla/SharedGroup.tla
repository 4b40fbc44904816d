---------------------------- MODULE SharedGroup ----------------------------
(***************************************************************************)
(* What the guest remembers of the host's shaders and programs:            *)
(* GLSharedGroup, shared by the contexts of a share group, and the calls   *)
(* of GL2Encoder that keep it in step with the host.                       *)
(*                                                                         *)
(* A shader's ShaderData holds the names of the samplers declared external *)
(* in its source, which the host gets as ordinary 2D samplers.  It is      *)
(* counted: one reference for the shader, one for every program it is      *)
(* attached to.  glLinkProgram asks the host for every active uniform and  *)
(* records it, with a flag on the external samplers; on hosts that place   *)
(* uniforms 2^16 apart the application gets locations of the guest's own.  *)
(*                                                                         *)
(* A call writes its packet into the thread's write buffer and then takes  *)
(* m_lock for the group; the packet leaves the buffer in a later call of   *)
(* the same thread.  A call with a result waits until the host has         *)
(* executed all that the thread sent: its guard asks for an empty out[t],  *)
(* which HostExecute brings about.  The host's GL is external: it keeps a  *)
(* deleted shader while it is attached, and reuses names.  GLSL sources    *)
(* are reduced to the external samplers they declare, and compiled at      *)
(* once.  Textures, buffers and the values of samplers are left out.       *)
(***************************************************************************)
EXTENDS Integers, Sequences, FiniteSets, Functions

CONSTANTS
    Threads,    \* threads with a context of the share group
    Shaders,    \* names of shaders
    Programs,   \* names of programs
    Samplers,   \* the names of sampler uniforms
    Layouts,    \* what a host may answer for the uniforms of a program
    NoObject,   \* no shader or no program
    MaxRefs,    \* bound on refcount: no attachment beyond it
    MaxOut,     \* bound on the packets of a thread the host has not executed
    MaxGiven    \* bound on the locations the application holds at a time

Uniform == [name : STRING, base : Nat, size : Nat \ {0}, stride : Nat \ {0}]

\* shaders and programs have one name space
ASSUME NamesAssumption ==
    Shaders \cap Programs = {} /\ NoObject \notin Shaders \cup Programs
ASSUME LayoutsAssumption == \A l \in Layouts : l \in Seq(Uniform)
\* no uniform is placed within the array of another, which getIndexForLocation
\* takes for granted
ASSUME ApartAssumption ==
    \A l \in Layouts : \A i, j \in DOMAIN l : i # j =>
        l[j].base \notin l[i].base .. l[i].base + (l[i].size - 1) * l[i].stride
ASSUME GroupBoundsAssumption ==
    /\ MaxRefs \in Nat \ {0} /\ MaxOut \in Nat /\ MaxGiven \in Nat
    /\ IsFiniteSet(Threads) /\ IsFiniteSet(Programs)

Ops == {"source", "attach", "detach", "deleteShader", "deleteProgram", "link",
        "none"}
Calls == [op : Ops, program : Programs \cup {NoObject}, shader : Shaders \cup {NoObject},
          names : SUBSET Samplers]
Call(op, p, s, names) == [op |-> op, program |-> p, shader |-> s, names |-> names]
Idle == Call("none", NoObject, NoObject, {})

VARIABLES
    alive,      \* objects the application has created and not deleted
    call,       \* the call each thread is in the middle of
    out,        \* packets of each thread the host has not executed
    m_programs, \* GLSharedGroup: the programs it has a ProgramData for,
    attached,   \* their m_shaders,
    indexes,    \* their m_Indexes, as far as written
    locShiftWAR,\* and their m_locShiftWAR
    refcount,   \* GLSharedGroup::m_shaders: the count, 0 if there is no entry,
    external,   \* and its samplerExternalNames
    hShaders,   \* the host: shaders it keeps,
    hFlagged,   \* those to go once they are not attached,
    hSource,    \* the external samplers of their sources,
    hPrograms,  \* programs it keeps,
    hAttached,  \* their shaders,
    hLinked,    \* the layout of a linked program, <<>> if not linked,
    hExternal,  \* and which of its uniforms were declared external
    given       \* <<location, host location>> the application got since a link

group == <<m_programs, attached, indexes, locShiftWAR, refcount, external>>
host == <<hShaders, hFlagged, hSource, hPrograms, hAttached, hLinked, hExternal>>
vars == <<alive, call, out, group, host, given>>

IndexInfo == [name : STRING, base : Nat, size : Nat, appBase : Nat,
              hostLocsPerElement : Nat, external : BOOLEAN]

\* The type invariant: the records of the group and of the host, with their bounds.
GroupTypeOK ==
    /\ alive \subseteq Shaders \cup Programs
    /\ call \in [Threads -> Calls]
    /\ \A t \in Threads : Len(out[t]) <= MaxOut /\ Range(out[t]) \subseteq Calls
    /\ m_programs \subseteq Programs
    /\ attached \in [Programs -> SUBSET Shaders]
    /\ \A p \in Programs : Range(indexes[p]) \subseteq IndexInfo
    /\ locShiftWAR \in [Programs -> BOOLEAN]
    /\ refcount \in [Shaders -> 0 .. MaxRefs]
    /\ external \in [Shaders -> SUBSET Samplers]
    /\ hFlagged \subseteq hShaders /\ hShaders \subseteq Shaders
    /\ hSource \in [Shaders -> SUBSET Samplers]
    /\ hPrograms \subseteq Programs
    /\ hAttached \in [Programs -> SUBSET hShaders]
    /\ hLinked \in [Programs -> Layouts \cup {<<>>}]
    /\ hExternal \in [Programs -> SUBSET Samplers]
    /\ \A p \in Programs : given[p] \subseteq Nat \X Nat

Init ==
    /\ alive = {}
    /\ call = [t \in Threads |-> Idle]
    /\ out = [t \in Threads |-> <<>>]
    /\ m_programs = {}
    /\ attached = [p \in Programs |-> {}]
    /\ indexes = [p \in Programs |-> <<>>]
    /\ locShiftWAR = [p \in Programs |-> FALSE]
    /\ refcount = [s \in Shaders |-> 0]
    /\ external = [s \in Shaders |-> {}]
    /\ hShaders = {} /\ hFlagged = {} /\ hPrograms = {}
    /\ hSource = [s \in Shaders |-> {}]
    /\ hAttached = [p \in Programs |-> {}]
    /\ hLinked = [p \in Programs |-> <<>>]
    /\ hExternal = [p \in Programs |-> {}]
    /\ given = [p \in Programs |-> {}]
-----------------------------------------------------------------------------
(* The application.  It names an object only between its creation and its  *)
(* deletion (a deleted shader also to detach it), deletes it, and attaches *)
(* to, links or queries a program, only when no other thread is in the     *)
(* middle of a call about it and the host has executed what other threads  *)
(* sent about it, as GL demands.                                           *)

Names(c, o) == o \in {c.program, c.shader}

Free(t, o) ==
    \A u \in Threads \ {t} :
        ~Names(call[u], o) /\ \A i \in DOMAIN out[u] : ~Names(out[u][i], o)

Ready(t) == call[t] = Idle /\ Len(out[t]) < MaxOut

\* A call that has written its packet and has yet to take m_lock.
Send(t, c) ==
    /\ out' = [out EXCEPT ![t] = Append(@, c)]
    /\ call' = [call EXCEPT ![t] = c]

Return(t) == call' = [call EXCEPT ![t] = Idle]
-----------------------------------------------------------------------------
(* Shaders.                                                                *)

\* mutant: the names go with the first reference, not with the last
UnrefClearsNames(s) ==
    /\ refcount' = [refcount EXCEPT ![s] = @ - 1]
    /\ external' = [external EXCEPT ![s] = {}]

\* refShaderDataLocked and unrefShaderDataLocked.
Ref(s) == refcount' = [refcount EXCEPT ![s] = @ + 1] /\ UNCHANGED external
Unref(s) ==
    /\ refcount' = [refcount EXCEPT ![s] = @ - 1]
    /\ external' = IF refcount[s] = 1 THEN [external EXCEPT ![s] = {}] ELSE external

\* s_glCreateShader: the host's answer is added to the group.  An entry left
\* under the name is replaced.
CreateShader(t) ==
    /\ call[t] = Idle /\ out[t] = <<>>
    /\ \E s \in Shaders \ hShaders :
         /\ alive' = alive \cup {s}
         /\ hShaders' = hShaders \cup {s}
         /\ refcount' = [refcount EXCEPT ![s] = 1]
         /\ external' = [external EXCEPT ![s] = {}]
         /\ hSource' = [hSource EXCEPT ![s] = {}]
    /\ UNCHANGED <<call, out, given, m_programs, attached, indexes, locShiftWAR,
                   hFlagged, hPrograms, hAttached, hLinked, hExternal>>

\* s_glShaderSource gets the pointer to the ShaderData under m_lock...
ShaderSource(t, s, names) ==
    /\ Ready(t) /\ s \in alive /\ refcount[s] > 0
    /\ call' = [call EXCEPT ![t] = Call("source", NoObject, s, names)]
    /\ UNCHANGED <<alive, out, group, host, given>>

\* ...and records the names through it without the lock; the source is sent
\* unless a declaration cannot be understood.
ShaderString(t) ==
    /\ call[t].op = "source"
    /\ LET s == call[t].shader IN
         \/ /\ external' = [external EXCEPT ![s] = @ \cup call[t].names]
            /\ out' = [out EXCEPT ![t] = Append(@, call[t])]
         \/ /\ \E read \in SUBSET call[t].names :
                   external' = [external EXCEPT ![s] = @ \cup read]
            /\ UNCHANGED out
    /\ Return(t)
    /\ UNCHANGED <<alive, m_programs, attached, indexes, locShiftWAR, refcount, host, given>>

\* s_glDeleteShader.
DeleteShader(t, s) ==
    /\ Ready(t) /\ s \in alive /\ Free(t, s)
    /\ alive' = alive \ {s}
    /\ Send(t, Call("deleteShader", NoObject, s, {}))
    /\ UNCHANGED <<group, host, given>>

UnrefShaderData(t) ==
    /\ call[t].op = "deleteShader"
    /\ LET s == call[t].shader IN
         IF refcount[s] > 0 THEN Unref(s) ELSE UNCHANGED <<refcount, external>>
    /\ Return(t)
    /\ UNCHANGED <<alive, out, m_programs, attached, indexes, locShiftWAR, host, given>>
-----------------------------------------------------------------------------
(* Programs.                                                               *)

\* s_glCreateProgram, s_glDeleteProgram.  The ProgramData goes with its list
\* of shaders, whose references are not returned.
CreateProgram(t) ==
    /\ call[t] = Idle /\ out[t] = <<>>
    /\ \E p \in Programs \ hPrograms :
         /\ alive' = alive \cup {p}
         /\ hPrograms' = hPrograms \cup {p}
         /\ m_programs' = m_programs \cup {p}
         /\ attached' = [attached EXCEPT ![p] = {}]
         /\ indexes' = [indexes EXCEPT ![p] = <<>>]
         /\ locShiftWAR' = [locShiftWAR EXCEPT ![p] = FALSE]
    /\ UNCHANGED <<call, out, given, refcount, external,
                   hShaders, hFlagged, hSource, hAttached, hLinked, hExternal>>

DeleteProgram(t, p) ==
    /\ Ready(t) /\ p \in alive /\ Free(t, p)
    /\ alive' = alive \ {p}
    /\ given' = [given EXCEPT ![p] = {}]
    /\ Send(t, Call("deleteProgram", p, NoObject, {}))
    /\ UNCHANGED <<group, host>>

DeleteProgramData(t) ==
    /\ call[t].op = "deleteProgram"
    /\ LET p == call[t].program IN
         /\ m_programs' = m_programs \ {p}
         /\ attached' = [attached EXCEPT ![p] = {}]
         /\ indexes' = [indexes EXCEPT ![p] = <<>>]
         /\ locShiftWAR' = [locShiftWAR EXCEPT ![p] = FALSE]
    /\ Return(t)
    /\ UNCHANGED <<alive, out, refcount, external, host, given>>

\* s_glAttachShader, s_glDetachShader: the packet, then the group's list and
\* the reference that goes with it.
Attach(t, p, s) ==
    /\ Ready(t) /\ p \in alive /\ s \in alive /\ Free(t, p)
    /\ refcount[s] + Cardinality({u \in Threads : call[u].op = "attach"}) < MaxRefs
    /\ Send(t, Call("attach", p, s, {}))
    /\ UNCHANGED <<alive, group, host, given>>

AttachShader(t) ==
    /\ call[t].op = "attach"
    /\ LET p == call[t].program
           s == call[t].shader
       IN  IF p \in m_programs /\ refcount[s] > 0 /\ s \notin attached[p]
             THEN attached' = [attached EXCEPT ![p] = @ \cup {s}] /\ Ref(s)
             ELSE UNCHANGED <<attached, refcount, external>>
    /\ Return(t)
    /\ UNCHANGED <<alive, out, m_programs, indexes, locShiftWAR, host, given>>

\* A shader that was deleted while it was attached can still be detached.
Detach(t, p, s) ==
    /\ Ready(t) /\ p \in alive /\ s \in alive \cup attached[p] /\ Free(t, p)
    /\ Send(t, Call("detach", p, s, {}))
    /\ UNCHANGED <<alive, group, host, given>>

\* mutant: the reference is returned although the shader was not attached
DetachUnchecked(t) ==
    /\ call[t].op = "detach"
    /\ LET p == call[t].program
           s == call[t].shader
       IN  IF p \in m_programs /\ refcount[s] > 0
             THEN attached' = [attached EXCEPT ![p] = @ \ {s}] /\ Unref(s)
             ELSE UNCHANGED <<attached, refcount, external>>
    /\ Return(t)
    /\ UNCHANGED <<alive, out, m_programs, indexes, locShiftWAR, host, given>>

DetachShader(t) ==
    /\ call[t].op = "detach"
    /\ LET p == call[t].program
           s == call[t].shader
       IN  IF p \in m_programs /\ refcount[s] > 0 /\ s \in attached[p]
             THEN attached' = [attached EXCEPT ![p] = @ \ {s}] /\ Unref(s)
             ELSE UNCHANGED <<attached, refcount, external>>
    /\ Return(t)
    /\ UNCHANGED <<alive, out, m_programs, indexes, locShiftWAR, host, given>>

\* ProgramData::setIndexInfo for the next index, with the flag that
\* setProgramIndexInfo sets on a sampler some attached shader declares external.
IndexInfoFor(p, u) ==
    LET n == Len(indexes[p])
        last == indexes[p][n]
    IN  [name |-> u.name, base |-> u.base, size |-> u.size,
         appBase |-> IF n > 0 THEN last.appBase + last.size ELSE 0,
         hostLocsPerElement |-> 1,
         external |-> /\ u.name \in Samplers
                      /\ \E s \in attached[p] : refcount[s] > 0 /\ u.name \in external[s]]

\* s_glLinkProgram.  The host links the program or fails; if it succeeds the
\* table is begun anew (initProgramData), which no other thread looks at.
LinkProgram(t, p) ==
    /\ call[t] = Idle /\ out[t] = <<>> /\ p \in alive /\ Free(t, p)
    /\ given' = [given EXCEPT ![p] = {}]
    /\ \/ /\ \E l \in Layouts : hLinked' = [hLinked EXCEPT ![p] = l]
          /\ hExternal' = [hExternal EXCEPT ![p] = UNION {hSource[s] : s \in hAttached[p]}]
          /\ indexes' = [indexes EXCEPT ![p] = <<>>]
          /\ locShiftWAR' = [locShiftWAR EXCEPT ![p] = FALSE]
          /\ call' = [call EXCEPT ![t] = Call("link", p, NoObject, {})]
       \/ /\ hLinked' = [hLinked EXCEPT ![p] = <<>>]
          /\ hExternal' = [hExternal EXCEPT ![p] = {}]
          /\ UNCHANGED <<call, indexes, locShiftWAR>>
    /\ UNCHANGED <<alive, out, m_programs, attached, refcount, external,
                   hShaders, hFlagged, hSource, hPrograms, hAttached>>

\* One turn of its loop over the uniforms: two calls to the host, then
\* setProgramIndexInfo.
SetProgramIndexInfo(t) ==
    /\ call[t].op = "link"
    /\ LET p == call[t].program
           n == Len(indexes[p])
       IN  /\ n < Len(hLinked[p])
           /\ indexes' = [indexes EXCEPT ![p] =
                             Append(@, IndexInfoFor(p, hLinked[p][n + 1]))]
    /\ UNCHANGED <<alive, call, out, m_programs, attached, locShiftWAR, refcount, external,
                   host, given>>

\* Its end: setupLocationShiftWAR.
NeedsShiftWAR(table) ==
    Len(table) > 1 /\ \A i \in DOMAIN table : table[i].base % 2^16 = 0

SetupLocationShiftWAR(t) ==
    /\ call[t].op = "link"
    /\ LET p == call[t].program IN
         /\ Len(indexes[p]) = Len(hLinked[p])
         /\ locShiftWAR' = [locShiftWAR EXCEPT ![p] = NeedsShiftWAR(indexes[p])]
    /\ Return(t)
    /\ UNCHANGED <<alive, out, m_programs, attached, indexes, refcount, external, host, given>>
-----------------------------------------------------------------------------
(* Locations.                                                              *)

\* getIndexForLocation: the uniform with the nearest base at or below.
IndexForLocation(table, location) ==
    CHOOSE i \in DOMAIN table :
        /\ table[i].base <= location
        /\ \A j \in DOMAIN table : table[j].base <= location => table[j].base <= table[i].base

\* mutant: elements are taken to be one location apart
OneLocPerElement(info, hostLoc, arrIndex) == info.hostLocsPerElement

\* ProgramData::locationWARHostToApp: the table after it, and its result.
HostLocsPerElement(info, hostLoc, arrIndex) ==
    IF arrIndex > 0 THEN (hostLoc - info.base) \div arrIndex ELSE info.hostLocsPerElement

\* mutant: elements are counted from one
HostToAppFromOne(table, hostLoc, arrIndex) ==
    LET i == IndexForLocation(table, hostLoc) IN
      [table |-> [table EXCEPT ![i].hostLocsPerElement =
                     HostLocsPerElement(table[i], hostLoc, arrIndex)],
       location |-> table[i].appBase + arrIndex - 1]

LocationWARHostToApp(table, hostLoc, arrIndex) ==
    LET i == IndexForLocation(table, hostLoc) IN
      [table |-> [table EXCEPT ![i].hostLocsPerElement =
                     HostLocsPerElement(table[i], hostLoc, arrIndex)],
       location |-> table[i].appBase + arrIndex]

\* GLSharedGroup::locationWARAppToHost, which every glUniform call goes through.
LocationWARAppToHost(p, appLoc) ==
    LET table == indexes[p]
        owners == {i \in DOMAIN table : appLoc - table[i].appBase \in 0 .. table[i].size - 1}
        i == CHOOSE i \in owners : \A j \in owners : i <= j
    IN  IF ~locShiftWAR[p] THEN appLoc
        ELSE IF owners = {} THEN -1
        ELSE table[i].base + (appLoc - table[i].appBase) * table[i].hostLocsPerElement

\* s_glGetUniformLocation for element k of uniform i.
GetUniformLocation(t, p, i, k) ==
    /\ call[t] = Idle /\ out[t] = <<>> /\ p \in alive /\ Free(t, p)
    /\ i \in DOMAIN hLinked[p] /\ k < hLinked[p][i].size
    /\ Cardinality(UNION {{q} \X given[q] : q \in Programs}) < MaxGiven
    /\ LET hostLoc == hLinked[p][i].base + k * hLinked[p][i].stride
           war == LocationWARHostToApp(indexes[p], hostLoc, k)
       IN  IF locShiftWAR[p]
             THEN /\ indexes' = [indexes EXCEPT ![p] = war.table]
                  /\ given' = [given EXCEPT ![p] = @ \cup {<<war.location, hostLoc>>}]
             ELSE /\ UNCHANGED indexes
                  /\ given' = [given EXCEPT ![p] = @ \cup {<<hostLoc, hostLoc>>}]
    /\ UNCHANGED <<alive, call, out, m_programs, attached, locShiftWAR, refcount, external, host>>
-----------------------------------------------------------------------------
(* The host executes the packets of a thread in order.  The packet of the  *)
(* call the thread is in is still in the write buffer.                     *)

Executable(t) ==
    call[t].op \in {"attach", "detach", "deleteShader", "deleteProgram"} => Len(out[t]) > 1

\* What is left of the host's shaders when the flagged ones nobody holds go.
Kept(shaders, flagged, att) ==
    {s \in shaders : s \in flagged => \E p \in Programs : s \in att[p]}

HostExecute(t) ==
    /\ out[t] # <<>> /\ Executable(t)
    /\ out' = [out EXCEPT ![t] = Tail(@)]
    /\ LET c == Head(out[t])
           p == c.program
           s == c.shader
           flagged == IF c.op = "deleteShader" THEN hFlagged \cup {s} ELSE hFlagged
           att == CASE c.op = "attach"        -> [hAttached EXCEPT ![p] = @ \cup {s}]
                    [] c.op = "detach"        -> [hAttached EXCEPT ![p] = @ \ {s}]
                    [] c.op = "deleteProgram" -> [hAttached EXCEPT ![p] = {}]
                    [] OTHER                  -> hAttached
       IN  /\ hAttached' = att
           /\ hShaders' = Kept(hShaders, flagged, att)
           /\ hFlagged' = flagged \cap Kept(hShaders, flagged, att)
           /\ hSource' = IF c.op = "source" THEN [hSource EXCEPT ![s] = c.names] ELSE hSource
           /\ IF c.op = "deleteProgram"
                THEN /\ hPrograms' = hPrograms \ {p}
                     /\ hLinked' = [hLinked EXCEPT ![p] = <<>>]
                     /\ hExternal' = [hExternal EXCEPT ![p] = {}]
                ELSE UNCHANGED <<hPrograms, hLinked, hExternal>>
    /\ UNCHANGED <<alive, call, group, given>>
-----------------------------------------------------------------------------
Next ==
    \E t \in Threads :
        \/ CreateShader(t) \/ CreateProgram(t)
        \/ \E s \in Shaders : \/ DeleteShader(t, s)
                              \/ \E names \in SUBSET Samplers : ShaderSource(t, s, names)
        \/ \E p \in Programs : DeleteProgram(t, p) \/ LinkProgram(t, p)
        \/ \E p \in Programs, s \in Shaders : Attach(t, p, s) \/ Detach(t, p, s)
        \/ \E p \in Programs : \E i \in DOMAIN hLinked[p] :
               \E k \in 0 .. hLinked[p][i].size - 1 : GetUniformLocation(t, p, i, k)
        \/ ShaderString(t) \/ UnrefShaderData(t) \/ DeleteProgramData(t)
        \/ AttachShader(t) \/ DetachShader(t)
        \/ SetProgramIndexInfo(t) \/ SetupLocationShiftWAR(t)
        \/ HostExecute(t)

Spec == Init /\ [][Next]_vars
-----------------------------------------------------------------------------
\* A shader the application may still name, or that is attached to a program,
\* has its ShaderData: the reference counts of attachments, detachments and
\* deletions in several threads never free it early, a reused name never costs
\* a new shader its record, and the pointer of s_glShaderSource stays valid.
ShaderDataKept ==
    \A s \in Shaders :
        s \in alive \/ (\E p \in m_programs : s \in attached[p]) => refcount[s] > 0

\* The program is linked and no thread is recording its uniforms.
Recorded(p) ==
    hLinked[p] # <<>> /\ p \in alive /\ \A t \in Threads : ~Names(call[t], p)

\* After glLinkProgram every uniform the host took for a 2D sampler although
\* its shader declares it external is flagged, also if the shader was deleted
\* before the link or changed during it: else the wrong texture is bound.
SamplersFlagged ==
    \A p \in Programs : Recorded(p) =>
        \A i \in DOMAIN hLinked[p] :
            hLinked[p][i].name \in hExternal[p] => indexes[p][i].external

\* A location the application got from glGetUniformLocation since the last
\* link leads glUniform to the element it asked for, whatever was asked since.
LocationsRoundTrip ==
    \A p \in Programs : Recorded(p) =>
        \A loc \in given[p] : LocationWARAppToHost(p, loc[1]) = loc[2]
=============================================================================
