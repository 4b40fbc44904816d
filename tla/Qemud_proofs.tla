---------------------------- MODULE Qemud_proofs ----------------------------
(***************************************************************************)
(* Proofs about Qemud: the looper's array of hooks under the changes its   *)
(* handlers make to it, and the queues it watches; then, as long as the    *)
(* channel numbers have not started again, that qemud and the emulator     *)
(* agree on the channels and that packets are delivered in order.          *)
(***************************************************************************)
EXTENDS Qemud, SequenceTheorems, TLAPS

-----------------------------------------------------------------------------
(* The inductive invariant *)

Alive(c) == fh[c] \in {"active", "closing"}
Of(i) == hooks[i].who
Indices == 3 .. Len(hooks)

\* the serial line and the control socket come first and stay
Shape ==
    /\ Len(hooks) >= 2
    /\ hooks[1].who = Serial /\ hooks[1].fd = 1 /\ ~hooks[1].closing
    /\ hooks[2].who = Control /\ hooks[2].fd = 2 /\ ~hooks[2].closing

\* the other hooks belong to clients, and watch what is queued for them
Owned ==
    \A i \in Indices :
        /\ Of(i) \in Clients /\ hooks[i].fd = fd[Of(i)] /\ fd[Of(i)] > 2
        /\ fh[Of(i)] # "none" /\ (hooks[i].closing <=> fh[Of(i)] = "freed")
        /\ out[Of(i)] # <<>> => "out" \in hooks[i].wanted

\* a client has one hook, and a handler that is alive has it still
OneHook == \A i, j \in Indices : Of(i) = Of(j) => i = j
Hooked == \A c \in Clients : Alive(c) => \E i \in Indices : Of(i) = c

\* open descriptors differ
Separate == \A c, d \in Clients : Alive(c) /\ Alive(d) /\ fd[c] = fd[d] => c = d

\* a descriptor has two hooks only between an accept and the end of the
\* iteration: the serial line was served before, and the new hook has no event
Twins ==
    \A i, j \in Indices : i # j /\ hooks[i].fd = hooks[j].fd =>
        hooks[1].pend = {} /\ (Alive(Of(i)) => hooks[i].pend = {})

SerialLine ==
    /\ sout # <<>> <=> "out" \in hooks[1].wanted
    /\ "in" \in hooks[1].pend => sin # <<>>
    /\ "out" \in hooks[1].pend => sout # <<>>

Tidy ==
    \A c \in Clients :
        /\ fh[c] = "none" => out[c] = <<>>
        /\ obj[c] = "live" => fh[c] = "active"
        /\ reg[c] => chan[c] \in Channels

Structure == Shape /\ Owned /\ OneHook /\ Hooked /\ Separate /\ Twins
IInv == QemudTypeOK /\ Structure /\ SerialLine /\ Tidy

-----------------------------------------------------------------------------
(* Changes of the array *)

\* K is H but for what hook i wants, has pending, or but for its being closed
Frame(H, K) ==
    /\ K \in Seq(Hooks) /\ Len(K) = Len(H)
    /\ \A j \in 1 .. Len(H) : K[j].who = H[j].who /\ K[j].fd = H[j].fd
WantedSet(H, K, i, W) ==
    /\ Frame(H, K) /\ K[i].wanted = W
    /\ \A j \in 1 .. Len(H) :
         /\ K[j].pend = H[j].pend /\ K[j].closing = H[j].closing
         /\ j # i => K[j].wanted = H[j].wanted
PendSet(H, K, i, P) ==
    /\ Frame(H, K) /\ K[i].pend = P
    /\ \A j \in 1 .. Len(H) :
         /\ K[j].wanted = H[j].wanted /\ K[j].closing = H[j].closing
         /\ j # i => K[j].pend = H[j].pend
Deleted(H, K, i) ==
    /\ Frame(H, K) /\ K[i].closing
    /\ \A j \in 1 .. Len(H) :
         /\ K[j].wanted = H[j].wanted /\ K[j].pend = H[j].pend
         /\ j # i => K[j].closing = H[j].closing

\* the changes of the array as the model writes them
SetWanted(H, K, i, W) == K = [H EXCEPT ![i].wanted = W]
SetPend(H, K, i, P) == K = [H EXCEPT ![i].pend = P]
SetClosing(H, K, i) == K = [H EXCEPT ![i].closing = TRUE]

\* One hook of the array is replaced.
Swapped(H, K, i, h) == K = [H EXCEPT ![i] = h]
LEMMA Replaced ==
  ASSUME NEW H \in Seq(Hooks), NEW i \in 1 .. Len(H), NEW h \in Hooks,
         NEW K, Swapped(H, K, i, h)
  PROVE  /\ K \in Seq(Hooks) /\ Len(K) = Len(H) /\ K[i] = h
         /\ \A j \in 1 .. Len(H) : j # i => K[j] = H[j]
  BY ExceptSeq DEF Swapped

\* The fields of a hook, and a hook with one of them changed.
LEMMA HookFields ==
  ASSUME NEW h \in Hooks
  PROVE  /\ h.who \in Clients \cup {Serial, Control} /\ h.fd \in Nat
         /\ h.wanted \subseteq {"in", "out"} /\ h.pend \subseteq {"in", "hup", "out"}
         /\ h.closing \in BOOLEAN
         /\ \A W \in SUBSET {"in", "out"} : [h EXCEPT !.wanted = W] \in Hooks
         /\ \A P \in SUBSET {"in", "hup", "out"} : [h EXCEPT !.pend = P] \in Hooks
         /\ [h EXCEPT !.closing = TRUE] \in Hooks
  BY DEF Hooks

\* What is set in a hook, and what is left alone.
LEMMA WantedIs ==
  ASSUME NEW H \in Seq(Hooks), NEW i \in 1 .. Len(H), NEW W \in SUBSET {"in", "out"},
         NEW K, SetWanted(H, K, i, W)
  PROVE  WantedSet(H, K, i, W)
  <1>1. H[i] \in Hooks /\ Len(H) \in Nat
    BY ElementOfSeq
  <1>2. PICK h \in Hooks : h = [H[i] EXCEPT !.wanted = W]
    BY <1>1, HookFields
  <1>3. Swapped(H, K, i, h)
    BY <1>2 DEF Swapped, SetWanted, SetPend, SetClosing
  <1>4. /\ K \in Seq(Hooks) /\ Len(K) = Len(H) /\ K[i] = h
        /\ \A j \in 1 .. Len(H) : j # i => K[j] = H[j]
    BY <1>3, Replaced
  <1>5. h.who = H[i].who /\ h.fd = H[i].fd /\ h.wanted = W /\ h.pend = H[i].pend
        /\ h.closing = H[i].closing
    BY <1>1, <1>2 DEF Hooks
  <1> QED BY <1>4, <1>5 DEF WantedSet, Frame

\* The same for the pending events.
LEMMA PendIs ==
  ASSUME NEW H \in Seq(Hooks), NEW i \in 1 .. Len(H), NEW P \in SUBSET {"in", "hup", "out"},
         NEW K, SetPend(H, K, i, P)
  PROVE  PendSet(H, K, i, P)
  <1>1. H[i] \in Hooks /\ Len(H) \in Nat
    BY ElementOfSeq
  <1>2. PICK h \in Hooks : h = [H[i] EXCEPT !.pend = P]
    BY <1>1, HookFields
  <1>3. Swapped(H, K, i, h)
    BY <1>2 DEF Swapped, SetWanted, SetPend, SetClosing
  <1>4. /\ K \in Seq(Hooks) /\ Len(K) = Len(H) /\ K[i] = h
        /\ \A j \in 1 .. Len(H) : j # i => K[j] = H[j]
    BY <1>3, Replaced
  <1>5. h.who = H[i].who /\ h.fd = H[i].fd /\ h.wanted = H[i].wanted /\ h.pend = P
        /\ h.closing = H[i].closing
    BY <1>1, <1>2 DEF Hooks
  <1> QED BY <1>4, <1>5 DEF PendSet, Frame

\* The same for a hook that is deleted.
LEMMA DeletedIs ==
  ASSUME NEW H \in Seq(Hooks), NEW i \in 1 .. Len(H), NEW K, SetClosing(H, K, i)
  PROVE  Deleted(H, K, i)
  <1>1. H[i] \in Hooks /\ Len(H) \in Nat
    BY ElementOfSeq
  <1>2. PICK h \in Hooks : h = [H[i] EXCEPT !.closing = TRUE]
    BY <1>1, HookFields
  <1>3. Swapped(H, K, i, h)
    BY <1>2 DEF Swapped, SetWanted, SetPend, SetClosing
  <1>4. /\ K \in Seq(Hooks) /\ Len(K) = Len(H) /\ K[i] = h
        /\ \A j \in 1 .. Len(H) : j # i => K[j] = H[j]
    BY <1>3, Replaced
  <1>5. h.who = H[i].who /\ h.fd = H[i].fd /\ h.wanted = H[i].wanted /\ h.pend = H[i].pend
        /\ h.closing = TRUE
    BY <1>1, <1>2 DEF Hooks
  <1> QED BY <1>4, <1>5 DEF Deleted, Frame

\* i is the only hook of the descriptor f
Only(H, i, f) ==
    /\ H \in Seq(Hooks) /\ i \in 1 .. Len(H) /\ H[i].fd = f
    /\ \A j \in 1 .. Len(H) : H[j].fd = f => j = i

\* looper_find finds the hook of a descriptor that has only one.
LEMMA FindIs ==
  ASSUME NEW H, NEW i, NEW f, Only(H, i, f)
  PROVE  LooperFind(H, f) = i
  <1>1. /\ H \in Seq(Hooks) /\ i \in 1 .. Len(H) /\ H[i].fd = f
        /\ \A j \in 1 .. Len(H) : H[j].fd = f => j = i
    BY DEF Only
  <1>2. DOMAIN H = 1 .. Len(H) /\ Len(H) \in Nat
    BY <1>1, LenProperties
  <1>3. \A j \in 1 .. i - 1 : H[j].fd # f
    BY <1>1, <1>2
  <1>4. \E j \in DOMAIN H : H[j].fd = f /\ \A k \in 1 .. j - 1 : H[k].fd # f
    BY <1>1, <1>2, <1>3
  <1>5. LooperFind(H, f) \in DOMAIN H /\ H[LooperFind(H, f)].fd = f
    BY <1>4 DEF LooperFind
  <1> QED BY <1>1, <1>2, <1>5

\* What looper_enable, looper_disable and looper_del do to the hook of a
\* descriptor that has only one.
LEMMA LooperIs ==
  ASSUME NEW H, NEW i, NEW f, Only(H, i, f), NEW e \in {"in", "out"}
  PROVE  /\ WantedSet(H, LooperEnable(H, f, e), i, H[i].wanted \cup {e})
         /\ WantedSet(H, LooperDisable(H, f, e), i, H[i].wanted \ {e})
         /\ Deleted(H, LooperDel(H, f), i)
  <1>1. H \in Seq(Hooks) /\ i \in 1 .. Len(H)
    BY DEF Only
  <1>2. LooperFind(H, f) = i
    BY FindIs
  <1>3. H[i] \in Hooks
    BY <1>1, ElementOfSeq
  <1>4. H[i].wanted \cup {e} \in SUBSET {"in", "out"} /\ H[i].wanted \ {e} \in SUBSET {"in", "out"}
    BY <1>3, HookFields
  <1>5. /\ SetWanted(H, LooperEnable(H, f, e), i, H[i].wanted \cup {e})
        /\ SetWanted(H, LooperDisable(H, f, e), i, H[i].wanted \ {e})
        /\ SetClosing(H, LooperDel(H, f), i)
    BY <1>2 DEF SetWanted, SetClosing, LooperEnable, LooperDisable, LooperDel
  <1> QED BY <1>1, <1>4, <1>5, WantedIs, DeletedIs

\* fdhandler_enqueue makes the looper watch a queue that was empty.
Watching(H, q, i) == IF q = <<>> THEN H[i].wanted \cup {"out"} ELSE H[i].wanted
LEMMA WatchedIs ==
  ASSUME NEW H, NEW i, NEW f, Only(H, i, f), NEW q
  PROVE  WantedSet(H, Watched(H, f, q), i, Watching(H, q, i))
  <1>1. CASE q = <<>>
    BY <1>1, LooperIs DEF Watched, Watching
  <1>2. CASE q # <<>>
    <2>1. Watched(H, f, q) = H /\ Watching(H, q, i) = H[i].wanted
      BY <1>2 DEF Watched, Watching
    <2> QED BY <2>1 DEF WantedSet, Frame, Only
  <1> QED BY <1>1, <1>2

\* looper_enable of EPOLLIN, whichever hook it finds, leaves the rest alone.
LEMMA EnableAny ==
  ASSUME NEW H \in Seq(Hooks), NEW f, NEW K, K = LooperEnable(H, f, "in")
  PROVE  /\ Frame(H, K)
         /\ \A j \in 1 .. Len(H) : /\ K[j].pend = H[j].pend /\ K[j].closing = H[j].closing
                                   /\ "out" \in K[j].wanted <=> "out" \in H[j].wanted
  <1>1. PICK x : x = LooperFind(H, f)
    OBVIOUS
  <1>2. DOMAIN H = 1 .. Len(H)
    BY LenProperties
  <1>3. CASE x \in 1 .. Len(H)
    <2>1. H[x] \in Hooks
      BY <1>3, ElementOfSeq
    <2>2. H[x].wanted \cup {"in"} \in SUBSET {"in", "out"}
      BY <2>1, HookFields
    <2>3. SetWanted(H, K, x, H[x].wanted \cup {"in"})
      BY <1>1 DEF SetWanted, LooperEnable
    <2>4. WantedSet(H, K, x, H[x].wanted \cup {"in"})
      BY <1>3, <2>2, <2>3, WantedIs
    <2> QED BY <2>4 DEF WantedSet
  <1>4. CASE x \notin 1 .. Len(H)
    <2>1. K = [H EXCEPT ![x].wanted = @ \cup {"in"}]
      BY <1>1 DEF LooperEnable
    <2>2. K = H
      BY <1>2, <1>4, <2>1
    <2> QED BY <2>2 DEF Frame
  <1> QED BY <1>3, <1>4

-----------------------------------------------------------------------------
(* The structure of the array through the steps *)

\* a handler takes events from hooks and deletes the hooks of the clients it
\* closes
Handler ==
    /\ Frame(hooks, hooks') /\ fd' = fd
    /\ ~hooks'[1].closing /\ ~hooks'[2].closing
    /\ \A i \in 1 .. Len(hooks) : hooks'[i].pend \subseteq hooks[i].pend
    /\ \A i \in Indices :
         /\ hooks'[i].closing <=> fh'[Of(i)] = "freed"
         /\ out'[Of(i)] # <<>> => "out" \in hooks'[i].wanted
    /\ \A c \in Clients : /\ fh'[c] = "none" <=> fh[c] = "none"
                          /\ fh[c] = "freed" => fh'[c] = "freed"

\* Such a step keeps the structure.
LEMMA HandlerKeeps ==
  ASSUME QemudTypeOK, Structure, Handler,
         fh' \in [Clients -> {"none", "active", "closing", "freed"}]
  PROVE  Structure'
  <1>1. Shape /\ Owned /\ OneHook /\ Hooked /\ Separate /\ Twins
    BY DEF Structure
  <1>2. /\ hooks' \in Seq(Hooks) /\ Len(hooks') = Len(hooks) /\ Len(hooks) \in Nat
        /\ \A j \in 1 .. Len(hooks) : hooks'[j].who = hooks[j].who /\ hooks'[j].fd = hooks[j].fd
    BY DEF Handler, Frame, QemudTypeOK
  <1>3. Indices' = Indices /\ \A i \in Indices : i \in 1 .. Len(hooks) /\ Of(i)' = Of(i)
    BY <1>2 DEF Indices, Of
  <1>4. \A c \in Clients : Alive(c)' => Alive(c)
    BY DEF Alive, Handler, QemudTypeOK
  <1>5. Shape'
    BY <1>1, <1>2 DEF Shape, Handler
  <1>6. Owned'
    <2> SUFFICES ASSUME NEW i \in Indices
                 PROVE  /\ Of(i) \in Clients /\ hooks'[i].fd = fd'[Of(i)] /\ fd'[Of(i)] > 2
                        /\ fh'[Of(i)] # "none" /\ (hooks'[i].closing <=> fh'[Of(i)] = "freed")
                        /\ out'[Of(i)] # <<>> => "out" \in hooks'[i].wanted
      BY <1>3 DEF Owned
    <2>1. Of(i) \in Clients /\ hooks[i].fd = fd[Of(i)] /\ fd[Of(i)] > 2 /\ fh[Of(i)] # "none"
      BY <1>1 DEF Owned
    <2>2. hooks'[i].fd = fd'[Of(i)] /\ fd'[Of(i)] > 2
      BY <1>2, <1>3, <2>1 DEF Handler
    <2>3. fh'[Of(i)] # "none" /\ (hooks'[i].closing <=> fh'[Of(i)] = "freed")
      BY <2>1 DEF Handler
    <2>4. out'[Of(i)] # <<>> => "out" \in hooks'[i].wanted
      BY DEF Handler
    <2> QED BY <2>1, <2>2, <2>3, <2>4
  <1>7. OneHook' /\ Hooked' /\ Separate'
    BY <1>1, <1>3, <1>4 DEF OneHook, Hooked, Separate, Handler
  <1>8. Twins'
    <2> SUFFICES ASSUME NEW i \in Indices, NEW j \in Indices, i # j, hooks'[i].fd = hooks'[j].fd
                 PROVE  hooks'[1].pend = {} /\ (Alive(Of(i))' => hooks'[i].pend = {})
      BY <1>3 DEF Twins, Alive
    <2>1. hooks[i].fd = hooks[j].fd /\ 1 \in 1 .. Len(hooks) /\ Of(i) \in Clients
      BY <1>1, <1>2, <1>3 DEF Shape, Owned
    <2>2. hooks[1].pend = {} /\ (Alive(Of(i)) => hooks[i].pend = {})
      BY <1>1, <2>1 DEF Twins
    <2>3. hooks'[1].pend \subseteq hooks[1].pend /\ hooks'[i].pend \subseteq hooks[i].pend
      BY <1>3, <2>1 DEF Handler
    <2>4. Alive(Of(i))' => Alive(Of(i))
      BY <1>3, <1>4, <2>1 DEF Alive
    <2> QED BY <2>2, <2>3, <2>4
  <1> QED BY <1>5, <1>6, <1>7, <1>8 DEF Structure

\* The hook of a client that is alive, and that no other hook has its
\* descriptor while the serial line or the client is being served.
LEMMA HookOfClient ==
  ASSUME QemudTypeOK, Structure, NEW c \in Clients, Alive(c)
  PROVE  \E i \in Indices :
            /\ Of(i) = c /\ ~hooks[i].closing /\ hooks[i].fd = fd[c] /\ fd[c] > 2
            /\ \A j \in 1 .. Len(hooks) : Of(j) = c => j = i
            /\ hooks[1].pend # {} \/ hooks[i].pend # {} => Only(hooks, i, fd[c])
  <1>1. Shape /\ Owned /\ OneHook /\ Hooked /\ Twins
    BY DEF Structure
  <1>2. PICK i \in Indices : Of(i) = c
    BY <1>1 DEF Hooked
  <1>3. hooks[i].fd = fd[c] /\ fd[c] > 2 /\ ~hooks[i].closing /\ fd[c] \in Nat
    BY <1>1, <1>2 DEF Owned, Alive, QemudTypeOK
  <1>4. hooks \in Seq(Hooks) /\ Len(hooks) \in Nat /\ i \in 1 .. Len(hooks)
        /\ \A j \in 1 .. Len(hooks) : j = 1 \/ j = 2 \/ j \in Indices
    BY DEF Indices, QemudTypeOK
  <1>5. Of(1) \notin Clients /\ Of(2) \notin Clients
    BY <1>1, OwnersAssumption DEF Shape, Of
  <1>6. \A j \in 1 .. Len(hooks) : Of(j) = c => j = i
    BY <1>1, <1>2, <1>4, <1>5 DEF OneHook
  <1>7. ASSUME hooks[1].pend # {} \/ hooks[i].pend # {} PROVE Only(hooks, i, fd[c])
    <2> SUFFICES ASSUME NEW j \in 1 .. Len(hooks), hooks[j].fd = fd[c] PROVE j = i
      BY <1>3, <1>4 DEF Only
    <2>1. j # 1 /\ j # 2
      BY <1>1, <1>3 DEF Shape
    <2>2. j \in Indices
      BY <1>4, <2>1
    <2> QED BY <1>1, <1>2, <1>3, <1>7, <2>2 DEF Twins
  <1> QED BY <1>2, <1>3, <1>6, <1>7

\* hs is the array after events were taken from it and before anything else;
\* the serial line's hook may be watched already
Quieted(hs) ==
    /\ Frame(hooks, hs)
    /\ \A j \in 1 .. Len(hooks) :
         /\ hs[j].pend \subseteq hooks[j].pend /\ hs[j].closing = hooks[j].closing
         /\ j # 1 => hs[j].wanted = hooks[j].wanted

\* A descriptor that has one hook keeps it.
LEMMA OnlyFrame ==
  ASSUME NEW H, NEW K, NEW i, NEW f, Only(H, i, f), Frame(H, K)
  PROVE  Only(K, i, f)
  BY DEF Only, Frame

\* The serial line's descriptor has one hook.
LEMMA OnlySerial ==
  ASSUME QemudTypeOK, Structure
  PROVE  Only(hooks, 1, 1) /\ 1 \in 1 .. Len(hooks) /\ 2 \in 1 .. Len(hooks)
  <1>1. Shape /\ Owned /\ hooks \in Seq(Hooks) /\ Len(hooks) \in Nat
    BY DEF Structure, QemudTypeOK
  <1>2. \A j \in 1 .. Len(hooks) : j = 1 \/ j = 2 \/ j \in Indices
    BY <1>1 DEF Indices
  <1>3. \A j \in Indices : hooks[j].fd \in Nat /\ hooks[j].fd > 2
    BY <1>1 DEF Owned, QemudTypeOK
  <1>4. \A j \in 1 .. Len(hooks) : hooks[j].fd = 1 => j = 1
    BY <1>1, <1>2, <1>3 DEF Shape
  <1> QED BY <1>1, <1>4 DEF Only, Shape

\* The looper takes an event from a hook and calls its handler.
LEMMA HandledIs ==
  ASSUME QemudTypeOK, NEW i \in 1 .. Len(hooks), NEW e, NEW hs, hs = Handled(i, e)
  PROVE  /\ Quieted(hs) /\ hs[i].pend = hooks[i].pend \ {e}
         /\ \A j \in 1 .. Len(hooks) : hs[j].wanted = hooks[j].wanted
         /\ \A j \in 1 .. Len(hooks) : j # i => hs[j].pend = hooks[j].pend
  <1>1. hooks \in Seq(Hooks) /\ Len(hooks) \in Nat
    BY DEF QemudTypeOK
  <1>2. hooks[i] \in Hooks
    BY <1>1, ElementOfSeq
  <1>3. hooks[i].pend \ {e} \in SUBSET {"in", "hup", "out"}
    BY <1>2, HookFields
  <1>4. SetPend(hooks, hs, i, hooks[i].pend \ {e})
    BY DEF SetPend, Handled
  <1>5. PendSet(hooks, hs, i, hooks[i].pend \ {e})
    BY <1>1, <1>3, <1>4, PendIs
  <1> QED BY <1>5 DEF PendSet, Quieted

\* A handler that changes no hook but takes the event.
LEMMA QuietStructure ==
  ASSUME QemudTypeOK, Structure, NEW hs, Quieted(hs), hooks' = hs,
         fh' = fh, fd' = fd, out' = out
  PROVE  Handler
  <1>1. Shape /\ Owned /\ Len(hooks) \in Nat
    BY DEF Structure, QemudTypeOK
  <1>2. \A i \in Indices : i \in 1 .. Len(hooks) /\ i # 1
    BY <1>1 DEF Indices
  <1>3. 1 \in 1 .. Len(hooks) /\ 2 \in 1 .. Len(hooks)
    BY OnlySerial
  <1>4. ~hooks'[1].closing /\ ~hooks'[2].closing
    BY <1>1, <1>3 DEF Shape, Quieted
  <1>5. ASSUME NEW i \in Indices
        PROVE  /\ hooks'[i].closing <=> fh'[Of(i)] = "freed"
               /\ out'[Of(i)] # <<>> => "out" \in hooks'[i].wanted
    BY <1>1, <1>2 DEF Owned, Quieted
  <1> QED BY <1>4, <1>5 DEF Handler, Quieted

\* The serial line's hook watches its queue.
LEMMA SerialWatched ==
  ASSUME QemudTypeOK, Structure, NEW hs, Quieted(hs), NEW K, K = Watched(hs, 1, sout)
  PROVE  Quieted(K) /\ K[1].pend = hs[1].pend /\ K[1].wanted = Watching(hs, sout, 1)
  <1>1. Only(hs, 1, 1) /\ 1 \in 1 .. Len(hooks)
    BY OnlySerial, OnlyFrame DEF Quieted
  <1>2. WantedSet(hs, K, 1, Watching(hs, sout, 1))
    BY <1>1, WatchedIs
  <1> QED BY <1>1, <1>2 DEF Quieted, WantedSet, Frame

\* serial_send
LEMMA SendStructure ==
  ASSUME QemudTypeOK, Structure, NEW hs, Quieted(hs), NEW m, SerialSend(m, hs),
         fh' = fh, fd' = fd, out' = out
  PROVE  /\ Handler /\ hooks'[1].pend = hs[1].pend
         /\ hooks'[1].wanted = Watching(hs, sout, 1)
  <1>1. PICK K : K = Watched(hs, 1, sout)
    OBVIOUS
  <1>2. Quieted(K) /\ K[1].pend = hs[1].pend /\ K[1].wanted = Watching(hs, sout, 1)
    BY <1>1, SerialWatched
  <1>3. hooks' = K
    BY <1>1 DEF SerialSend
  <1> QED BY <1>2, <1>3, QuietStructure

\* fdhandler_enqueue to a client
LEMMA EnqueueStructure ==
  ASSUME QemudTypeOK, Structure, NEW hs, Quieted(hs), NEW c \in Clients, Alive(c),
         hooks[1].pend # {}, NEW p, Enqueue(c, p, hs), fh' = fh, fd' = fd
  PROVE  /\ Handler /\ hooks'[1].pend = hs[1].pend /\ hooks'[1].wanted = hs[1].wanted
  <1>1. PICK i \in Indices :
            /\ Of(i) = c /\ \A j \in 1 .. Len(hooks) : Of(j) = c => j = i
            /\ Only(hooks, i, fd[c])
    BY HookOfClient
  <1>2. Only(hs, i, fd[c])
    BY <1>1, OnlyFrame DEF Quieted
  <1>3. PICK K : K = Watched(hs, fd[c], out[c])
    OBVIOUS
  <1>4. WantedSet(hs, K, i, Watching(hs, out[c], i))
    BY <1>2, <1>3, WatchedIs
  <1>5. Shape /\ Owned /\ Len(hooks) \in Nat
    BY DEF Structure, QemudTypeOK
  <1>6. \A j \in Indices : j \in 1 .. Len(hooks) /\ j # 1 /\ Of(j) \in Clients
    BY <1>5 DEF Indices, Owned
  <1>7. 1 \in 1 .. Len(hooks) /\ 2 \in 1 .. Len(hooks)
    BY OnlySerial
  <1>8. hooks' = K
    BY <1>3 DEF Enqueue
  <1>9. /\ Frame(hooks, K) /\ \A j \in 1 .. Len(hooks) :
             K[j].pend \subseteq hooks[j].pend /\ K[j].closing = hooks[j].closing
    BY <1>4 DEF WantedSet, Quieted, Frame
  <1>10. ASSUME NEW j \in Indices
         PROVE  /\ K[j].closing <=> fh'[Of(j)] = "freed"
                /\ out'[Of(j)] # <<>> => "out" \in K[j].wanted
    <2>1. K[j].closing <=> fh'[Of(j)] = "freed"
      BY <1>5, <1>6, <1>9 DEF Owned
    <2>2. CASE j = i
      <3>1. K[i].wanted = Watching(hs, out[c], i) /\ hs[i].wanted = hooks[i].wanted
        BY <1>4, <1>6 DEF WantedSet, Quieted
      <3>2. out[c] # <<>> => "out" \in hooks[i].wanted
        BY <1>1, <1>5 DEF Owned
      <3>3. "out" \in K[i].wanted
        BY <3>1, <3>2 DEF Watching
      <3> QED BY <2>1, <2>2, <3>3
    <2>3. CASE j # i
      <3>1. Of(j) # c
        BY <1>1, <1>6, <2>3
      <3>2. out'[Of(j)] = out[Of(j)]
        BY <1>6, <3>1 DEF Enqueue, QemudTypeOK
      <3>3. K[j].wanted = hooks[j].wanted
        BY <1>4, <1>6, <2>3 DEF WantedSet, Quieted, Frame
      <3> QED BY <1>5, <2>1, <3>2, <3>3 DEF Owned
    <2> QED BY <2>2, <2>3
  <1>11. ~K[1].closing /\ ~K[2].closing
    BY <1>5, <1>7, <1>9 DEF Shape
  <1>12. K[1].pend = hs[1].pend /\ K[1].wanted = hs[1].wanted
    BY <1>1, <1>4, <1>6, <1>7 DEF WantedSet, Quieted, Frame
  <1> QED BY <1>8, <1>9, <1>10, <1>11, <1>12 DEF Handler

\* the hook of client c is the only one with its descriptor
Served(c) ==
    \E i \in Indices : /\ Of(i) = c /\ Only(hooks, i, fd[c])
                       /\ \A j \in 1 .. Len(hooks) : Of(j) = c => j = i

\* A client is served while the serial line is, or while its own hook has events.
LEMMA ServedIs ==
  ASSUME QemudTypeOK, Structure
  PROVE  /\ \A c \in Clients : Alive(c) /\ hooks[1].pend # {} => Served(c)
         /\ \A i \in Indices : Alive(Of(i)) /\ hooks[i].pend # {} => Served(Of(i))
  <1>1. ASSUME NEW c \in Clients, Alive(c), hooks[1].pend # {} PROVE Served(c)
    BY <1>1, HookOfClient DEF Served
  <1>2. ASSUME NEW i \in Indices, Alive(Of(i)), hooks[i].pend # {} PROVE Served(Of(i))
    <2>1. PICK c \in Clients : c = Of(i)
      BY DEF Structure, Owned
    <2>2. i \in 1 .. Len(hooks)
      BY DEF Indices, QemudTypeOK
    <2>3. PICK k \in Indices :
            /\ Of(k) = c
            /\ \A j \in 1 .. Len(hooks) : Of(j) = c => j = k
            /\ hooks[1].pend # {} \/ hooks[k].pend # {} => Only(hooks, k, fd[c])
      BY <1>2, <2>1, HookOfClient
    <2>4. k = i
      BY <2>1, <2>2, <2>3
    <2>5. Served(c)
      BY <1>2, <2>3, <2>4 DEF Served
    <2> QED BY <2>1, <2>5
  <1> QED BY <1>1, <1>2

\* fdhandler_close
LEMMA CloseStructure ==
  ASSUME QemudTypeOK, Structure, NEW hs, Quieted(hs), NEW c \in Clients, Alive(c), Served(c),
         NEW in, FdhandlerClose(c, hs, in), fd' = fd
  PROVE  Handler /\ hooks'[1].pend = hs[1].pend /\ hooks'[1].wanted = hs[1].wanted
  <1>1. PICK i \in Indices : /\ Of(i) = c /\ Only(hooks, i, fd[c])
                             /\ \A j \in 1 .. Len(hooks) : Of(j) = c => j = i
    BY DEF Served
  <1>2. Only(hs, i, fd[c])
    BY <1>1, OnlyFrame DEF Quieted
  <1>3. PICK K : K = LooperDel(hs, fd[c])
    OBVIOUS
  <1>4. Deleted(hs, K, i)
    BY <1>2, <1>3, LooperIs
  <1>5. Shape /\ Owned /\ Len(hooks) \in Nat
    BY DEF Structure, QemudTypeOK
  <1>6. \A j \in Indices : j \in 1 .. Len(hooks) /\ j # 1 /\ j # 2 /\ Of(j) \in Clients
    BY <1>5 DEF Indices, Owned
  <1>7. 1 \in 1 .. Len(hooks) /\ 2 \in 1 .. Len(hooks)
    BY OnlySerial
  <1>8. hooks' = K
    BY <1>3 DEF FdhandlerClose
  <1>9. /\ Frame(hooks, K)
        /\ \A j \in 1 .. Len(hooks) : K[j].pend \subseteq hooks[j].pend
        /\ \A j \in 1 .. Len(hooks) : j # i => K[j].closing = hooks[j].closing
        /\ \A j \in 1 .. Len(hooks) : j # 1 => K[j].wanted = hooks[j].wanted
    BY <1>4 DEF Deleted, Quieted, Frame
  <1>10. /\ fh'[c] = "freed" /\ out'[c] = <<>>
         /\ \A d \in Clients \ {c} : fh'[d] = fh[d] /\ out'[d] = out[d]
    BY DEF FdhandlerClose, QemudTypeOK
  <1>11. ASSUME NEW j \in Indices
         PROVE  /\ K[j].closing <=> fh'[Of(j)] = "freed"
                /\ out'[Of(j)] # <<>> => "out" \in K[j].wanted
    <2>1. CASE j = i
      <3>1. K[i].closing
        BY <1>4 DEF Deleted
      <3> QED BY <1>1, <1>10, <2>1, <3>1
    <2>2. CASE j # i
      <3>1. Of(j) \in Clients \ {c}
        BY <1>1, <1>6, <2>2
      <3>2. K[j].closing = hooks[j].closing /\ K[j].wanted = hooks[j].wanted
        BY <1>6, <1>9, <2>2
      <3>3. fh'[Of(j)] = fh[Of(j)] /\ out'[Of(j)] = out[Of(j)]
        BY <1>10, <3>1
      <3>4. /\ hooks[j].closing <=> fh[Of(j)] = "freed"
            /\ out[Of(j)] # <<>> => "out" \in hooks[j].wanted
        BY <1>5 DEF Owned
      <3> QED BY <3>2, <3>3, <3>4
    <2> QED BY <2>1, <2>2
  <1>12. ~K[1].closing /\ ~K[2].closing
    BY <1>5, <1>6, <1>7, <1>9 DEF Shape
  <1>13. K[1].pend = hs[1].pend /\ K[1].wanted = hs[1].wanted
    BY <1>4, <1>7 DEF Deleted, Quieted, Frame
  <1>14. ASSUME NEW d \in Clients
         PROVE  /\ fh'[d] = "none" <=> fh[d] = "none"
                /\ fh[d] = "freed" => fh'[d] = "freed"
    BY <1>10 DEF Alive
  <1> QED BY <1>8, <1>9, <1>11, <1>12, <1>13, <1>14 DEF Handler

\* fdhandler_shutdown
LEMMA ShutdownStructure ==
  ASSUME QemudTypeOK, Structure, NEW hs, Quieted(hs), NEW c \in Clients, Alive(c), Served(c),
         NEW in, FdhandlerShutdown(c, hs, in), fd' = fd
  PROVE  Handler /\ hooks'[1].pend = hs[1].pend /\ hooks'[1].wanted = hs[1].wanted
  <1>1. CASE FdhandlerClose(c, hs, in)
    BY <1>1, CloseStructure
  <1>2. CASE fh' = [fh EXCEPT ![c] = "closing"] /\ hooks' = hs /\ out' = out
    <2>1. Shape /\ Owned /\ Len(hooks) \in Nat
      BY DEF Structure, QemudTypeOK
    <2>2. \A j \in Indices : j \in 1 .. Len(hooks) /\ j # 1 /\ Of(j) \in Clients
      BY <2>1 DEF Indices, Owned
    <2>3. 1 \in 1 .. Len(hooks) /\ 2 \in 1 .. Len(hooks)
      BY OnlySerial
    <2>4. \A d \in Clients : /\ fh'[d] = "none" <=> fh[d] = "none"
                             /\ fh'[d] = "freed" <=> fh[d] = "freed"
      BY <1>2 DEF Alive, QemudTypeOK
    <2>5. ASSUME NEW j \in Indices
          PROVE  /\ hs[j].closing <=> fh'[Of(j)] = "freed"
                 /\ out'[Of(j)] # <<>> => "out" \in hs[j].wanted
      <3>1. hs[j].closing = hooks[j].closing /\ hs[j].wanted = hooks[j].wanted
        BY <2>2 DEF Quieted
      <3>2. fh'[Of(j)] = "freed" <=> fh[Of(j)] = "freed"
        BY <2>2, <2>4
      <3> QED BY <1>2, <2>1, <3>1, <3>2 DEF Owned
    <2>6. ~hs[1].closing /\ ~hs[2].closing
      BY <2>1, <2>3 DEF Shape, Quieted
    <2> QED BY <1>2, <2>4, <2>5, <2>6 DEF Handler, Quieted
  <1> QED BY <1>1, <1>2 DEF FdhandlerShutdown

\* the last packet of a queue was written
LEMMA WrittenStructure ==
  ASSUME QemudTypeOK, Structure, NEW hs, Quieted(hs), NEW c \in Clients, Served(c),
         out' = [out EXCEPT ![c] = Tail(@)], out[c] # <<>>, fh' = fh, fd' = fd,
         hooks' = IF Len(out[c]) = 1 THEN LooperDisable(hs, fd[c], "out") ELSE hs
  PROVE  Handler /\ hooks'[1].pend = hs[1].pend /\ hooks'[1].wanted = hs[1].wanted
  <1>1. PICK i \in Indices : /\ Of(i) = c /\ Only(hooks, i, fd[c])
                             /\ \A j \in 1 .. Len(hooks) : Of(j) = c => j = i
    BY DEF Served
  <1>2. Only(hs, i, fd[c])
    BY <1>1, OnlyFrame DEF Quieted
  <1>3. PICK K : K = hooks'
    OBVIOUS
  <1>4. out[c] \in Seq(Packets) /\ Len(out[c]) \in Nat
    BY DEF QemudTypeOK
  <1>5. Shape /\ Owned /\ Len(hooks) \in Nat
    BY DEF Structure, QemudTypeOK
  <1>6. \A j \in Indices : j \in 1 .. Len(hooks) /\ j # 1 /\ j # 2 /\ Of(j) \in Clients
    BY <1>5 DEF Indices, Owned
  <1>7. 1 \in 1 .. Len(hooks) /\ 2 \in 1 .. Len(hooks)
    BY OnlySerial
  <1>8. out'[c] = Tail(out[c]) /\ \A d \in Clients \ {c} : out'[d] = out[d]
    BY DEF QemudTypeOK
  <1>9. ASSUME Len(out[c]) = 1
        PROVE  WantedSet(hs, K, i, hs[i].wanted \ {"out"}) /\ out'[c] = <<>>
    <2>1. K = LooperDisable(hs, fd[c], "out")
      BY <1>3, <1>9
    <2>2. PICK q \in Seq(Packets) : q = out[c]
      BY <1>4
    <2>3. q # <<>> /\ Len(q) = 1
      BY <1>9, <2>2
    <2>4. Tail(q) \in Seq(Packets) /\ Len(Tail(q)) = 0
      BY <2>3, HeadTailProperties
    <2>5. Tail(q) = <<>>
      BY <2>4, EmptySeq
    <2> QED BY <1>2, <1>8, <2>1, <2>2, <2>5, LooperIs
  <1>10. ASSUME Len(out[c]) # 1 PROVE K = hs
    BY <1>3, <1>10
  <1>11. /\ Frame(hooks, K)
         /\ \A j \in 1 .. Len(hooks) :
              /\ K[j].pend \subseteq hooks[j].pend /\ K[j].closing = hooks[j].closing
              /\ j # i /\ j # 1 => K[j].wanted = hooks[j].wanted
         /\ K[1].pend = hs[1].pend /\ K[1].wanted = hs[1].wanted
    <2>1. CASE Len(out[c]) = 1
      <3>1. WantedSet(hs, K, i, hs[i].wanted \ {"out"})
        BY <1>9, <2>1
      <3> QED BY <1>6, <1>7, <3>1 DEF WantedSet, Quieted, Frame
    <2>2. CASE Len(out[c]) # 1
      BY <1>10, <2>2 DEF Quieted
    <2> QED BY <2>1, <2>2
  <1>12. ASSUME NEW j \in Indices
         PROVE  /\ K[j].closing <=> fh'[Of(j)] = "freed"
                /\ out'[Of(j)] # <<>> => "out" \in K[j].wanted
    <2>1. K[j].closing <=> fh'[Of(j)] = "freed"
      BY <1>5, <1>6, <1>11 DEF Owned
    <2>2. CASE j # i
      <3>1. Of(j) \in Clients \ {c} /\ K[j].wanted = hooks[j].wanted
        BY <1>1, <1>6, <1>11, <2>2
      <3>2. out'[Of(j)] = out[Of(j)]
        BY <1>8, <3>1
      <3> QED BY <1>5, <2>1, <3>1, <3>2 DEF Owned
    <2>3. CASE j = i /\ Len(out[c]) = 1
      BY <1>1, <1>9, <2>1, <2>3
    <2>4. CASE j = i /\ Len(out[c]) # 1
      <3>1. K[j].wanted = hooks[j].wanted
        BY <1>6, <1>10, <2>4 DEF Quieted
      <3> QED BY <1>1, <1>5, <2>1, <2>4, <3>1 DEF Owned
    <2> QED BY <2>2, <2>3, <2>4
  <1>13. ~K[1].closing /\ ~K[2].closing
    BY <1>5, <1>7, <1>11 DEF Shape
  <1> QED BY <1>3, <1>11, <1>12, <1>13 DEF Handler

-----------------------------------------------------------------------------
(* The invariant through the handlers *)

Messages == [op : {"connect", "disconnect", "data"}, chan : Channels, n : {0}]

\* the array after the event was taken and before anything else
Begun(hs) == Quieted(hs) /\ hs[1].wanted = hooks[1].wanted

\* A client sends to the emulator: the serial line's queue is watched.
LEMMA SendKeeps ==
  ASSUME QemudTypeOK, Structure, SerialLine, NEW hs, Begun(hs), NEW m \in Messages,
         SerialSend(m, hs), fh' = fh, fd' = fd, out' = out, sin' = sin
  PROVE  Structure' /\ SerialLine' /\ hooks' \in Seq(Hooks) /\ sout' \in Seq(Messages)
  <1>1. /\ Handler /\ hooks'[1].pend = hs[1].pend
        /\ hooks'[1].wanted = Watching(hs, sout, 1)
    BY SendStructure DEF Begun
  <1>2. Structure'
    BY <1>1, HandlerKeeps DEF QemudTypeOK
  <1>3. hooks' \in Seq(Hooks) /\ 1 \in 1 .. Len(hooks)
    BY <1>1, OnlySerial DEF Handler, Frame
  <1>4. sout \in Seq(Messages) /\ sout' = Append(sout, m)
    BY DEF QemudTypeOK, Messages, SerialSend
  <1>5. sout' \in Seq(Messages) /\ sout' # <<>>
    BY <1>4, AppendProperties
  <1>6. "out" \in hooks'[1].wanted
    BY <1>1 DEF Watching, SerialLine, Begun
  <1>7. hooks'[1].pend \subseteq hooks[1].pend
    BY <1>1, <1>3 DEF Begun, Quieted
  <1> QED BY <1>2, <1>3, <1>5, <1>6, <1>7 DEF SerialLine

\* a Client is freed and its handler shut down or closed
Gone(c, hs, in) ==
    /\ obj' = [obj EXCEPT ![c] = "freed"]
    /\ FdhandlerShutdown(c, hs, in) \/ FdhandlerClose(c, hs, in)

\* Such a step keeps the structure and the types.
LEMMA FreeKeeps ==
  ASSUME QemudTypeOK, Structure, Tidy, NEW hs, Quieted(hs), NEW c \in Clients, Alive(c), Served(c),
         NEW in \in [Clients -> Seq({"short", "long"})], fd' = fd, Gone(c, hs, in)
  PROVE  /\ Structure' /\ hooks' \in Seq(Hooks)
         /\ hooks'[1].pend = hs[1].pend /\ hooks'[1].wanted = hs[1].wanted
         /\ fh' \in [Clients -> {"none", "active", "closing", "freed"}]
         /\ out' \in [Clients -> Seq(Packets)] /\ got' \in [Clients -> Seq(Packets)]
         /\ sock' \in [Clients -> {"none", "up", "hung", "cut"}]
         /\ inbox' \in [Clients -> Seq({"short", "long"})]
         /\ obj' \in [Clients -> {"none", "live", "freed"}]
         /\ \A d \in Clients : /\ fh'[d] = "none" => out'[d] = <<>>
                               /\ obj'[d] = "live" => fh'[d] = "active"
  <1>1. /\ FdhandlerShutdown(c, hs, in) \/ FdhandlerClose(c, hs, in)
        /\ obj' = [obj EXCEPT ![c] = "freed"]
    BY DEF Gone
  <1>2. Handler /\ hooks'[1].pend = hs[1].pend /\ hooks'[1].wanted = hs[1].wanted
    BY <1>1, ShutdownStructure, CloseStructure
  <1>3. /\ fh' \in [Clients -> {"none", "active", "closing", "freed"}]
        /\ \A d \in Clients \ {c} : fh'[d] = fh[d]
        /\ fh'[c] # "none"
    BY <1>1 DEF FdhandlerShutdown, FdhandlerClose, QemudTypeOK
  <1>4. /\ out' \in [Clients -> Seq(Packets)] /\ got' \in [Clients -> Seq(Packets)]
        /\ \A d \in Clients \ {c} : out'[d] = out[d]
        /\ sock' \in [Clients -> {"none", "up", "hung", "cut"}]
        /\ inbox' \in [Clients -> Seq({"short", "long"})]
    <2>1. <<>> \in Seq(Packets) /\ <<>> \in Seq({"short", "long"})
      BY EmptySeq
    <2>2. CASE FdhandlerClose(c, hs, in)
      <3>1. out' = [out EXCEPT ![c] = <<>>] /\ got' = [got EXCEPT ![c] = <<>>]
        BY <2>2 DEF FdhandlerClose
      <3>2. sock' = [sock EXCEPT ![c] = "cut"] /\ inbox' = [in EXCEPT ![c] = <<>>]
        BY <2>2 DEF FdhandlerClose
      <3>3. out' \in [Clients -> Seq(Packets)] /\ \A d \in Clients \ {c} : out'[d] = out[d]
        BY <2>1, <3>1 DEF QemudTypeOK
      <3>4. got' \in [Clients -> Seq(Packets)]
        BY <2>1, <3>1 DEF QemudTypeOK
      <3>5. sock' \in [Clients -> {"none", "up", "hung", "cut"}]
        BY <3>2 DEF QemudTypeOK
      <3>6. inbox' \in [Clients -> Seq({"short", "long"})]
        BY <2>1, <3>2
      <3> QED BY <3>3, <3>4, <3>5, <3>6
    <2>3. CASE out' = out /\ got' = got /\ sock' = sock /\ inbox' = in
      BY <2>3 DEF QemudTypeOK
    <2> QED BY <1>1, <2>2, <2>3 DEF FdhandlerShutdown
  <1>6. /\ obj' \in [Clients -> {"none", "live", "freed"}] /\ obj'[c] = "freed"
        /\ \A d \in Clients \ {c} : obj'[d] = obj[d]
    BY <1>1 DEF QemudTypeOK
  <1>7. Structure' /\ hooks' \in Seq(Hooks)
    BY <1>2, <1>3, HandlerKeeps DEF Handler, Frame
  <1>8. \A d \in Clients : /\ fh'[d] = "none" => out'[d] = <<>>
                           /\ obj'[d] = "live" => fh'[d] = "active"
    BY <1>3, <1>4, <1>6 DEF Tidy
  <1> QED BY <1>2, <1>3, <1>4, <1>6, <1>7, <1>8

\* The hook whose handler is called belongs to a client that is alive, or its
\* handler was freed.
LEMMA TurnIs ==
  ASSUME IInv, NEW i \in DOMAIN hooks, Turn(i), i > 2
  PROVE  /\ i \in Indices /\ Of(i) \in Clients /\ i \in 1 .. Len(hooks) /\ i # 1
         /\ fh[Of(i)] # "freed" => Alive(Of(i)) /\ Served(Of(i))
  <1>1. hooks \in Seq(Hooks) /\ Len(hooks) \in Nat /\ DOMAIN hooks = 1 .. Len(hooks)
    BY LenProperties DEF IInv, QemudTypeOK
  <1>2. i \in Indices /\ i \in 1 .. Len(hooks) /\ i # 1
    BY <1>1 DEF Indices
  <1>3. Of(i) \in Clients /\ fh[Of(i)] # "none"
    BY <1>2 DEF IInv, Structure, Owned
  <1>4. fh[Of(i)] # "freed" => Alive(Of(i))
    BY <1>3 DEF Alive, IInv, QemudTypeOK
  <1>5. hooks[i].pend # {}
    BY DEF Turn
  <1> QED BY <1>2, <1>3, <1>4, <1>5, ServedIs DEF IInv

\* A handler that changes no more than hooks.
LEMMA QuietKeeps ==
  ASSUME IInv, NEW hs, Begun(hs), hooks' = hs,
         UNCHANGED <<peer, handler, client, serial, emulator, crashed>>
  PROVE  IInv'
  <1>1. QemudTypeOK /\ Structure /\ SerialLine /\ Tidy
    BY DEF IInv
  <1>2. Handler /\ fh' = fh
    BY <1>1, QuietStructure DEF handler, Begun
  <1>3. Structure' /\ hooks' \in Seq(Hooks) /\ 1 \in 1 .. Len(hooks)
    BY <1>1, <1>2, HandlerKeeps, OnlySerial DEF Handler, Frame, QemudTypeOK
  <1>4. QemudTypeOK'
    BY <1>1, <1>3 DEF QemudTypeOK, peer, handler, client, serial, emulator
  <1>5. hooks'[1].wanted = hooks[1].wanted /\ hooks'[1].pend \subseteq hooks[1].pend
    BY <1>3 DEF Begun, Quieted
  <1>6. SerialLine'
    BY <1>1, <1>5 DEF SerialLine, serial
  <1>7. Tidy'
    BY <1>1 DEF Tidy, handler, client
  <1> QED BY <1>3, <1>4, <1>6, <1>7 DEF IInv

\* client_fd_receive keeps the invariant.
LEMMA ReceivesKeeps ==
  ASSUME IInv, NEW hs, Begun(hs), NEW c \in Clients, Alive(c), Served(c), NEW p,
         NEW in \in [Clients -> Seq({"short", "long"})], ClientReceives(c, p, hs, in),
         UNCHANGED <<sends, sin, emulator, crashed>>
  PROVE  IInv'
  <1>1. QemudTypeOK /\ Structure /\ SerialLine /\ Tidy
    BY DEF IInv
  <1>2. \A k \in Channels : Msg("data", k, 0) \in Messages /\ Msg("connect", k, 0) \in Messages
    BY DEF Msg, Messages
  <1>3. 1 \in 1 .. Len(hooks)
    BY <1>1, OnlySerial
  <1>4. CASE /\ reg[c] /\ SerialSend(Msg("data", chan[c], 0), hs) /\ inbox' = in
             /\ UNCHANGED <<handler, client, sock, got>>
    <2>1. chan[c] \in Channels
      BY <1>1, <1>4 DEF Tidy
    <2>2. Structure' /\ SerialLine' /\ hooks' \in Seq(Hooks) /\ sout' \in Seq(Messages)
      BY <1>1, <1>2, <1>4, <2>1, SendKeeps DEF handler
    <2>3. QemudTypeOK'
      BY <1>1, <1>4, <2>2 DEF QemudTypeOK, handler, client, emulator, Messages
    <2>4. Tidy'
      BY <1>1, <1>4 DEF Tidy, handler, client
    <2> QED BY <2>2, <2>3, <2>4 DEF IInv
  <1>5. ASSUME ClientFree(c, hs, in), UNCHANGED <<fd, reg, sout>>,
               chan' \in [Clients -> Channels \cup {NoChannel}], last' \in Channels,
               \A d \in Clients : reg[d] => chan'[d] = chan[d]
        PROVE  IInv'
    <2>1. /\ Structure' /\ hooks' \in Seq(Hooks)
          /\ hooks'[1].pend = hs[1].pend /\ hooks'[1].wanted = hs[1].wanted
          /\ fh' \in [Clients -> {"none", "active", "closing", "freed"}]
          /\ out' \in [Clients -> Seq(Packets)] /\ got' \in [Clients -> Seq(Packets)]
          /\ sock' \in [Clients -> {"none", "up", "hung", "cut"}]
          /\ inbox' \in [Clients -> Seq({"short", "long"})]
          /\ obj' \in [Clients -> {"none", "live", "freed"}]
          /\ \A d \in Clients : /\ fh'[d] = "none" => out'[d] = <<>>
                                /\ obj'[d] = "live" => fh'[d] = "active"
      BY <1>1, <1>5, FreeKeeps DEF Begun, ClientFree, Gone
    <2>2. QemudTypeOK'
      BY <1>1, <1>5, <2>1 DEF QemudTypeOK, emulator
    <2>3. hooks'[1].wanted = hooks[1].wanted /\ hooks'[1].pend \subseteq hooks[1].pend
      BY <1>3, <2>1 DEF Begun, Quieted
    <2>4. SerialLine'
      BY <1>1, <1>5, <2>3 DEF SerialLine
    <2>5. Tidy'
      BY <1>1, <1>5, <2>1 DEF Tidy
    <2> QED BY <2>1, <2>2, <2>4, <2>5 DEF IInv
  <1>6. CASE /\ ~reg[c] /\ ClientFree(c, hs, in) /\ UNCHANGED <<fd, chan, reg, last, sout>>
    BY <1>1, <1>5, <1>6 DEF QemudTypeOK
  <1>7. ASSUME NEW k \in Channels, ~reg[c], last' = k, chan' = [chan EXCEPT ![c] = k],
               SerialSend(Msg("connect", k, 0), hs), inbox' = in,
               UNCHANGED <<handler, obj, reg, sock, got>>
        PROVE  IInv'
    <2>1. Structure' /\ SerialLine' /\ hooks' \in Seq(Hooks) /\ sout' \in Seq(Messages)
      BY <1>1, <1>2, <1>7, SendKeeps DEF handler
    <2>2. QemudTypeOK'
      BY <1>1, <1>7, <2>1 DEF QemudTypeOK, handler, emulator, Messages
    <2>3. Tidy'
      BY <1>1, <1>7 DEF Tidy, handler, QemudTypeOK
    <2> QED BY <2>1, <2>2, <2>3 DEF IInv
  <1>8. ASSUME NEW k \in Channels, ~reg[c], last' = k, chan' = [chan EXCEPT ![c] = NoChannel],
               ClientFree(c, hs, in), UNCHANGED <<fd, reg, sout>>
        PROVE  IInv'
    <2>1. chan' \in [Clients -> Channels \cup {NoChannel}]
      BY <1>1, <1>8 DEF QemudTypeOK
    <2>2. \A d \in Clients : reg[d] => chan'[d] = chan[d]
      BY <1>1, <1>8 DEF QemudTypeOK
    <2> QED BY <1>5, <1>8, <2>1, <2>2
  <1> QED BY <1>4, <1>6, <1>7, <1>8 DEF ClientReceives

\* EPOLLIN of a client's hook keeps the invariant.
LEMMA ClientInKeeps ==
  ASSUME IInv, NEW i \in DOMAIN hooks, ClientIn(i)
  PROVE  IInv'
  <1>1. PICK c : c = Of(i)
    OBVIOUS
  <1>2. PICK hs : hs = Handled(i, "in")
    OBVIOUS
  <1>3. /\ Turn(i) /\ i > 2 /\ fh[c] # "freed"
        /\ UNCHANGED <<sends, sin, emulator, crashed>>
        /\ \/ /\ inbox[c] = <<>> /\ hooks' = hs
              /\ UNCHANGED <<handler, client, sock, inbox, got, sout>>
           \/ /\ inbox[c] # <<>>
              /\ ClientReceives(c, Head(inbox[c]), hs, [inbox EXCEPT ![c] = Tail(@)])
    BY <1>1, <1>2 DEF ClientIn, Of
  <1>4. c \in Clients /\ i \in 1 .. Len(hooks) /\ i # 1 /\ Alive(c) /\ Served(c)
    BY <1>1, <1>3, TurnIs
  <1>5. Begun(hs)
    <2>1. 1 \in 1 .. Len(hooks)
      BY OnlySerial DEF IInv
    <2> QED BY <1>2, <1>4, <2>1, HandledIs DEF IInv, Begun
  <1>6. CASE inbox[c] = <<>> /\ hooks' = hs /\ UNCHANGED <<handler, client, sock, inbox, got, sout>>
    BY <1>3, <1>5, <1>6, QuietKeeps DEF peer, serial
  <1>7. CASE /\ inbox[c] # <<>>
             /\ ClientReceives(c, Head(inbox[c]), hs, [inbox EXCEPT ![c] = Tail(@)])
    <2>1. inbox \in [Clients -> Seq({"short", "long"})]
      BY DEF IInv, QemudTypeOK
    <2>2. Tail(inbox[c]) \in Seq({"short", "long"})
      BY <1>4, <1>7, <2>1, HeadTailProperties
    <2>3. PICK in : in = [inbox EXCEPT ![c] = Tail(@)]
      OBVIOUS
    <2>4. in \in [Clients -> Seq({"short", "long"})]
      BY <2>1, <2>2, <2>3
    <2>5. PICK p : p = Head(inbox[c])
      OBVIOUS
    <2>6. ClientReceives(c, p, hs, in)
      BY <1>7, <2>3, <2>5
    <2> QED BY <1>3, <1>4, <1>5, <2>4, <2>6, ReceivesKeeps
  <1> QED BY <1>3, <1>6, <1>7

\* EPOLLHUP of a client's hook keeps the invariant.
LEMMA ClientHupKeeps ==
  ASSUME IInv, NEW i \in DOMAIN hooks, ClientHup(i)
  PROVE  IInv'
  <1>1. PICK c : c = Of(i)
    OBVIOUS
  <1>2. PICK hs : hs = [hooks EXCEPT ![i].pend = {}]
    OBVIOUS
  <1>3. PICK K : K = IF Told(c) THEN Watched(hs, 1, sout) ELSE hs
    OBVIOUS
  <1>4. /\ Turn(i) /\ i > 2 /\ fh[c] # "freed"
        /\ sout' = IF Told(c) THEN Append(sout, Msg("disconnect", chan[c], 0)) ELSE sout
        /\ Gone(c, K, inbox)
        /\ UNCHANGED <<sends, fd, chan, reg, last, sin, emulator, crashed>>
    BY <1>1, <1>2, <1>3 DEF ClientHup, Of, Gone
  <1>5. c \in Clients /\ i \in 1 .. Len(hooks) /\ i # 1 /\ Alive(c) /\ Served(c)
    BY <1>1, <1>4, TurnIs
  <1>6. QemudTypeOK /\ Structure /\ SerialLine /\ Tidy
    BY DEF IInv
  <1>7. Begun(hs) /\ 1 \in 1 .. Len(hooks) /\ hs[1].pend = hooks[1].pend
    <2>1. 1 \in 1 .. Len(hooks) /\ hooks \in Seq(Hooks)
      BY <1>6, OnlySerial DEF QemudTypeOK
    <2>2. SetPend(hooks, hs, i, {})
      BY <1>2 DEF SetPend
    <2>3. PendSet(hooks, hs, i, {})
      BY <1>5, <2>1, <2>2, PendIs
    <2> QED BY <1>5, <2>1, <2>3 DEF PendSet, Begun, Quieted
  <1>8. /\ Quieted(K) /\ K[1].pend = hs[1].pend
        /\ K[1].wanted = IF Told(c) THEN Watching(hs, sout, 1) ELSE hs[1].wanted
    BY <1>3, <1>6, <1>7, SerialWatched DEF Begun
  <1>9. inbox \in [Clients -> Seq({"short", "long"})]
    BY <1>6 DEF QemudTypeOK
  <1>10. /\ Structure' /\ hooks' \in Seq(Hooks)
         /\ hooks'[1].pend = K[1].pend /\ hooks'[1].wanted = K[1].wanted
         /\ fh' \in [Clients -> {"none", "active", "closing", "freed"}]
         /\ out' \in [Clients -> Seq(Packets)] /\ got' \in [Clients -> Seq(Packets)]
         /\ sock' \in [Clients -> {"none", "up", "hung", "cut"}]
         /\ inbox' \in [Clients -> Seq({"short", "long"})]
         /\ obj' \in [Clients -> {"none", "live", "freed"}]
         /\ \A d \in Clients : /\ fh'[d] = "none" => out'[d] = <<>>
                               /\ obj'[d] = "live" => fh'[d] = "active"
    BY <1>4, <1>5, <1>6, <1>8, <1>9, FreeKeeps
  <1>11. sout' \in Seq(Messages) /\ (Told(c) => sout' # <<>>)
    <2>1. sout \in Seq(Messages) /\ chan[c] \in Channels \cup {NoChannel}
      BY <1>5, <1>6 DEF QemudTypeOK, Messages
    <2>2. CASE Told(c)
      <3>1. chan[c] \in Channels
        BY <2>1, <2>2 DEF Told, NoChannel
      <3>2. Msg("disconnect", chan[c], 0) \in Messages
        BY <3>1 DEF Msg, Messages
      <3> QED BY <1>4, <2>1, <2>2, <3>2, AppendProperties
    <2> QED BY <1>4, <2>1, <2>2
  <1>12. QemudTypeOK'
    BY <1>4, <1>6, <1>10, <1>11 DEF QemudTypeOK, emulator, Messages
  <1>13. SerialLine'
    <2>1. hooks'[1].pend = hooks[1].pend /\ hs[1].wanted = hooks[1].wanted
      BY <1>7, <1>8, <1>10 DEF Begun
    <2>2. CASE Told(c)
      BY <1>4, <1>6, <1>8, <1>10, <1>11, <2>1, <2>2 DEF SerialLine, Watching
    <2>3. CASE ~Told(c)
      BY <1>4, <1>6, <1>8, <1>10, <2>1, <2>3 DEF SerialLine
    <2> QED BY <2>2, <2>3
  <1>14. Tidy'
    BY <1>4, <1>6, <1>10 DEF Tidy
  <1> QED BY <1>10, <1>12, <1>13, <1>14 DEF IInv

\* EPOLLOUT of a client's hook keeps the invariant.
LEMMA ClientOutKeeps ==
  ASSUME IInv, NEW i \in DOMAIN hooks, ClientOut(i)
  PROVE  IInv'
  <1>1. PICK c : c = Of(i)
    OBVIOUS
  <1>2. PICK hs : hs = Handled(i, "out")
    OBVIOUS
  <1>3. /\ Turn(i) /\ i > 2 /\ fh[c] # "freed" /\ out[c] # <<>>
        /\ got' = [got EXCEPT ![c] = Append(@, Head(out[c]))]
        /\ out' = [out EXCEPT ![c] = Tail(@)]
        /\ hooks' = IF Len(out[c]) = 1 THEN LooperDisable(hs, fd[c], "out") ELSE hs
        /\ UNCHANGED <<sock, inbox, sends, fh, fd, client, serial, emulator, crashed>>
    BY <1>1, <1>2 DEF ClientOut, Of
  <1>4. c \in Clients /\ i \in 1 .. Len(hooks) /\ i # 1 /\ Alive(c) /\ Served(c)
    BY <1>1, <1>3, TurnIs
  <1>5. QemudTypeOK /\ Structure /\ SerialLine /\ Tidy
    BY DEF IInv
  <1>6. Begun(hs) /\ 1 \in 1 .. Len(hooks)
    <2>1. 1 \in 1 .. Len(hooks)
      BY <1>5, OnlySerial
    <2> QED BY <1>2, <1>4, <1>5, <2>1, HandledIs DEF Begun
  <1>7. Handler /\ hooks'[1].pend = hs[1].pend /\ hooks'[1].wanted = hs[1].wanted
    BY <1>3, <1>4, <1>5, <1>6, WrittenStructure DEF Begun
  <1>8. Structure' /\ hooks' \in Seq(Hooks)
    BY <1>3, <1>5, <1>7, HandlerKeeps DEF Handler, Frame, QemudTypeOK
  <1>9. got' \in [Clients -> Seq(Packets)] /\ out' \in [Clients -> Seq(Packets)]
    <2>1. PICK q \in Seq(Packets) : q = out[c]
      BY <1>4, <1>5 DEF QemudTypeOK
    <2>2. Head(q) \in Packets /\ Tail(q) \in Seq(Packets)
      BY <1>3, <2>1, HeadTailProperties
    <2>3. Append(got[c], Head(q)) \in Seq(Packets)
      BY <1>4, <1>5, <2>2, AppendProperties DEF QemudTypeOK
    <2> QED BY <1>3, <1>5, <2>1, <2>2, <2>3 DEF QemudTypeOK
  <1>10. QemudTypeOK'
    BY <1>3, <1>5, <1>8, <1>9 DEF QemudTypeOK, client, serial, emulator
  <1>11. hooks'[1].wanted = hooks[1].wanted /\ hooks'[1].pend \subseteq hooks[1].pend
    BY <1>6, <1>7 DEF Begun, Quieted
  <1>12. SerialLine'
    BY <1>3, <1>5, <1>11 DEF SerialLine, serial
  <1>13. Tidy'
    BY <1>3, <1>4, <1>5 DEF Tidy, client, QemudTypeOK, Alive
  <1> QED BY <1>8, <1>10, <1>12, <1>13 DEF IInv

\* The structure is about the hooks and the handlers only.
LEMMA SameStructure ==
  ASSUME Structure, UNCHANGED <<hooks, handler>>
  PROVE  Structure'
  <1>1. Shape /\ Owned /\ OneHook /\ Hooked /\ Separate /\ Twins
    BY DEF Structure
  <1>2. hooks' = hooks /\ fh' = fh /\ fd' = fd /\ out' = out
    BY DEF handler
  <1>3. Shape'
    BY <1>1, <1>2 DEF Shape
  <1>4. Owned'
    BY <1>1, <1>2 DEF Owned, Of, Indices
  <1>5. OneHook'
    BY <1>1, <1>2 DEF OneHook, Of, Indices
  <1>6. Hooked'
    BY <1>1, <1>2 DEF Hooked, Of, Indices, Alive
  <1>7. Separate'
    BY <1>1, <1>2 DEF Separate, Alive
  <1>8. Twins'
    BY <1>1, <1>2 DEF Twins, Of, Indices, Alive
  <1> QED BY <1>3, <1>4, <1>5, <1>6, <1>7, <1>8 DEF Structure

\* A short write, a write that raises SIGPIPE and the use of a freed handler keep the
\* invariant.
LEMMA ShortWriteKeeps ==
  ASSUME IInv, NEW i \in DOMAIN hooks, ShortWrite(i) \/ Sigpipe(i) \/ UseFreed(i)
  PROVE  IInv'
  <1>1. CASE ShortWrite(i)
    <2>1. PICK hs : hs = Handled(i, "out")
      OBVIOUS
    <2>2. /\ Turn(i) /\ i > 2 /\ hooks' = hs
          /\ UNCHANGED <<peer, handler, client, serial, emulator, crashed>>
      BY <1>1, <2>1 DEF ShortWrite
    <2>3. i \in 1 .. Len(hooks) /\ i # 1
      BY <2>2, TurnIs
    <2>4. 1 \in 1 .. Len(hooks)
      BY OnlySerial DEF IInv
    <2>5. Begun(hs)
      BY <2>1, <2>3, <2>4, HandledIs DEF IInv, Begun
    <2> QED BY <2>2, <2>5, QuietKeeps
  <1>2. CASE Sigpipe(i) \/ UseFreed(i)
    <2>1. crashed' = TRUE /\ UNCHANGED <<hooks, peer, handler, client, serial, emulator>>
      BY <1>2 DEF Sigpipe, UseFreed
    <2>2. Structure'
      BY <2>1, SameStructure DEF IInv
    <2>3. QemudTypeOK'
      BY <2>1 DEF IInv, QemudTypeOK, peer, handler, client, serial, emulator
    <2>4. SerialLine' /\ Tidy'
      BY <2>1 DEF IInv, SerialLine, Tidy, serial, handler, client
    <2> QED BY <2>2, <2>3, <2>4 DEF IInv
  <1> QED BY <1>1, <1>2

-----------------------------------------------------------------------------
(* The serial line, the emulator and the clients *)

Answers == [op : {"ok", "ko", "refusal", "disconnect", "data"}, chan : Channels, n : 0 .. MaxData]

\* What the emulator and the clients do leaves the daemon's state alone.
LEMMA OutsideKeeps ==
  ASSUME IInv, UNCHANGED <<hooks, handler, client, sout, crashed>>, sin \in Seq(Answers),
         sin' \in Seq(Answers), sin # <<>> => sin' # <<>>,
         sock' \in [Clients -> {"none", "up", "hung", "cut"}],
         inbox' \in [Clients -> Seq({"short", "long"})], got' = got,
         sends' \in [Clients -> Nat],
         emu' \in [Channels -> {"closed", "asked", "open", "refused"}], sent' \in [Channels -> 0 .. MaxData]
  PROVE  IInv'
  <1>1. Structure'
    BY SameStructure DEF IInv
  <1>2. QemudTypeOK'
    BY DEF IInv, QemudTypeOK, handler, client, Answers
  <1>3. SerialLine' /\ Tidy'
    BY DEF IInv, SerialLine, Tidy, handler, client
  <1> QED BY <1>1, <1>2, <1>3 DEF IInv

\* The actions of the emulator keep the invariant.
LEMMA EmulatorKeeps ==
  ASSUME IInv, NEW k \in Channels,
         EmulatorAnswers(k) \/ EmulatorData(k) \/ EmulatorDisconnects(k)
  PROVE  IInv'
  <1>1. /\ sin \in Seq(Answers) /\ QemudTypeOK /\ MaxData \in Nat
        /\ emu \in [Channels -> {"closed", "asked", "open", "refused"}]
        /\ sent \in [Channels -> 0 .. MaxData]
    BY BoundsAssumption DEF IInv, QemudTypeOK, Answers
  <1>2. \A m \in Answers : EmulatorSends(m) => sin' \in Seq(Answers) /\ sin' # <<>>
    BY <1>1, AppendProperties DEF EmulatorSends
  <1>3. ASSUME NEW m \in Answers, EmulatorSends(m), UNCHANGED <<hooks, peer, handler, client, sout, crashed>>,
               emu' \in [Channels -> {"closed", "asked", "open", "refused"}],
               sent' \in [Channels -> 0 .. MaxData]
        PROVE  IInv'
    BY <1>1, <1>2, <1>3, OutsideKeeps DEF peer, QemudTypeOK
  <1>4. CASE EmulatorAnswers(k)
    <2>1. /\ Msg("ok", k, 0) \in Answers /\ Msg("ko", k, 0) \in Answers
          /\ Msg("refusal", k, 0) \in Answers
      BY <1>1 DEF Msg, Answers
    <2>2. /\ \/ EmulatorSends(Msg("ok", k, 0)) \/ EmulatorSends(Msg("ko", k, 0))
             \/ EmulatorSends(Msg("refusal", k, 0))
          /\ emu' \in [Channels -> {"closed", "asked", "open", "refused"}] /\ sent' = sent
      BY <1>1, <1>4 DEF EmulatorAnswers
    <2> QED BY <1>1, <1>3, <1>4, <2>1, <2>2 DEF EmulatorAnswers
  <1>5. CASE EmulatorData(k)
    <2>1. sent[k] + 1 \in 0 .. MaxData
      BY <1>1, <1>5 DEF EmulatorData
    <2>2. Msg("data", k, sent[k] + 1) \in Answers /\ sent' \in [Channels -> 0 .. MaxData]
      BY <1>1, <1>5, <2>1 DEF Msg, Answers, EmulatorData
    <2> QED BY <1>1, <1>3, <1>5, <2>2 DEF EmulatorData
  <1>6. CASE EmulatorDisconnects(k)
    <2>1. Msg("disconnect", k, 0) \in Answers
      BY <1>1 DEF Msg, Answers
    <2>2. emu' \in [Channels -> {"closed", "asked", "open", "refused"}]
      BY <1>1, <1>6 DEF EmulatorDisconnects
    <2> QED BY <1>1, <1>3, <1>6, <2>1, <2>2 DEF EmulatorDisconnects
  <1> QED BY <1>4, <1>5, <1>6

\* The actions of the clients keep the invariant.
LEMMA PeerKeeps ==
  ASSUME IInv, NEW c \in Clients,
         Connect(c) \/ HangUp(c) \/ \E p \in {"short", "long"} : Send(c, p)
  PROVE  IInv'
  <1>1. /\ sin \in Seq(Answers) /\ QemudTypeOK
    BY DEF IInv, QemudTypeOK, Answers
  <1>2. CASE Connect(c) \/ HangUp(c)
    <2>1. /\ sock' \in [Clients -> {"none", "up", "hung", "cut"}]
          /\ UNCHANGED <<hooks, inbox, got, sends, handler, client, serial, emulator, crashed>>
      BY <1>1, <1>2 DEF Connect, HangUp, QemudTypeOK
    <2> QED BY <1>1, <2>1, OutsideKeeps DEF serial, emulator, QemudTypeOK
  <1>3. ASSUME NEW p \in {"short", "long"}, Send(c, p) PROVE IInv'
    <2>1. Append(inbox[c], p) \in Seq({"short", "long"})
      BY <1>1, AppendProperties DEF QemudTypeOK
    <2>2. inbox' \in [Clients -> Seq({"short", "long"})]
      BY <1>1, <1>3, <2>1 DEF Send, QemudTypeOK
    <2>3. sends' \in [Clients -> Nat]
      BY <1>1, <1>3 DEF Send, QemudTypeOK
    <2>4. UNCHANGED <<hooks, sock, got, handler, client, serial, emulator, crashed>>
      BY <1>3 DEF Send
    <2> QED BY <1>1, <2>2, <2>3, <2>4, OutsideKeeps DEF serial, emulator, QemudTypeOK
  <1> QED BY <1>2, <1>3

\* A packet is queued for a client by the serial line's handler.
LEMMA EnqueueKeeps ==
  ASSUME QemudTypeOK, Structure, Tidy, NEW hs, Begun(hs), NEW c \in Clients, obj[c] = "live",
         hooks[1].pend # {}, NEW p \in Packets, Enqueue(c, p, hs), fh' = fh, fd' = fd
  PROVE  /\ Structure' /\ hooks' \in Seq(Hooks) /\ out' \in [Clients -> Seq(Packets)]
         /\ hooks'[1].pend = hs[1].pend /\ hooks'[1].wanted = hs[1].wanted
         /\ \A d \in Clients : fh'[d] = "none" => out'[d] = <<>>
  <1>1. Alive(c) /\ fh[c] = "active"
    BY DEF Tidy, Alive
  <1>2. Handler /\ hooks'[1].pend = hs[1].pend /\ hooks'[1].wanted = hs[1].wanted
    BY <1>1, EnqueueStructure DEF Begun
  <1>3. Structure' /\ hooks' \in Seq(Hooks)
    BY <1>2, HandlerKeeps DEF Handler, Frame, QemudTypeOK
  <1>4. out' = [out EXCEPT ![c] = Append(@, p)] /\ Append(out[c], p) \in Seq(Packets)
    BY AppendProperties DEF Enqueue, QemudTypeOK
  <1>5. out' \in [Clients -> Seq(Packets)] /\ \A d \in Clients \ {c} : out'[d] = out[d]
    BY <1>4 DEF QemudTypeOK
  <1> QED BY <1>1, <1>2, <1>3, <1>5 DEF Tidy

\* A message from the emulator keeps the invariant.
LEMMA SerialInKeeps ==
  ASSUME IInv, SerialIn
  PROVE  IInv'
  <1>1. QemudTypeOK /\ Structure /\ SerialLine /\ Tidy
    BY DEF IInv
  <1>2. PICK hs : hs = Handled(1, "in")
    OBVIOUS
  <1>3. PICK m : m = Head(sin)
    OBVIOUS
  <1>4. /\ Turn(1) /\ "in" \in hooks[1].pend /\ sin' = Tail(sin)
        /\ UNCHANGED <<sends, sout, emulator, crashed>>
        /\ \/ hooks' = hs /\ UNCHANGED <<handler, client, sock, inbox, got>>
           \/ \E c \in Clients : /\ obj[c] = "live" /\ chan[c] = m.chan
                 /\ \/ Registration(c, TRUE, hs)
                    \/ Registration(c, FALSE, hs)
                    \/ ClientFree(c, hs, inbox) /\ UNCHANGED <<fd, chan, reg, last>>
                    \/ Enqueue(c, m.n, hs) /\ UNCHANGED <<fh, fd, client, sock, inbox, got>>
    BY <1>2, <1>3 DEF SerialIn
  <1>5. m \in Answers /\ sin' \in Seq(Answers)
    BY <1>1, <1>3, <1>4, HeadTailProperties DEF SerialLine, QemudTypeOK, Answers
  <1>6. 1 \in 1 .. Len(hooks) /\ hooks[1].pend # {}
    BY <1>1, <1>4, OnlySerial
  <1>7. Begun(hs) /\ hs[1].pend = hooks[1].pend \ {"in"}
    BY <1>1, <1>2, <1>6, HandledIs DEF Begun
  <1>8. ASSUME hooks'[1].pend = hs[1].pend, hooks'[1].wanted = hs[1].wanted PROVE SerialLine'
    BY <1>1, <1>4, <1>7, <1>8 DEF SerialLine, Begun
  <1>9. CASE hooks' = hs /\ UNCHANGED <<handler, client, sock, inbox, got>>
    <2>1. Handler
      BY <1>1, <1>7, <1>9, QuietStructure DEF handler, Begun
    <2>2. Structure' /\ hooks' \in Seq(Hooks)
      BY <1>1, <1>9, <2>1, HandlerKeeps DEF Handler, Frame, QemudTypeOK, handler
    <2>3. QemudTypeOK'
      BY <1>1, <1>4, <1>5, <1>9, <2>2 DEF QemudTypeOK, handler, client, emulator, Answers
    <2>4. SerialLine'
      BY <1>8, <1>9
    <2>5. Tidy'
      BY <1>1, <1>9 DEF Tidy, handler, client
    <2> QED BY <2>2, <2>3, <2>4, <2>5 DEF IInv
  <1>10. ASSUME NEW c \in Clients, obj[c] = "live", NEW p \in Packets, Enqueue(c, p, hs),
                UNCHANGED <<fh, fd, obj, last, sock, inbox, got>>,
                reg' \in [Clients -> BOOLEAN], chan' \in [Clients -> Channels \cup {NoChannel}],
                \A d \in Clients : reg'[d] => chan'[d] \in Channels
         PROVE  IInv'
    <2>1. /\ Structure' /\ hooks' \in Seq(Hooks) /\ out' \in [Clients -> Seq(Packets)]
          /\ hooks'[1].pend = hs[1].pend /\ hooks'[1].wanted = hs[1].wanted
          /\ \A d \in Clients : fh'[d] = "none" => out'[d] = <<>>
      BY <1>1, <1>6, <1>7, <1>10, EnqueueKeeps
    <2>2. QemudTypeOK'
      BY <1>1, <1>4, <1>5, <1>10, <2>1 DEF QemudTypeOK, emulator, Answers
    <2>3. SerialLine'
      BY <1>8, <2>1
    <2>4. Tidy'
      BY <1>1, <1>10, <2>1 DEF Tidy
    <2> QED BY <2>1, <2>2, <2>3, <2>4 DEF IInv
  <1>11. OK \in Packets /\ KO \in Packets /\ m.n \in Packets /\ m.chan \in Channels
    BY <1>5, BoundsAssumption DEF Packets, OK, KO, Answers
  <1>12. ASSUME NEW c \in Clients, obj[c] = "live", chan[c] = m.chan, NEW ok \in BOOLEAN,
                Registration(c, ok, hs)
         PROVE  IInv'
    <2>1. PICK p \in Packets : p = IF ok THEN OK ELSE KO
      BY <1>11
    <2>2. Enqueue(c, p, hs) /\ UNCHANGED <<fh, fd, obj, last, sock, inbox, got>>
      BY <1>12, <2>1 DEF Registration
    <2>3. /\ reg' \in [Clients -> BOOLEAN] /\ reg'[c] = ok
          /\ \A d \in Clients \ {c} : reg'[d] = reg[d]
      BY <1>1, <1>12 DEF Registration, QemudTypeOK
    <2>4. CASE ok = TRUE
      <3>1. chan' = chan
        BY <1>12, <2>4 DEF Registration
      <3>2. \A d \in Clients : reg'[d] => chan'[d] \in Channels
        BY <1>1, <1>11, <1>12, <2>3, <3>1 DEF Tidy
      <3> QED BY <1>1, <1>10, <1>12, <2>2, <2>3, <3>1, <3>2 DEF QemudTypeOK
    <2>5. CASE ok = FALSE
      <3>1. chan' = [chan EXCEPT ![c] = NoChannel]
        BY <1>12, <2>5 DEF Registration
      <3>2. chan' \in [Clients -> Channels \cup {NoChannel}] /\ \A d \in Clients \ {c} : chan'[d] = chan[d]
        BY <1>1, <3>1 DEF QemudTypeOK
      <3>3. \A d \in Clients : reg'[d] => chan'[d] \in Channels
        BY <1>1, <2>3, <2>5, <3>2 DEF Tidy
      <3> QED BY <1>10, <1>12, <2>2, <2>3, <3>2, <3>3
    <2> QED BY <2>4, <2>5
  <1>13. ASSUME NEW c \in Clients, obj[c] = "live", ClientFree(c, hs, inbox),
                UNCHANGED <<fd, chan, reg, last>>
         PROVE  IInv'
    <2>1. Alive(c)
      BY <1>1, <1>13 DEF Tidy, Alive
    <2>2. Served(c)
      BY <1>1, <1>6, <2>1, ServedIs
    <2>3. Gone(c, hs, inbox) /\ inbox \in [Clients -> Seq({"short", "long"})]
      BY <1>1, <1>13 DEF Gone, ClientFree, QemudTypeOK
    <2>4. /\ Structure' /\ hooks' \in Seq(Hooks)
          /\ hooks'[1].pend = hs[1].pend /\ hooks'[1].wanted = hs[1].wanted
          /\ fh' \in [Clients -> {"none", "active", "closing", "freed"}]
          /\ out' \in [Clients -> Seq(Packets)] /\ got' \in [Clients -> Seq(Packets)]
          /\ sock' \in [Clients -> {"none", "up", "hung", "cut"}]
          /\ inbox' \in [Clients -> Seq({"short", "long"})]
          /\ obj' \in [Clients -> {"none", "live", "freed"}]
          /\ \A d \in Clients : /\ fh'[d] = "none" => out'[d] = <<>>
                                /\ obj'[d] = "live" => fh'[d] = "active"
      BY <1>1, <1>7, <1>13, <2>1, <2>2, <2>3, FreeKeeps DEF Begun
    <2>5. QemudTypeOK'
      BY <1>1, <1>4, <1>5, <1>13, <2>4 DEF QemudTypeOK, emulator, Answers
    <2>6. SerialLine'
      BY <1>8, <2>4
    <2>7. Tidy'
      BY <1>1, <1>13, <2>4 DEF Tidy
    <2> QED BY <2>4, <2>5, <2>6, <2>7 DEF IInv
  <1>14. ASSUME NEW c \in Clients, obj[c] = "live", Enqueue(c, m.n, hs),
                UNCHANGED <<fh, fd, client, sock, inbox, got>>
         PROVE  IInv'
    <2>1. PICK p \in Packets : p = m.n
      BY <1>11
    <2>2. Enqueue(c, p, hs)
      BY <1>14, <2>1
    <2> QED BY <1>1, <1>10, <1>14, <2>2 DEF QemudTypeOK, client, Tidy
  <1> QED BY <1>4, <1>9, <1>12, <1>13, <1>14

\* A message is written to the serial line.
LEMMA SerialOutKeeps ==
  ASSUME IInv, SerialOut
  PROVE  IInv'
  <1>1. QemudTypeOK /\ Structure /\ SerialLine /\ Tidy
    BY DEF IInv
  <1>2. PICK hs : hs = Handled(1, "out")
    OBVIOUS
  <1>3. PICK m : m = Head(sout)
    OBVIOUS
  <1>4. /\ Turn(1) /\ hooks[1].pend = {"out"} /\ sout' = Tail(sout)
        /\ UNCHANGED <<peer, handler, client, sin, crashed>>
        /\ emu' = CASE m.op = "connect"    -> [emu EXCEPT ![m.chan] = "asked"]
                    [] m.op = "disconnect" -> [emu EXCEPT ![m.chan] = "closed"]
                    [] OTHER               -> emu
        /\ sent' = IF m.op = "connect" THEN [sent EXCEPT ![m.chan] = 0] ELSE sent
        /\ hooks' = IF Len(sout) = 1 THEN LooperDisable(hs, 1, "out") ELSE hs
    BY <1>2, <1>3 DEF SerialOut
  <1>5. PICK q \in Seq(Messages) : q = sout
    BY <1>1 DEF QemudTypeOK, Messages
  <1>6. q # <<>> /\ Len(q) \in Nat \ {0}
    BY <1>1, <1>4, <1>5, EmptySeq DEF SerialLine
  <1>7. m \in Messages /\ Tail(q) \in Seq(Messages) /\ Len(Tail(q)) = Len(q) - 1
    BY <1>3, <1>5, <1>6, HeadTailProperties
  <1>8. Tail(q) = <<>> <=> Len(q) = 1
    <2>1. PICK t \in Seq(Messages) : t = Tail(q)
      BY <1>7
    <2>2. t = <<>> <=> Len(t) = 0
      BY <2>1, EmptySeq
    <2> QED BY <1>6, <1>7, <2>1, <2>2
  <1>9. Only(hooks, 1, 1) /\ 1 \in 1 .. Len(hooks)
    BY <1>1, OnlySerial
  <1>10. Begun(hs) /\ hs[1].pend = {}
    <2>1. Begun(hs) /\ hs[1].pend = hooks[1].pend \ {"out"}
      BY <1>1, <1>2, <1>9, HandledIs DEF Begun
    <2> QED BY <1>4, <2>1
  <1>11. PICK K : K = hooks'
    OBVIOUS
  <1>12. /\ Quieted(K) /\ K[1].pend = {}
         /\ K[1].wanted = IF Len(q) = 1 THEN hs[1].wanted \ {"out"} ELSE hs[1].wanted
    <2>1. CASE Len(q) = 1
      <3>1. K = LooperDisable(hs, 1, "out")
        BY <1>4, <1>5, <1>11, <2>1
      <3>2. Only(hs, 1, 1)
        BY <1>9, <1>10, OnlyFrame DEF Begun, Quieted
      <3>3. WantedSet(hs, K, 1, hs[1].wanted \ {"out"})
        BY <3>1, <3>2, LooperIs
      <3> QED BY <1>9, <1>10, <2>1, <3>3 DEF WantedSet, Begun, Quieted, Frame
    <2>2. CASE Len(q) # 1
      BY <1>4, <1>5, <1>10, <1>11, <2>2 DEF Begun
    <2> QED BY <2>1, <2>2
  <1>13. Handler
    BY <1>1, <1>4, <1>11, <1>12, QuietStructure DEF handler
  <1>14. Structure' /\ hooks' \in Seq(Hooks)
    BY <1>1, <1>4, <1>13, HandlerKeeps DEF Handler, Frame, QemudTypeOK, handler
  <1>15. emu' \in [Channels -> {"closed", "asked", "open", "refused"}] /\ sent' \in [Channels -> 0 .. MaxData]
    <2>1. m.chan \in Channels /\ m.op \in {"connect", "disconnect", "data"}
      BY <1>7 DEF Messages
    <2>2. 0 \in 0 .. MaxData
      BY BoundsAssumption
    <2> QED BY <1>1, <1>4, <2>1, <2>2 DEF QemudTypeOK
  <1>16. QemudTypeOK'
    BY <1>1, <1>4, <1>5, <1>7, <1>14, <1>15 DEF QemudTypeOK, peer, handler, client, Messages
  <1>17. SerialLine'
    <2>1. "out" \in hs[1].wanted
      BY <1>1, <1>5, <1>6, <1>10 DEF SerialLine, Begun
    <2>2. sout' # <<>> <=> "out" \in hooks'[1].wanted
      BY <1>4, <1>5, <1>8, <1>11, <1>12, <2>1
    <2>3. hooks'[1].pend = {}
      BY <1>11, <1>12
    <2> QED BY <2>2, <2>3 DEF SerialLine
  <1>18. Tidy'
    BY <1>1, <1>4 DEF Tidy, handler, client
  <1> QED BY <1>14, <1>16, <1>17, <1>18 DEF IInv

-----------------------------------------------------------------------------
(* The looper's own steps *)

\* Every hook is marked with the events epoll reports for it; when none is
\* closing, no two have the same descriptor.
LEMMA EpollWaitKeeps ==
  ASSUME IInv, EpollWait
  PROVE  IInv'
  <1>1. /\ QemudTypeOK /\ Structure /\ SerialLine /\ Tidy
        /\ Shape /\ Owned /\ OneHook /\ Hooked /\ Separate
    BY DEF IInv, Structure
  <1>2. /\ hooks \in Seq(Hooks) /\ Len(hooks) \in Nat /\ DOMAIN hooks = 1 .. Len(hooks)
        /\ \A j \in 1 .. Len(hooks) : hooks[j] \in Hooks
    BY <1>1, LenProperties, ElementOfSeq DEF QemudTypeOK
  <1>3. /\ \A j \in DOMAIN hooks : ~hooks[j].closing
        /\ hooks' = [j \in DOMAIN hooks |-> [hooks[j] EXCEPT !.pend = Ready(hooks[j])]]
        /\ UNCHANGED <<peer, handler, client, serial, emulator, crashed>>
    BY DEF EpollWait, InWait
  <1>4. \A h \in Hooks : Ready(h) \in SUBSET {"in", "hup", "out"}
    BY DEF Ready
  <1>5. ASSUME NEW j \in 1 .. Len(hooks)
        PROVE  /\ hooks'[j] \in Hooks /\ hooks'[j].who = hooks[j].who /\ hooks'[j].fd = hooks[j].fd
               /\ hooks'[j].wanted = hooks[j].wanted /\ hooks'[j].closing = hooks[j].closing
               /\ hooks'[j].pend = Ready(hooks[j])
    <2>1. PICK h \in Hooks : h = hooks[j]
      BY <1>2
    <2>2. PICK P \in SUBSET {"in", "hup", "out"} : P = Ready(hooks[j])
      BY <1>4, <2>1
    <2>3. hooks'[j] = [h EXCEPT !.pend = P]
      BY <1>2, <1>3, <2>1, <2>2
    <2>4. [h EXCEPT !.pend = P] \in Hooks
      BY HookFields
    <2>5. LET k == [h EXCEPT !.pend = P] IN
            k.who = h.who /\ k.fd = h.fd /\ k.wanted = h.wanted /\ k.closing = h.closing /\ k.pend = P
      BY DEF Hooks
    <2> QED BY <2>1, <2>2, <2>3, <2>4, <2>5
  <1>6. hooks' \in Seq(Hooks) /\ Len(hooks') = Len(hooks)
    <2>1. PICK n \in Nat : n = Len(hooks)
      BY <1>2
    <2>2. hooks' \in [1 .. n -> Hooks]
      BY <1>2, <1>3, <1>5, <2>1
    <2> QED BY <2>1, <2>2, IsASeq, LenProperties
  <1>7. Indices' = Indices /\ \A j \in Indices : j \in 1 .. Len(hooks) /\ Of(j)' = Of(j)
    BY <1>2, <1>5, <1>6 DEF Indices, Of
  <1>8. fh' = fh /\ fd' = fd /\ out' = out
    BY <1>3 DEF handler
  <1>9. \A j \in Indices : Of(j) \in Clients /\ hooks[j].fd = fd[Of(j)] /\ Alive(Of(j))
    BY <1>1, <1>2, <1>3, <1>7 DEF Owned, Alive, QemudTypeOK
  <1>10. 1 \in 1 .. Len(hooks) /\ 2 \in 1 .. Len(hooks)
    BY <1>1, OnlySerial
  <1>11. Shape'
    BY <1>1, <1>5, <1>6, <1>10 DEF Shape
  <1>12. Owned'
    <2> SUFFICES ASSUME NEW j \in Indices
                 PROVE  /\ Of(j) \in Clients /\ hooks'[j].fd = fd[Of(j)] /\ fd[Of(j)] > 2
                        /\ fh[Of(j)] # "none" /\ (hooks'[j].closing <=> fh[Of(j)] = "freed")
                        /\ out[Of(j)] # <<>> => "out" \in hooks'[j].wanted
      BY <1>7, <1>8 DEF Owned
    <2> QED BY <1>1, <1>5, <1>7 DEF Owned
  <1>13. OneHook' /\ Hooked' /\ Separate'
    BY <1>1, <1>7, <1>8 DEF OneHook, Hooked, Separate, Alive
  <1>14. Twins'
    <2> SUFFICES ASSUME NEW i \in Indices, NEW j \in Indices, i # j, hooks'[i].fd = hooks'[j].fd
                 PROVE  FALSE
      BY <1>7 DEF Twins
    <2>1. fd[Of(i)] = fd[Of(j)]
      BY <1>5, <1>7, <1>9
    <2>2. Of(i) = Of(j)
      BY <1>1, <1>9, <2>1 DEF Separate
    <2> QED BY <1>1, <2>2 DEF OneHook
  <1>15. QemudTypeOK'
    BY <1>1, <1>3, <1>6 DEF QemudTypeOK, peer, handler, client, serial, emulator
  <1>16. SerialLine'
    <2>1. hooks[1].who = Serial
      BY <1>1 DEF Shape
    <2>2. Ready(hooks[1]) = (IF sin # <<>> THEN {"in"} ELSE {}) \cup (hooks[1].wanted \cap {"out"})
      BY <2>1, OwnersAssumption DEF Ready
    <2>3. hooks'[1].pend = Ready(hooks[1]) /\ hooks'[1].wanted = hooks[1].wanted
      BY <1>5, <1>10
    <2>4. sin' = sin /\ sout' = sout
      BY <1>3 DEF serial
    <2> QED BY <1>1, <2>2, <2>3, <2>4 DEF SerialLine
  <1>17. Tidy'
    BY <1>1, <1>3 DEF Tidy, handler, client
  <1> QED BY <1>11, <1>12, <1>13, <1>14, <1>15, <1>16, <1>17 DEF IInv, Structure

\* The last hook takes the place of one that was deleted.
LEMMA LoopEndsKeeps ==
  ASSUME IInv, LoopEnds
  PROVE  IInv'
  <1>1. /\ QemudTypeOK /\ Structure /\ SerialLine /\ Tidy
        /\ Shape /\ Owned /\ OneHook /\ Hooked /\ Separate
    BY DEF IInv, Structure
  <1>2. hooks \in Seq(Hooks) /\ DOMAIN hooks = 1 .. Len(hooks) /\ Len(hooks) \in Nat
    BY <1>1, LenProperties DEF QemudTypeOK
  <1>3. PICK n \in Nat : n = Len(hooks)
    BY <1>2
  <1>4. PICK i \in 1 .. n :
            /\ hooks[i].closing
            /\ hooks' = SubSeq([hooks EXCEPT ![i] = hooks[Len(hooks)]], 1, Len(hooks) - 1)
    BY <1>2, <1>3 DEF LoopEnds
  <1>5. /\ Called /\ UNCHANGED <<peer, handler, client, serial, emulator, crashed>>
    BY DEF LoopEnds
  <1>6. i # 1 /\ i # 2 /\ i \in Indices /\ n >= 3 /\ n \in 1 .. Len(hooks)
    BY <1>1, <1>3, <1>4 DEF Shape, Indices
  <1>7. Of(i) \in Clients /\ fh[Of(i)] = "freed"
    BY <1>1, <1>4, <1>6 DEF Owned
  <1>8. PICK H : H = [hooks EXCEPT ![i] = hooks[Len(hooks)]]
    OBVIOUS
  <1>9. hooks[n] \in Hooks
    BY <1>2, <1>6, ElementOfSeq
  <1>10. Swapped(hooks, H, i, hooks[n])
    BY <1>3, <1>8 DEF Swapped
  <1>11. /\ H \in Seq(Hooks) /\ Len(H) = n /\ H[i] = hooks[n]
         /\ \A j \in 1 .. n : j # i => H[j] = hooks[j]
    BY <1>2, <1>3, <1>4, <1>9, <1>10, Replaced
  <1>12. \A j \in 1 .. n - 1 : H[j] \in Hooks
    BY <1>11, ElementOfSeq
  <1>13. hooks' = SubSeq(H, 1, n - 1)
    BY <1>3, <1>4, <1>8
  <1>14. /\ hooks' \in Seq(Hooks) /\ Len(hooks') = n - 1
         /\ \A j \in 1 .. n - 1 : hooks'[j] = H[j]
    <2>1. /\ SubSeq(H, 1, n - 1) \in Seq(Hooks)
          /\ Len(SubSeq(H, 1, n - 1)) = IF 1 <= n - 1 THEN (n - 1) - 1 + 1 ELSE 0
          /\ \A j \in 1 .. (n - 1) - 1 + 1 : SubSeq(H, 1, n - 1)[j] = H[1 + j - 1]
      BY <1>12, SubSeqProperties
    <2> QED BY <1>6, <1>13, <2>1
  <1> DEFINE from(j) == IF j = i THEN n ELSE j
  <1>15. Indices = 3 .. n /\ Indices' = 3 .. n - 1
    BY <1>3, <1>14 DEF Indices
  <1>16. /\ \A j \in Indices' : j \in 1 .. n - 1 /\ j \in 1 .. n
         /\ \A j \in Indices' : from(j) \in Indices /\ from(j) # i /\ from(j) \in 1 .. n
         /\ \A j, k \in Indices' : from(j) = from(k) => j = k
         /\ \A k \in Indices : k # i => \E j \in Indices' : from(j) = k
    BY <1>3, <1>6, <1>15
  <1>17. \A j \in Indices' : hooks'[j] = hooks[from(j)] /\ Of(j)' = Of(from(j))
    BY <1>11, <1>14, <1>16 DEF Of
  <1>18. hooks'[1] = hooks[1] /\ hooks'[2] = hooks[2] /\ 1 \in 1 .. n - 1 /\ 2 \in 1 .. n - 1
    BY <1>6, <1>11, <1>14
  <1> HIDE DEF from
  <1>19. fh' = fh /\ fd' = fd /\ out' = out
    BY <1>5 DEF handler
  <1>20. Shape'
    BY <1>1, <1>6, <1>14, <1>18 DEF Shape
  <1>21. Owned'
    <2> SUFFICES ASSUME NEW j \in Indices'
                 PROVE  /\ Of(j)' \in Clients /\ hooks'[j].fd = fd[Of(j)'] /\ fd[Of(j)'] > 2
                        /\ fh[Of(j)'] # "none" /\ (hooks'[j].closing <=> fh[Of(j)'] = "freed")
                        /\ out[Of(j)'] # <<>> => "out" \in hooks'[j].wanted
      BY <1>19 DEF Owned, Of
    <2>1. PICK k \in Indices : k = from(j) /\ hooks'[j] = hooks[k] /\ Of(j)' = Of(k)
      BY <1>16, <1>17
    <2> QED BY <1>1, <2>1 DEF Owned
  <1>22. OneHook'
    <2> SUFFICES ASSUME NEW j \in Indices', NEW k \in Indices', Of(j)' = Of(k)' PROVE j = k
      BY DEF OneHook
    <2>1. from(j) = from(k)
      BY <1>1, <1>16, <1>17 DEF OneHook
    <2> QED BY <1>16, <2>1
  <1>23. Hooked'
    <2> SUFFICES ASSUME NEW c \in Clients, Alive(c) PROVE \E j \in Indices' : Of(j)' = c
      BY <1>19 DEF Hooked, Alive
    <2>1. PICK k \in Indices : Of(k) = c
      BY <1>1 DEF Hooked
    <2>2. k # i
      BY <1>7, <2>1 DEF Alive
    <2> QED BY <1>16, <1>17, <2>1, <2>2
  <1>24. Separate'
    BY <1>1, <1>19 DEF Separate, Alive
  <1>25. Twins'
    <2>1. \A j \in 1 .. n : hooks[j].pend = {}
      BY <1>2, <1>3, <1>5 DEF Called
    <2>2. \A j \in Indices' : hooks'[j].pend = {}
      BY <1>16, <1>17, <2>1
    <2>3. hooks'[1].pend = {}
      BY <1>16, <1>18, <2>1, <1>6, <1>3
    <2> QED BY <2>2, <2>3 DEF Twins
  <1>26. QemudTypeOK'
    BY <1>1, <1>5, <1>14 DEF QemudTypeOK, peer, handler, client, serial, emulator
  <1>27. SerialLine'
    BY <1>1, <1>5, <1>18 DEF SerialLine, serial
  <1>28. Tidy'
    BY <1>1, <1>5 DEF Tidy, handler, client
  <1> QED BY <1>20, <1>21, <1>22, <1>23, <1>24, <1>25, <1>26, <1>27, <1>28 DEF IInv, Structure

\* A connection is accepted: the new hook is the last, and may share its
\* descriptor with the hook of a handler that was freed in this iteration.
LEMMA AcceptKeeps ==
  ASSUME IInv, NEW c \in Clients, ControlAccept(c)
  PROVE  IInv'
  <1>1. /\ QemudTypeOK /\ Structure /\ SerialLine /\ Tidy
        /\ Shape /\ Owned /\ OneHook /\ Hooked /\ Separate /\ Twins
    BY DEF IInv, Structure
  <1>2. PICK f \in 3 .. Len(hooks) + 1 :
            /\ ~Used(f) /\ fd' = [fd EXCEPT ![c] = f]
            /\ hooks' = LooperEnable(LooperAdd(Handled(2, "in"), c, f), f, "in")
    BY DEF ControlAccept
  <1>3. /\ Turn(2) /\ fh[c] = "none" /\ fh' = [fh EXCEPT ![c] = "active"]
        /\ obj' = [obj EXCEPT ![c] = "live"]
        /\ UNCHANGED <<peer, out, chan, reg, last, serial, emulator, crashed>>
    BY DEF ControlAccept
  <1>4. hooks \in Seq(Hooks) /\ Len(hooks) \in Nat
    BY <1>1, LenProperties DEF QemudTypeOK
  <1>5. PICK n \in Nat : n = Len(hooks)
    BY <1>4
  <1>6. PICK hs : hs = Handled(2, "in")
    OBVIOUS
  <1>7. 1 \in 1 .. n /\ 2 \in 1 .. n /\ n >= 2
    BY <1>1, <1>5, OnlySerial
  <1>8. /\ hs \in Seq(Hooks) /\ Len(hs) = n /\ Begun(hs)
        /\ \A j \in 1 .. n : /\ hs[j].who = hooks[j].who /\ hs[j].fd = hooks[j].fd
                             /\ hs[j].wanted = hooks[j].wanted /\ hs[j].closing = hooks[j].closing
                             /\ j # 2 => hs[j].pend = hooks[j].pend
    <2>1. /\ Quieted(hs) /\ \A j \in 1 .. Len(hooks) : hs[j].wanted = hooks[j].wanted
          /\ \A j \in 1 .. Len(hooks) : j # 2 => hs[j].pend = hooks[j].pend
      BY <1>1, <1>5, <1>6, <1>7, HandledIs
    <2> QED BY <1>5, <1>7, <2>1 DEF Quieted, Frame, Begun
  <1>9. PICK h \in Hooks : h = Hook(c, f, {})
    <2>1. f \in Nat /\ {} \in SUBSET {"in", "out"} /\ {} \in SUBSET {"in", "hup", "out"}
      BY <1>4
    <2>2. Hook(c, f, {}) \in Hooks
      BY <2>1 DEF Hook, Hooks
    <2> QED BY <2>2
  <1>10. h.who = c /\ h.fd = f /\ h.pend = {} /\ h.closing = FALSE
    BY <1>9 DEF Hook
  <1>11. PICK H : H = LooperAdd(hs, c, f)
    OBVIOUS
  <1>12. /\ H \in Seq(Hooks) /\ Len(H) = n + 1 /\ H[n + 1] = h
         /\ \A j \in 1 .. n : H[j] = hs[j]
    <2>1. H = Append(hs, h)
      BY <1>9, <1>11 DEF LooperAdd
    <2> QED BY <1>8, <2>1, AppendProperties
  <1>13. hooks' = LooperEnable(H, f, "in")
    BY <1>2, <1>6, <1>11
  <1>14. PICK K : K = hooks'
    OBVIOUS
  <1>15. /\ Frame(H, K)
         /\ \A j \in 1 .. Len(H) : /\ K[j].pend = H[j].pend /\ K[j].closing = H[j].closing
                                   /\ "out" \in K[j].wanted <=> "out" \in H[j].wanted
    BY <1>12, <1>13, <1>14, EnableAny
  <1>16. /\ K \in Seq(Hooks) /\ Len(K) = n + 1
         /\ K[n + 1].who = c /\ K[n + 1].fd = f /\ K[n + 1].pend = {} /\ K[n + 1].closing = FALSE
    BY <1>10, <1>12, <1>15 DEF Frame
  <1>17. \A j \in 1 .. n : /\ K[j].who = hooks[j].who /\ K[j].fd = hooks[j].fd
                           /\ K[j].closing = hooks[j].closing
                           /\ "out" \in K[j].wanted <=> "out" \in hooks[j].wanted
                           /\ j # 2 => K[j].pend = hooks[j].pend
    BY <1>8, <1>12, <1>15 DEF Frame
  <1>18. /\ Indices = 3 .. n /\ Indices' = 3 .. n + 1 /\ n + 1 \in Indices'
         /\ \A j \in Indices' : j = n + 1 \/ j \in Indices
         /\ \A j \in Indices : j \in Indices' /\ j \in 1 .. n /\ j # 2 /\ j # n + 1
    BY <1>5, <1>7, <1>14, <1>16 DEF Indices
  <1>19. Of(n + 1)' = c /\ \A j \in Indices : Of(j)' = Of(j)
    BY <1>14, <1>16, <1>17, <1>18 DEF Of
  <1>20. \A j \in Indices : Of(j) \in Clients \ {c}
    BY <1>1, <1>3 DEF Owned
  <1>21. /\ fh'[c] = "active" /\ fd'[c] = f /\ out' = out /\ f \in Nat /\ f > 2
         /\ \A d \in Clients \ {c} : fh'[d] = fh[d] /\ fd'[d] = fd[d]
    BY <1>1, <1>2, <1>3, <1>4 DEF QemudTypeOK
  <1>22. Shape'
    BY <1>1, <1>7, <1>14, <1>16, <1>17 DEF Shape
  <1>23. Owned'
    <2> SUFFICES ASSUME NEW j \in Indices'
                 PROVE  /\ Of(j)' \in Clients /\ K[j].fd = fd'[Of(j)'] /\ fd'[Of(j)'] > 2
                        /\ fh'[Of(j)'] # "none" /\ (K[j].closing <=> fh'[Of(j)'] = "freed")
                        /\ out'[Of(j)'] # <<>> => "out" \in K[j].wanted
      BY <1>14 DEF Owned, Of
    <2>1. CASE j \in Indices
      <3>1. /\ Of(j)' = Of(j) /\ fh'[Of(j)] = fh[Of(j)] /\ fd'[Of(j)] = fd[Of(j)]
        BY <1>19, <1>20, <1>21, <2>1
      <3>2. /\ K[j].fd = hooks[j].fd /\ K[j].closing = hooks[j].closing
            /\ "out" \in K[j].wanted <=> "out" \in hooks[j].wanted
        BY <1>17, <1>18, <2>1
      <3> QED BY <1>1, <1>21, <2>1, <3>1, <3>2 DEF Owned
    <2>2. CASE j = n + 1
      <3>1. Of(j)' = c /\ out'[c] = <<>>
        BY <1>1, <1>3, <1>19, <1>21, <2>2 DEF Tidy
      <3> QED BY <1>16, <1>21, <2>2, <3>1
    <2> QED BY <1>18, <2>1, <2>2
  <1>24. OneHook'
    <2> SUFFICES ASSUME NEW i \in Indices', NEW j \in Indices', Of(i)' = Of(j)' PROVE i = j
      BY DEF OneHook
    <2> QED BY <1>1, <1>18, <1>19, <1>20 DEF OneHook
  <1>25. \A d \in Clients : Alive(d)' => d = c \/ Alive(d)
    BY <1>21 DEF Alive
  <1>26. Hooked'
    <2> SUFFICES ASSUME NEW d \in Clients, Alive(d)' PROVE \E j \in Indices' : Of(j)' = d
      BY DEF Hooked
    <2>1. CASE d = c
      BY <1>18, <1>19, <2>1
    <2>2. CASE Alive(d)
      BY <1>1, <1>18, <1>19, <2>2 DEF Hooked
    <2> QED BY <1>25, <2>1, <2>2
  <1>27. \A d \in Clients : Alive(d) => fd[d] # f
    BY <1>2 DEF Used, Alive
  <1>28. Separate'
    <2> SUFFICES ASSUME NEW d \in Clients, NEW e \in Clients, Alive(d)', Alive(e)', fd'[d] = fd'[e]
                 PROVE  d = e
      BY DEF Separate
    <2>1. (d = c \/ Alive(d)) /\ (e = c \/ Alive(e))
      BY <1>25
    <2> QED BY <1>1, <1>21, <1>27, <2>1 DEF Separate
  <1>29. Twins'
    <2> SUFFICES ASSUME NEW i \in Indices', NEW j \in Indices', i # j, K[i].fd = K[j].fd
                 PROVE  K[1].pend = {} /\ (Alive(Of(i))' => K[i].pend = {})
      BY <1>14 DEF Twins
    <2>1. K[1].pend = {}
      BY <1>3, <1>7, <1>17 DEF Turn
    <2>2. CASE i = n + 1
      BY <1>16, <2>1, <2>2
    <2>3. ASSUME i \in Indices, Alive(Of(i))' PROVE K[i].pend = {}
      <3>1. Of(i) \in Clients \ {c} /\ Of(i)' = Of(i)
        BY <1>19, <1>20, <2>3
      <3>2. Alive(Of(i))
        BY <1>21, <2>3, <3>1 DEF Alive
      <3>3. K[i].fd = hooks[i].fd /\ K[i].pend = hooks[i].pend
        BY <1>17, <1>18, <2>3
      <3>4. hooks[i].fd # f
        BY <1>1, <1>27, <2>3, <3>1, <3>2 DEF Owned
      <3>5. j \in Indices
        BY <1>16, <1>18, <3>3, <3>4
      <3>6. K[j].fd = hooks[j].fd
        BY <1>17, <1>18, <3>5
      <3> QED BY <1>1, <2>3, <3>2, <3>3, <3>5, <3>6 DEF Twins
    <2> QED BY <1>18, <2>1, <2>2, <2>3
  <1>30. QemudTypeOK'
    <2>1. /\ fh' \in [Clients -> {"none", "active", "closing", "freed"}]
          /\ obj' \in [Clients -> {"none", "live", "freed"}] /\ fd' \in [Clients -> Nat]
      BY <1>1, <1>2, <1>3, <1>21 DEF QemudTypeOK
    <2> QED BY <1>1, <1>3, <1>14, <1>16, <2>1 DEF QemudTypeOK, peer, serial, emulator
  <1>31. SerialLine'
    <2>1. hooks'[1].pend = {} /\ ("out" \in hooks'[1].wanted <=> "out" \in hooks[1].wanted)
      BY <1>3, <1>7, <1>14, <1>17 DEF Turn
    <2> QED BY <1>1, <1>3, <2>1 DEF SerialLine, serial
  <1>32. Tidy'
    BY <1>1, <1>3 DEF Tidy, QemudTypeOK
  <1> QED BY <1>22, <1>23, <1>24, <1>26, <1>28, <1>29, <1>30, <1>31, <1>32 DEF IInv, Structure

-----------------------------------------------------------------------------
(* The theorems *)

\* multiplexer_init establishes the invariant.
LEMMA InitHolds ==
  ASSUME Init
  PROVE  IInv
  <1>1. PICK a, b : a = Hook(Serial, 1, {"in"}) /\ b = Hook(Control, 2, {"in"})
    OBVIOUS
  <1>2. hooks = <<a, b>>
    BY <1>1 DEF Init
  <1>3. /\ a \in Hooks /\ b \in Hooks
        /\ a.who = Serial /\ a.fd = 1 /\ a.wanted = {"in"} /\ a.pend = {} /\ a.closing = FALSE
        /\ b.who = Control /\ b.fd = 2 /\ b.closing = FALSE
    BY <1>1 DEF Hook, Hooks
  <1>4. hooks \in Seq(Hooks) /\ Len(hooks) = 2 /\ hooks[1] = a /\ hooks[2] = b
    BY <1>2, <1>3
  <1>5. Indices = {} /\ \A c \in Clients : ~Alive(c)
    BY <1>4 DEF Indices, Alive, Init
  <1>6. Structure
    BY <1>3, <1>4, <1>5 DEF Structure, Shape, Owned, OneHook, Hooked, Separate, Twins
  <1>7. SerialLine
    BY <1>3, <1>4 DEF SerialLine, Init
  <1>8. Tidy
    BY DEF Tidy, Init
  <1>9. 0 \in Channels /\ 0 \in 0 .. MaxData
    BY NumChannelsAssumption, BoundsAssumption DEF Channels
  <1>10. <<>> \in Seq({"short", "long"}) /\ <<>> \in Seq(Packets) /\ <<>> \in Seq(Messages)
         /\ <<>> \in Seq(Answers)
    BY EmptySeq
  <1>11. QemudTypeOK
    BY <1>4, <1>9, <1>10 DEF QemudTypeOK, Init, Messages, Answers
  <1> QED BY <1>6, <1>7, <1>8, <1>11 DEF IInv

\* Every step of the looper, its handlers, the emulator and the clients keeps
\* the invariant.
LEMMA StepKeeps ==
  ASSUME IInv, [Next]_vars
  PROVE  IInv'
  <1>1. CASE Looper
    BY <1>1, EpollWaitKeeps, LoopEndsKeeps, SerialInKeeps, SerialOutKeeps, AcceptKeeps,
       ClientInKeeps, ClientHupKeeps, ClientOutKeeps, ShortWriteKeeps DEF Looper
  <1>2. CASE \E k \in Channels : EmulatorAnswers(k) \/ EmulatorData(k) \/ EmulatorDisconnects(k)
    BY <1>2, EmulatorKeeps
  <1>3. CASE \E c \in Clients : Connect(c) \/ HangUp(c) \/ \E p \in {"short", "long"} : Send(c, p)
    BY <1>3, PeerKeeps
  <1>4. CASE UNCHANGED vars
    <2>1. UNCHANGED <<hooks, peer, handler, client, serial, emulator, crashed>>
      BY <1>4 DEF vars
    <2>2. Structure'
      BY <2>1, SameStructure DEF IInv
    <2>3. QemudTypeOK'
      BY <2>1 DEF IInv, QemudTypeOK, peer, handler, client, serial, emulator
    <2>4. SerialLine' /\ Tidy'
      BY <2>1 DEF IInv, SerialLine, Tidy, serial, handler, client
    <2> QED BY <2>2, <2>3, <2>4 DEF IInv
  <1> QED BY <1>1, <1>2, <1>3, <1>4 DEF Next

\* The invariant implies that the queues are watched.
LEMMA InvWatches ==
  ASSUME IInv
  PROVE  OutputIsWatched
  <1>1. sout # <<>> => "out" \in hooks[1].wanted
    BY DEF IInv, SerialLine
  <1>2. ASSUME NEW c \in Clients, Alive(c), out[c] # <<>>
        PROVE  \E i \in HookOf(c) : "out" \in hooks[i].wanted
    <2>1. PICK i \in Indices : Of(i) = c
      BY <1>2 DEF IInv, Structure, Hooked
    <2>2. i \in DOMAIN hooks
      BY LenProperties DEF IInv, QemudTypeOK, Indices
    <2>3. ~hooks[i].closing /\ "out" \in hooks[i].wanted
      BY <1>2, <2>1 DEF IInv, Structure, Owned, Alive
    <2> QED BY <2>1, <2>2, <2>3 DEF HookOf, Of
  <1> QED BY <1>1, <1>2 DEF OutputIsWatched, Alive

\* The looper's hooks, the handlers, the Clients, the queues and the messages on
\* the serial line are always well formed.
THEOREM TypeCorrectness == Spec => []QemudTypeOK
  <1>1. Init => IInv
    BY InitHolds
  <1>2. IInv /\ [Next]_vars => IInv'
    BY StepKeeps
  <1>3. IInv => QemudTypeOK
    BY DEF IInv
  <1> QED BY <1>1, <1>2, <1>3, PTL DEF Spec

\* A queue with packets, of the serial line or of a client whose handler is
\* alive, is always watched for room: a descriptor may be used again while its old
\* hook is still in the array, but no looper_find for EPOLLOUT or for a deletion
\* then returns the wrong hook.
THEOREM OutputAlwaysWatched == Spec => []OutputIsWatched
  <1>1. Init => IInv
    BY InitHolds
  <1>2. IInv /\ [Next]_vars => IInv'
    BY StepKeeps
  <1>3. IInv => OutputIsWatched
    BY InvWatches
  <1> QED BY <1>1, <1>2, <1>3, PTL DEF Spec

-----------------------------------------------------------------------------
(* Channels: what is on the serial line *)

About(s, k) == \E i \in DOMAIN s : s[i].chan = k

\* t is s with m behind it, s is t with m before it
Behind(s, t, m) ==
    /\ Len(s) \in Nat /\ DOMAIN s = 1 .. Len(s) /\ DOMAIN t = 1 .. Len(s) + 1
    /\ \A i \in 1 .. Len(s) : t[i] = s[i]
    /\ t[Len(s) + 1] = m
Before(s, t, m) ==
    /\ Len(t) \in Nat /\ DOMAIN t = 1 .. Len(t) /\ DOMAIN s = 1 .. Len(t) + 1
    /\ \A i \in 1 .. Len(t) : t[i] = s[i + 1]
    /\ s[1] = m

\* t is s and one more message, m, wherever it is
Adds(s, t, m) ==
    /\ \A op, k : OnWire(t, op, k) <=> OnWire(s, op, k) \/ (m.op = op /\ m.chan = k)
    /\ \A k : About(t, k) <=> About(s, k) \/ m.chan = k

\* A message is put behind the others.
LEMMA AppendAdds ==
  ASSUME NEW S, NEW s \in Seq(S), NEW m \in S
  PROVE  Behind(s, Append(s, m), m) /\ Adds(s, Append(s, m), m)
  <1>1. PICK t : t = Append(s, m)
    OBVIOUS
  <1>2. Behind(s, t, m)
    BY <1>1, AppendProperties, LenProperties DEF Behind
  <1>3. /\ \A i \in DOMAIN s : t[i] = s[i] /\ i \in DOMAIN t
        /\ \A i \in DOMAIN t : i \in DOMAIN s \/ i = Len(s) + 1
        /\ t[Len(s) + 1] = m /\ Len(s) + 1 \in DOMAIN t
    BY <1>2 DEF Behind
  <1> HIDE <1>1
  <1>4. Adds(s, t, m)
    BY <1>3 DEF Adds, OnWire, About
  <1> QED BY <1>1, <1>2, <1>4

\* The first message is taken away.
LEMMA TailAdds ==
  ASSUME NEW S, NEW s \in Seq(S), s # <<>>
  PROVE  /\ Head(s) \in S /\ Tail(s) \in Seq(S)
         /\ Before(s, Tail(s), Head(s)) /\ Adds(Tail(s), s, Head(s))
  <1>1. PICK t, m : t = Tail(s) /\ m = Head(s)
    OBVIOUS
  <1>2. t \in Seq(S) /\ m \in S /\ Len(t) = Len(s) - 1 /\ \A i \in 1 .. Len(t) : t[i] = s[i + 1]
    BY <1>1, HeadTailProperties
  <1>3. DOMAIN t = 1 .. Len(t) /\ DOMAIN s = 1 .. Len(s) /\ Len(s) \in Nat /\ Len(t) \in Nat
    BY <1>2, LenProperties
  <1>4. s[1] = m
    BY <1>1
  <1>5. Before(s, t, m)
    BY <1>2, <1>3, <1>4 DEF Before
  <1>6. /\ \A i \in DOMAIN t : t[i] = s[i + 1] /\ i + 1 \in DOMAIN s
        /\ \A i \in DOMAIN s : i = 1 \/ (i - 1 \in DOMAIN t /\ t[i - 1] = s[i])
        /\ 1 \in DOMAIN s
    BY <1>5 DEF Before
  <1> HIDE <1>1
  <1>7. Adds(t, s, m)
    BY <1>4, <1>6 DEF Adds, OnWire, About
  <1> QED BY <1>1, <1>2, <1>5, <1>7

-----------------------------------------------------------------------------
(* Channels: the invariant, as long as the numbers do not start again *)

\* the channels that were given out; a refused name may have cost one too
Given == 1 .. last

ClientLife ==
    \A c \in Clients :
        /\ fh[c] = "active" <=> obj[c] = "live"
        /\ fh[c] = "none" <=> obj[c] = "none"
        /\ fh[c] = "none" => chan[c] = NoChannel /\ ~reg[c]
        /\ reg[c] => chan[c] # NoChannel

\* nothing was ever said of a channel that was not given out
OnlyGiven ==
    /\ \A c \in Clients : chan[c] # NoChannel => chan[c] \in Given
    /\ \A k : About(sout, k) \/ About(sin, k) => k \in Given
    /\ \A k \in Channels : emu[k] # "closed" \/ sent[k] # 0 => k \in Given

OneOwner == \A c, d \in Clients : chan[c] = chan[d] /\ chan[c] # NoChannel => c = d

\* the emulator was or will be asked for k, and has not answered
Asking(k) == emu[k] = "asked" \/ OnWire(sout, "connect", k)
Asked ==
    \A k \in Channels : Asking(k) =>
        /\ ~About(sin, k) /\ sent[k] = 0
        /\ \E c \in Clients : chan[c] = k /\ ~reg[c]

\* it is asked once
Once(s) ==
    \A i, j \in DOMAIN s :
        s[i].op = "connect" /\ s[j].op = "connect" /\ s[i].chan = s[j].chan => i = j
AskedOnce ==
    /\ Once(sout)
    /\ \A k \in Channels : OnWire(sout, "connect", k) => emu[k] = "closed"

\* what the emulator refused or gave up is closed, and stays so
Ended ==
    \A k \in Channels : OnWire(sin, "ko", k) \/ OnWire(sin, "disconnect", k) => emu[k] = "closed"

\* a client that signed off is gone
SignedOff == \A c \in Clients : OnWire(sout, "disconnect", chan[c]) => obj[c] # "live"

\* the two halves of ChannelsAgree, the first one from the answer on
OwnerHasOpen ==
    \A c \in Clients : obj[c] = "live" /\ (reg[c] \/ OnWire(sin, "ok", chan[c])) =>
        emu[chan[c]] = "open" \/ OnWire(sin, "disconnect", chan[c])
OpenHasOwner ==
    \A k \in Channels : emu[k] = "open" =>
        \/ \E c \in Clients : obj[c] = "live" /\ chan[c] = k /\ (reg[c] \/ OnWire(sin, "ok", k))
        \/ OnWire(sout, "disconnect", k)
        \/ \E c \in Clients : obj[c] = "freed" /\ chan[c] = k /\ ~reg[c]

ChanInv ==
    /\ ClientLife /\ OnlyGiven /\ OneOwner /\ Asked /\ AskedOnce /\ Ended /\ SignedOff
    /\ OwnerHasOpen /\ OpenHasOwner

-----------------------------------------------------------------------------
(* Channels: the steps *)

\* what was passed on to a client, written or still queued
Received(c) == got[c] \o out[c]

SameClient(d) ==
    /\ fh'[d] = fh[d] /\ obj'[d] = obj[d] /\ chan'[d] = chan[d] /\ reg'[d] = reg[d]
    /\ Received(d)' = Received(d)
SameClients == \A d \in Clients : SameClient(d)
Others(c) == \A d \in Clients \ {c} : SameClient(d)

\* the emulator is asked nothing new, and told that channel k is left if tell
ToldOnly(tell, c) ==
    /\ \A k : OnWire(sout', "connect", k) <=> OnWire(sout, "connect", k)
    /\ \A k : OnWire(sout', "disconnect", k) <=>
                OnWire(sout, "disconnect", k) \/ (tell /\ k = chan[c])
    /\ \A k : About(sout', k) => k \in Given
    /\ Once(sout')

\* what a step does to the clients, their channels and the line, whatever it does
\* to the looper: nothing, but that data may be sent to the emulator
StillStep ==
    /\ SameClients /\ UNCHANGED <<last, sin, emu, sent>>
    /\ sout' = sout \/ \E c \in Clients : ToldOnly(FALSE, c)

\* multiplexer_control_accept
AcceptStep(c) ==
    /\ Others(c) /\ fh[c] = "none" /\ fh'[c] = "active" /\ obj'[c] = "live"
    /\ Received(c)' = Received(c)
    /\ UNCHANGED <<chan, reg, last, sout, sin, emu, sent>>

\* a Client is freed, and the emulator told if it was signed on; a name that is too
\* long has cost a channel number
FreeStep(c, tell) ==
    /\ Others(c) /\ fh[c] # "none" /\ fh'[c] \in {"closing", "freed"} /\ obj'[c] = "freed"
    /\ chan'[c] = chan[c] /\ reg'[c] = reg[c]
    /\ fh'[c] = "closing" => fh[c] # "freed" /\ Received(c)' = Received(c) /\ ~reg[c]
    /\ tell => chan[c] # NoChannel
    /\ obj[c] = "live" /\ reg[c] => tell
    /\ ToldOnly(tell, c) \/ (~tell /\ sout' = sout)
    /\ last \in Nat /\ last' \in Nat /\ last' >= last /\ UNCHANGED <<sin, emu, sent>>

\* a service is asked for, on the next channel
ConnectStep(c, k, m) ==
    /\ Others(c) /\ fh'[c] = fh[c] /\ obj'[c] = obj[c] /\ reg'[c] = reg[c] /\ chan'[c] = k
    /\ Received(c)' = Received(c)
    /\ fh[c] = "active" /\ ~reg[c] /\ chan[c] = NoChannel
    /\ last \in Nat /\ k = last + 1 /\ last' = k
    /\ m.op = "connect" /\ m.chan = k /\ Adds(sout, sout', m)
    /\ Once(sout) /\ ~OnWire(sout, "connect", k) => Once(sout')
    /\ UNCHANGED <<sin, emu, sent>>

\* the first message of the emulator, m, is taken from the line
Reads(m) ==
    /\ Before(sin, sin', m) /\ Adds(sin', sin, m) /\ UNCHANGED <<last, sout, emu, sent>>

\* it is dropped, or concerns client c: an answer, data, or the end
DropStep(m) ==
    /\ Reads(m) /\ SameClients
    /\ m.op = "refusal" \/ \A d \in Clients : obj[d] = "live" => chan[d] # m.chan
ForClient(c, m) ==
    /\ Reads(m) /\ Others(c) /\ obj[c] = "live" /\ m.chan = chan[c] /\ m.chan \in Channels
    /\ Received(c) \in Seq(Packets)
OkStep(c, m) ==
    /\ ForClient(c, m) /\ m.op = "ok"
    /\ fh'[c] = fh[c] /\ obj'[c] = obj[c] /\ chan'[c] = chan[c] /\ reg'[c] = TRUE
    /\ Received(c)' = Append(Received(c), OK)
KoStep(c, m) ==
    /\ ForClient(c, m) /\ m.op = "ko"
    /\ fh'[c] = fh[c] /\ obj'[c] = obj[c] /\ chan'[c] = NoChannel /\ reg'[c] = FALSE
    /\ Received(c)' = Append(Received(c), KO)
DataStep(c, m) ==
    /\ ForClient(c, m) /\ m.op = "data" /\ m.n \in Packets
    /\ fh'[c] = fh[c] /\ obj'[c] = obj[c] /\ chan'[c] = chan[c] /\ reg'[c] = reg[c]
    /\ Received(c)' = Append(Received(c), m.n)
EndStep(c, m) ==
    /\ ForClient(c, m) /\ m.op = "disconnect"
    /\ fh'[c] \in {"closing", "freed"} /\ obj'[c] = "freed"
    /\ chan'[c] = chan[c] /\ reg'[c] = reg[c]
    /\ fh'[c] = "closing" => Received(c)' = Received(c)

\* the first message for the emulator, m, is written
WriteStep(m) ==
    /\ Adds(sout', sout, m) /\ Once(sout') /\ UNCHANGED <<last, sin>> /\ SameClients
    /\ m.op = "connect" => ~OnWire(sout', "connect", m.chan)
    /\ m.chan \in Channels
    /\ \A j \in Channels \ {m.chan} : emu'[j] = emu[j] /\ sent'[j] = sent[j]
    /\ emu'[m.chan] = CASE m.op = "connect" -> "asked" [] m.op = "disconnect" -> "closed"
                         [] OTHER -> emu[m.chan]
    /\ sent'[m.chan] = IF m.op = "connect" THEN 0 ELSE sent[m.chan]

\* the emulator puts m on the line
EmulatorStep(k, m) ==
    /\ m.chan = k /\ Behind(sin, sin', m) /\ Adds(sin, sin', m) /\ SameClients
    /\ UNCHANGED <<last, sout>>
    /\ \A j \in Channels \ {k} : emu'[j] = emu[j] /\ sent'[j] = sent[j]
    /\ \/ emu[k] = "asked" /\ m.op = "ok" /\ emu'[k] = "open" /\ sent'[k] = sent[k]
       \/ emu[k] = "asked" /\ m.op = "ko" /\ emu'[k] = "closed" /\ sent'[k] = sent[k]
       \/ emu[k] = "asked" /\ m.op = "refusal" /\ emu'[k] = "refused" /\ sent'[k] = sent[k]
       \/ /\ emu[k] = "open" /\ m.op = "data" /\ emu'[k] = "open"
          /\ sent'[k] = sent[k] + 1 /\ m.n = sent[k] + 1
       \/ emu[k] = "open" /\ m.op = "disconnect" /\ emu'[k] = "closed" /\ sent'[k] = sent[k]

\* A channel that was given out is one.
LEMMA GivenAre ==
  ASSUME QemudTypeOK
  PROVE  Given \subseteq Channels /\ last \in Nat
  BY NumChannelsAssumption DEF QemudTypeOK, Given, Channels

\* A handler that changes no client: data is sent, or nothing.
LEMMA ChanSame ==
  ASSUME ChanInv, StillStep
  PROVE  ChanInv'
  <1> USE DEF StillStep, SameClients, SameClient
  <1>0. /\ \A k : OnWire(sout', "connect", k) <=> OnWire(sout, "connect", k)
        /\ \A k : OnWire(sout', "disconnect", k) <=> OnWire(sout, "disconnect", k)
        /\ \A k : About(sout', k) => k \in Given
        /\ Once(sout')
    BY DEF ToldOnly, ChanInv, OnlyGiven, AskedOnce
  <1>1. ClientLife'
    BY DEF ChanInv, ClientLife
  <1>2. OnlyGiven'
    BY <1>0 DEF ChanInv, OnlyGiven, Given
  <1>3. OneOwner'
    BY DEF ChanInv, OneOwner
  <1>4. Asked'
    BY <1>0 DEF ChanInv, Asked, Asking
  <1>5. AskedOnce' /\ Ended'
    BY <1>0 DEF ChanInv, AskedOnce, Ended
  <1>6. SignedOff'
    BY <1>0 DEF ChanInv, SignedOff
  <1>7. OwnerHasOpen'
    BY DEF ChanInv, OwnerHasOpen
  <1>8. OpenHasOwner'
    BY <1>0 DEF ChanInv, OpenHasOwner
  <1> QED BY <1>1, <1>2, <1>3, <1>4, <1>5, <1>6, <1>7, <1>8 DEF ChanInv

\* A client is accepted.
LEMMA ChanAccept ==
  ASSUME ChanInv, NEW c \in Clients, AcceptStep(c)
  PROVE  ChanInv'
  <1> USE DEF AcceptStep, Others, SameClient
  <1>1. obj[c] = "none" /\ chan[c] = NoChannel /\ ~reg[c]
    BY DEF ChanInv, ClientLife
  <1>2. ClientLife'
    BY <1>1 DEF ChanInv, ClientLife
  <1>3. OnlyGiven'
    BY DEF ChanInv, OnlyGiven, Given
  <1>4. OneOwner' /\ Asked' /\ AskedOnce' /\ Ended'
    BY DEF ChanInv, OneOwner, Asked, Asking, AskedOnce, Ended
  <1>5. ~About(sout, NoChannel) /\ ~About(sin, NoChannel)
    BY DEF ChanInv, OnlyGiven, Given, NoChannel
  <1>6. SignedOff'
    BY <1>1, <1>5 DEF ChanInv, SignedOff, OnWire, About
  <1>7. OwnerHasOpen'
    BY <1>1, <1>5 DEF ChanInv, OwnerHasOpen, OnWire, About
  <1>8. OpenHasOwner'
    <2> SUFFICES ASSUME NEW k \in Channels, emu[k] = "open"
                 PROVE  \/ \E e \in Clients : obj'[e] = "live" /\ chan[e] = k /\ (reg[e] \/ OnWire(sin, "ok", k))
                        \/ OnWire(sout, "disconnect", k)
                        \/ \E e \in Clients : obj'[e] = "freed" /\ chan[e] = k /\ ~reg[e]
      BY DEF OpenHasOwner
    <2>1. \/ \E e \in Clients : obj[e] = "live" /\ chan[e] = k /\ (reg[e] \/ OnWire(sin, "ok", k))
          \/ OnWire(sout, "disconnect", k)
          \/ \E e \in Clients : obj[e] = "freed" /\ chan[e] = k /\ ~reg[e]
      BY DEF ChanInv, OpenHasOwner
    <2> QED BY <1>1, <2>1
  <1> QED BY <1>2, <1>3, <1>4, <1>6, <1>7, <1>8 DEF ChanInv

\* A Client is freed; tell says whether the emulator is told.  What the client had is kept.
LEMMA ChanFree ==
  ASSUME ChanInv, NEW c \in Clients, NEW tell \in BOOLEAN, FreeStep(c, tell)
  PROVE  ChanInv'
  <1> USE DEF FreeStep, Others, SameClient
  <1>0. /\ \A k : OnWire(sout', "connect", k) <=> OnWire(sout, "connect", k)
        /\ \A k : OnWire(sout', "disconnect", k) <=>
                    OnWire(sout, "disconnect", k) \/ (tell /\ k = chan[c])
        /\ \A k : About(sout', k) => k \in Given
        /\ Once(sout')
    BY DEF ToldOnly, ChanInv, OnlyGiven, AskedOnce
  <1>1. Given \subseteq Given'
    BY DEF Given
  <1>2. ClientLife'
    BY DEF ChanInv, ClientLife
  <1>3. OnlyGiven'
    <2>1. ASSUME NEW d \in Clients, chan'[d] # NoChannel PROVE chan'[d] \in Given'
      BY <1>1, <2>1 DEF ChanInv, OnlyGiven
    <2>2. \A k : About(sout', k) \/ About(sin', k) => k \in Given'
      BY <1>0, <1>1 DEF ChanInv, OnlyGiven
    <2>3. \A k \in Channels : emu'[k] # "closed" \/ sent'[k] # 0 => k \in Given'
      BY <1>1 DEF ChanInv, OnlyGiven
    <2> QED BY <2>1, <2>2, <2>3 DEF OnlyGiven
  <1>4. \A d \in Clients : chan'[d] = chan[d] /\ reg'[d] = reg[d]
    OBVIOUS
  <1>5. OneOwner'
    BY <1>4 DEF ChanInv, OneOwner
  <1>6. Asked'
    BY <1>0, <1>4 DEF ChanInv, Asked, Asking
  <1>7. AskedOnce' /\ Ended'
    BY <1>0 DEF ChanInv, AskedOnce, Ended
  <1>8. SignedOff'
    <2> SUFFICES ASSUME NEW d \in Clients, OnWire(sout', "disconnect", chan[d]), obj'[d] = "live"
                 PROVE  FALSE
      BY <1>4 DEF SignedOff
    <2>1. d # c /\ obj[d] = "live"
      OBVIOUS
    <2>2. tell /\ chan[d] = chan[c]
      BY <1>0, <2>1 DEF ChanInv, SignedOff
    <2> QED BY <2>1, <2>2 DEF ChanInv, OneOwner
  <1>9. OwnerHasOpen'
    BY <1>4 DEF ChanInv, OwnerHasOpen
  <1>10. OpenHasOwner'
    <2> SUFFICES ASSUME NEW k \in Channels, emu[k] = "open", ~OnWire(sout', "disconnect", k)
                 PROVE  \/ \E e \in Clients : obj'[e] = "live" /\ chan[e] = k /\ (reg[e] \/ OnWire(sin, "ok", k))
                        \/ \E e \in Clients : obj'[e] = "freed" /\ chan[e] = k /\ ~reg[e]
      BY <1>4 DEF OpenHasOwner
    <2>1. \/ \E e \in Clients : obj[e] = "live" /\ chan[e] = k /\ (reg[e] \/ OnWire(sin, "ok", k))
          \/ \E e \in Clients : obj[e] = "freed" /\ chan[e] = k /\ ~reg[e]
      BY <1>0 DEF ChanInv, OpenHasOwner
    <2>2. ASSUME NEW e \in Clients, obj[e] = "live", chan[e] = k, reg[e] \/ OnWire(sin, "ok", k)
          PROVE  \/ obj'[e] = "live" \/ (obj'[e] = "freed" /\ ~reg[e])
      <3>1. CASE e = c
        BY <1>0, <2>2, <3>1
      <3> QED BY <2>2, <3>1
    <2>3. ASSUME NEW e \in Clients, obj[e] = "freed" PROVE obj'[e] = "freed"
      BY <2>3
    <2> QED BY <2>1, <2>2, <2>3
  <1> QED BY <1>2, <1>3, <1>5, <1>6, <1>7, <1>8, <1>9, <1>10 DEF ChanInv

\* A client that has no channel gets the next number, and the emulator is asked.
LEMMA ChanConnect ==
  ASSUME ChanInv, NEW c \in Clients, NEW k \in Channels, NEW m, ConnectStep(c, k, m)
  PROVE  ChanInv'
  <1> USE DEF ConnectStep, Others, SameClient
  <1>1. Given \subseteq Given' /\ k \in Given' /\ k \notin Given /\ k # NoChannel
    BY DEF Given, NoChannel
  <1>2. ~About(sout, k) /\ ~About(sin, k) /\ emu[k] = "closed" /\ sent[k] = 0
    BY <1>1 DEF ChanInv, OnlyGiven
  <1>3. \A op : ~OnWire(sout, op, k) /\ ~OnWire(sin, op, k)
    BY <1>2 DEF About, OnWire
  <1>4. \A d \in Clients : chan[d] # k
    BY <1>1 DEF ChanInv, OnlyGiven
  <1>5. ClientLife'
    BY <1>1 DEF ChanInv, ClientLife
  <1>6. OnlyGiven'
    <2>1. ASSUME NEW d \in Clients, chan'[d] # NoChannel PROVE chan'[d] \in Given'
      BY <1>1, <2>1 DEF ChanInv, OnlyGiven
    <2>2. \A j : About(sout', j) \/ About(sin', j) => j \in Given'
      BY <1>1 DEF ChanInv, OnlyGiven, Adds
    <2>3. \A j \in Channels : emu'[j] # "closed" \/ sent'[j] # 0 => j \in Given'
      BY <1>1 DEF ChanInv, OnlyGiven
    <2> QED BY <2>1, <2>2, <2>3 DEF OnlyGiven
  <1>7. OneOwner'
    BY <1>4 DEF ChanInv, OneOwner
  <1>8. Asked'
    <2> SUFFICES ASSUME NEW j \in Channels, Asking(j)'
                 PROVE  /\ ~About(sin, j) /\ sent[j] = 0
                        /\ \E e \in Clients : chan'[e] = j /\ ~reg'[e]
      BY DEF Asked
    <2>1. CASE j = k
      BY <1>2, <2>1
    <2>2. CASE j # k
      <3>1. Asking(j)
        BY <2>2 DEF Asking, Adds
      <3>2. PICK e \in Clients : chan[e] = j /\ ~reg[e]
        BY <3>1 DEF ChanInv, Asked
      <3>3. e # c
        BY <3>1, <3>2 DEF ChanInv, OnlyGiven, Asking, OnWire, About, Given, NoChannel
      <3> QED BY <3>1, <3>2, <3>3 DEF ChanInv, Asked
    <2> QED BY <2>1, <2>2
  <1>9. AskedOnce' /\ Ended'
    BY <1>2, <1>3 DEF ChanInv, AskedOnce, Ended, Adds
  <1>10. \A j : OnWire(sout', "disconnect", j) <=> OnWire(sout, "disconnect", j)
    BY DEF Adds
  <1>11. SignedOff'
    BY <1>3, <1>10 DEF ChanInv, SignedOff
  <1>12. OwnerHasOpen'
    BY <1>3 DEF ChanInv, OwnerHasOpen
  <1>13. OpenHasOwner'
    <2> SUFFICES ASSUME NEW j \in Channels, emu[j] = "open", ~OnWire(sout, "disconnect", j)
                 PROVE  \/ \E e \in Clients : obj'[e] = "live" /\ chan'[e] = j /\ (reg'[e] \/ OnWire(sin, "ok", j))
                        \/ \E e \in Clients : obj'[e] = "freed" /\ chan'[e] = j /\ ~reg'[e]
      BY <1>10 DEF OpenHasOwner
    <2>1. PICK e \in Clients : /\ chan[e] = j
                               /\ \/ obj[e] = "live" /\ (reg[e] \/ OnWire(sin, "ok", j))
                                  \/ obj[e] = "freed" /\ ~reg[e]
      BY DEF ChanInv, OpenHasOwner
    <2>2. e # c
      BY <2>1 DEF NoChannel, Channels
    <2> QED BY <2>1, <2>2
  <1> QED BY <1>5, <1>6, <1>7, <1>8, <1>9, <1>11, <1>12, <1>13 DEF ChanInv

\* What no client is concerned by: the message is dropped, or it is data.
LEMMA ChanDrop ==
  ASSUME ChanInv, NEW m, DropStep(m) \/ \E c \in Clients : DataStep(c, m)
  PROVE  ChanInv'
  <1>0. /\ Reads(m)
        /\ \A d \in Clients :
              fh'[d] = fh[d] /\ obj'[d] = obj[d] /\ chan'[d] = chan[d] /\ reg'[d] = reg[d]
        /\ m.op \in {"data", "refusal"} \/ \A d \in Clients : obj[d] = "live" => chan[d] # m.chan
    BY DEF DropStep, DataStep, ForClient, Others, SameClients, SameClient
  <1> USE <1>0 DEF Reads, Adds
  <1>1. ClientLife'
    BY DEF ChanInv, ClientLife
  <1>2. OnlyGiven'
    BY DEF ChanInv, OnlyGiven, Given
  <1>3. OneOwner'
    BY DEF ChanInv, OneOwner
  <1>4. Asked'
    BY DEF ChanInv, Asked, Asking
  <1>5. AskedOnce'
    BY DEF ChanInv, AskedOnce
  <1>6. Ended'
    BY DEF ChanInv, Ended
  <1>7. SignedOff'
    BY DEF ChanInv, SignedOff
  <1>8. OwnerHasOpen'
    BY DEF ChanInv, OwnerHasOpen
  <1>9. OpenHasOwner'
    <2> SUFFICES ASSUME NEW k \in Channels, emu[k] = "open", ~OnWire(sout, "disconnect", k)
                 PROVE  \/ \E e \in Clients : obj[e] = "live" /\ chan[e] = k /\ (reg[e] \/ OnWire(sin', "ok", k))
                        \/ \E e \in Clients : obj[e] = "freed" /\ chan[e] = k /\ ~reg[e]
      BY DEF OpenHasOwner
    <2>1. PICK e \in Clients : /\ chan[e] = k
                               /\ \/ obj[e] = "live" /\ (reg[e] \/ OnWire(sin, "ok", k))
                                  \/ obj[e] = "freed" /\ ~reg[e]
      BY DEF ChanInv, OpenHasOwner
    <2>2. obj[e] = "live" /\ OnWire(sin, "ok", k) => OnWire(sin', "ok", k)
      BY <2>1
    <2> QED BY <2>1, <2>2
  <1> QED BY <1>1, <1>2, <1>3, <1>4, <1>5, <1>6, <1>7, <1>8, <1>9 DEF ChanInv

\* The client is told that its service was found.
LEMMA ChanOk ==
  ASSUME ChanInv, NEW c \in Clients, NEW m, OkStep(c, m)
  PROVE  ChanInv'
  <1> USE DEF OkStep, ForClient, Others, SameClient, Reads, Adds
  <1>1. \A k : OnWire(sin', "disconnect", k) <=> OnWire(sin, "disconnect", k)
    OBVIOUS
  <1>2. About(sin, chan[c]) /\ OnWire(sin, "ok", chan[c]) /\ chan[c] # NoChannel
    BY DEF NoChannel, Channels
  <1>3. ClientLife'
    BY <1>2 DEF ChanInv, ClientLife
  <1>4. OnlyGiven'
    BY DEF ChanInv, OnlyGiven, Given
  <1>5. OneOwner'
    BY DEF ChanInv, OneOwner
  <1>6. Asked'
    <2> SUFFICES ASSUME NEW k \in Channels, Asking(k)
                 PROVE  /\ ~About(sin', k) /\ sent[k] = 0
                        /\ \E e \in Clients : chan'[e] = k /\ ~reg'[e]
      BY DEF Asked, Asking
    <2>1. PICK e \in Clients : chan[e] = k /\ ~reg[e] /\ ~About(sin, k) /\ sent[k] = 0
      BY DEF ChanInv, Asked
    <2>2. e # c
      BY <1>2, <2>1
    <2> QED BY <2>1, <2>2
  <1>7. AskedOnce'
    BY DEF ChanInv, AskedOnce
  <1>8. Ended'
    BY DEF ChanInv, Ended
  <1>9. SignedOff'
    BY DEF ChanInv, SignedOff
  <1>10. OwnerHasOpen'
    BY <1>1, <1>2 DEF ChanInv, OwnerHasOpen
  <1>11. OpenHasOwner'
    <2> SUFFICES ASSUME NEW k \in Channels, emu[k] = "open", ~OnWire(sout, "disconnect", k)
                 PROVE  \/ \E e \in Clients : obj'[e] = "live" /\ chan'[e] = k /\ (reg'[e] \/ OnWire(sin', "ok", k))
                        \/ \E e \in Clients : obj'[e] = "freed" /\ chan'[e] = k /\ ~reg'[e]
      BY DEF OpenHasOwner
    <2>1. PICK e \in Clients : /\ chan[e] = k
                               /\ \/ obj[e] = "live" /\ (reg[e] \/ OnWire(sin, "ok", k))
                                  \/ obj[e] = "freed" /\ ~reg[e]
      BY DEF ChanInv, OpenHasOwner
    <2>2. CASE e = c
      BY <2>1, <2>2
    <2>3. CASE e # c
      <3>1. chan[e] # chan[c]
        BY <1>2, <2>3 DEF ChanInv, OneOwner
      <3> QED BY <2>1, <2>3, <3>1
    <2> QED BY <2>2, <2>3
  <1> QED BY <1>3, <1>4, <1>5, <1>6, <1>7, <1>8, <1>9, <1>10, <1>11 DEF ChanInv

\* The client is refused, and has no channel any more.
LEMMA ChanKo ==
  ASSUME ChanInv, NEW c \in Clients, NEW m, KoStep(c, m)
  PROVE  ChanInv'
  <1> USE DEF KoStep, ForClient, Others, SameClient, Reads, Adds
  <1>1. emu[chan[c]] = "closed" /\ About(sin, chan[c]) /\ OnWire(sin, "ko", chan[c])
    BY DEF ChanInv, Ended
  <1>2. ~Asking(chan[c])
    BY <1>1 DEF ChanInv, Asked
  <1>3. fh[c] = "active"
    BY DEF ChanInv, ClientLife
  <1>4. ClientLife'
    BY <1>3 DEF ChanInv, ClientLife
  <1>5. OnlyGiven'
    BY DEF ChanInv, OnlyGiven, Given
  <1>6. OneOwner'
    BY DEF ChanInv, OneOwner
  <1>7. Asked'
    <2> SUFFICES ASSUME NEW k \in Channels, Asking(k)
                 PROVE  /\ ~About(sin', k) /\ sent[k] = 0
                        /\ \E e \in Clients : chan'[e] = k /\ ~reg'[e]
      BY DEF Asked, Asking
    <2>1. PICK e \in Clients : chan[e] = k /\ ~reg[e] /\ ~About(sin, k) /\ sent[k] = 0
      BY DEF ChanInv, Asked
    <2>2. e # c
      BY <1>2, <2>1
    <2> QED BY <2>1, <2>2
  <1>8. AskedOnce'
    BY DEF ChanInv, AskedOnce
  <1>9. Ended'
    BY DEF ChanInv, Ended
  <1>10. ~About(sout, NoChannel) /\ ~About(sin, NoChannel)
    BY DEF ChanInv, OnlyGiven, Given, NoChannel
  <1>11. \A op : ~OnWire(sout, op, NoChannel) /\ ~OnWire(sin', op, NoChannel)
    BY <1>10 DEF About, OnWire
  <1>12. SignedOff'
    BY <1>11 DEF ChanInv, SignedOff
  <1>13. OwnerHasOpen'
    BY <1>11 DEF ChanInv, OwnerHasOpen
  <1>14. OpenHasOwner'
    <2> SUFFICES ASSUME NEW k \in Channels, emu[k] = "open", ~OnWire(sout, "disconnect", k)
                 PROVE  \/ \E e \in Clients : obj'[e] = "live" /\ chan'[e] = k /\ (reg'[e] \/ OnWire(sin', "ok", k))
                        \/ \E e \in Clients : obj'[e] = "freed" /\ chan'[e] = k /\ ~reg'[e]
      BY DEF OpenHasOwner
    <2>1. PICK e \in Clients : /\ chan[e] = k
                               /\ \/ obj[e] = "live" /\ (reg[e] \/ OnWire(sin, "ok", k))
                                  \/ obj[e] = "freed" /\ ~reg[e]
      BY DEF ChanInv, OpenHasOwner
    <2>2. e # c
      BY <1>1, <2>1
    <2> QED BY <2>1, <2>2
  <1> QED BY <1>4, <1>5, <1>6, <1>7, <1>8, <1>9, <1>12, <1>13, <1>14 DEF ChanInv

\* The emulator disconnects the client.
LEMMA ChanDisconnect ==
  ASSUME ChanInv, NEW c \in Clients, NEW m, EndStep(c, m)
  PROVE  ChanInv'
  <1> USE DEF EndStep, ForClient, Others, SameClient, Reads, Adds
  <1>1. emu[chan[c]] = "closed" /\ OnWire(sin, "disconnect", chan[c]) /\ chan[c] # NoChannel
    BY DEF ChanInv, Ended, NoChannel, Channels
  <1>2. ClientLife'
    BY <1>1 DEF ChanInv, ClientLife
  <1>3. OnlyGiven'
    BY DEF ChanInv, OnlyGiven, Given
  <1>4. \A d \in Clients : chan'[d] = chan[d] /\ reg'[d] = reg[d]
    OBVIOUS
  <1>5. OneOwner'
    BY <1>4 DEF ChanInv, OneOwner
  <1>6. Asked'
    BY <1>4 DEF ChanInv, Asked, Asking
  <1>7. AskedOnce'
    BY DEF ChanInv, AskedOnce
  <1>8. Ended'
    BY DEF ChanInv, Ended
  <1>9. SignedOff'
    BY DEF ChanInv, SignedOff
  <1>10. OwnerHasOpen'
    <2> SUFFICES ASSUME NEW d \in Clients, obj'[d] = "live", reg[d] \/ OnWire(sin', "ok", chan[d])
                 PROVE  emu[chan[d]] = "open" \/ OnWire(sin', "disconnect", chan[d])
      BY <1>4 DEF OwnerHasOpen
    <2>1. d # c /\ obj[d] = "live" /\ chan[d] # chan[c]
      BY <1>1 DEF ChanInv, OneOwner
    <2> QED BY <2>1 DEF ChanInv, OwnerHasOpen
  <1>11. OpenHasOwner'
    <2> SUFFICES ASSUME NEW k \in Channels, emu[k] = "open", ~OnWire(sout, "disconnect", k)
                 PROVE  \/ \E e \in Clients : obj'[e] = "live" /\ chan'[e] = k /\ (reg'[e] \/ OnWire(sin', "ok", k))
                        \/ \E e \in Clients : obj'[e] = "freed" /\ chan'[e] = k /\ ~reg'[e]
      BY DEF OpenHasOwner
    <2>1. PICK e \in Clients : /\ chan[e] = k
                               /\ \/ obj[e] = "live" /\ (reg[e] \/ OnWire(sin, "ok", k))
                                  \/ obj[e] = "freed" /\ ~reg[e]
      BY DEF ChanInv, OpenHasOwner
    <2>2. e # c
      BY <1>1, <2>1
    <2> QED BY <2>1, <2>2
  <1> QED BY <1>2, <1>3, <1>5, <1>6, <1>7, <1>8, <1>9, <1>10, <1>11 DEF ChanInv

\* A message is written and the emulator takes it.
LEMMA ChanWritten ==
  ASSUME QemudTypeOK, ChanInv, NEW m, WriteStep(m)
  PROVE  ChanInv'
  <1> USE DEF SameClient, SameClients, WriteStep, Adds
  <1>1. PICK k \in Channels : k = m.chan
    OBVIOUS
  <1>2. k \in Given
    BY <1>1 DEF ChanInv, OnlyGiven
  <1>3. ClientLife'
    BY DEF ChanInv, ClientLife
  <1>4. OnlyGiven'
    <2>1. \A c \in Clients : chan'[c] # NoChannel => chan'[c] \in Given'
      BY DEF ChanInv, OnlyGiven, Given
    <2>2. \A j : About(sout', j) \/ About(sin', j) => j \in Given'
      BY DEF ChanInv, OnlyGiven, Given
    <2>3. \A j \in Channels : emu'[j] # "closed" \/ sent'[j] # 0 => j \in Given'
      BY <1>1, <1>2 DEF ChanInv, OnlyGiven, Given
    <2> QED BY <2>1, <2>2, <2>3 DEF OnlyGiven
  <1>5. OneOwner'
    BY DEF ChanInv, OneOwner
  <1>6. ASSUME m.op = "connect"
        PROVE  OnWire(sout, "connect", k) /\ Asking(k) /\ emu[k] = "closed" /\ ~About(sin, k)
    <2>1. OnWire(sout, "connect", k)
      BY <1>1, <1>6
    <2>2. Asking(k)
      BY <2>1 DEF Asking
    <2> QED BY <2>1, <2>2 DEF ChanInv, AskedOnce, Asked
  <1>7. Asked'
    <2> SUFFICES ASSUME NEW j \in Channels, Asking(j)'
                 PROVE  /\ ~About(sin, j) /\ sent'[j] = 0
                        /\ \E e \in Clients : chan[e] = j /\ ~reg[e]
      BY DEF Asked
    <2>1. Asking(j)
      <3>1. CASE j = k /\ m.op = "connect"
        BY <1>6, <3>1
      <3>2. CASE j = k /\ m.op # "connect"
        <4>1. emu'[k] = "asked" => emu[k] = "asked"
          BY <1>1, <3>2
        <4>2. OnWire(sout', "connect", k) => OnWire(sout, "connect", k)
          OBVIOUS
        <4> QED BY <3>2, <4>1, <4>2 DEF Asking
      <3>3. CASE j # k
        BY <1>1, <3>3 DEF Asking
      <3> QED BY <3>1, <3>2, <3>3
    <2>2. sent'[j] = 0
      BY <1>1, <2>1 DEF ChanInv, Asked
    <2> QED BY <2>1, <2>2 DEF ChanInv, Asked
  <1>8. AskedOnce'
    <2> SUFFICES ASSUME NEW j \in Channels, OnWire(sout', "connect", j) PROVE emu'[j] = "closed"
      BY DEF AskedOnce
    <2>1. emu[j] = "closed"
      BY DEF ChanInv, AskedOnce
    <2>2. CASE j = k
      BY <1>1, <2>1, <2>2
    <2> QED BY <1>1, <2>1, <2>2
  <1>9. Ended'
    <2> SUFFICES ASSUME NEW j \in Channels, OnWire(sin, "ko", j) \/ OnWire(sin, "disconnect", j)
                 PROVE  emu'[j] = "closed"
      BY DEF Ended
    <2>1. emu[j] = "closed"
      BY DEF ChanInv, Ended
    <2>2. j = k => m.op # "connect"
      BY <1>6 DEF OnWire, About
    <2> QED BY <1>1, <2>1, <2>2
  <1>10. SignedOff'
    BY DEF ChanInv, SignedOff
  <1>11. OwnerHasOpen'
    <2> SUFFICES ASSUME NEW d \in Clients, obj[d] = "live", reg[d] \/ OnWire(sin, "ok", chan[d]),
                        ~OnWire(sin, "disconnect", chan[d])
                 PROVE  emu'[chan[d]] = "open"
      BY DEF OwnerHasOpen
    <2>1. emu[chan[d]] = "open"
      BY DEF ChanInv, OwnerHasOpen
    <2>2. chan[d] \in Channels
      <3>1. CASE reg[d]
        BY <3>1, GivenAre DEF ChanInv, ClientLife, OnlyGiven
      <3>2. CASE OnWire(sin, "ok", chan[d])
        BY <3>2, GivenAre DEF ChanInv, OnlyGiven, OnWire, About
      <3> QED BY <3>1, <3>2
    <2>3. CASE chan[d] = k
      <3>1. m.op # "connect"
        BY <1>6, <2>1, <2>3
      <3>2. m.op # "disconnect"
        BY <1>1, <2>3 DEF ChanInv, SignedOff
      <3> QED BY <1>1, <2>1, <2>3, <3>1, <3>2
    <2>4. CASE chan[d] # k
      BY <1>1, <2>1, <2>2, <2>4
    <2> QED BY <2>3, <2>4
  <1>12. OpenHasOwner'
    <2> SUFFICES ASSUME NEW j \in Channels, emu'[j] = "open", ~OnWire(sout', "disconnect", j)
                 PROVE  \/ \E e \in Clients : obj[e] = "live" /\ chan[e] = j /\ (reg[e] \/ OnWire(sin, "ok", j))
                        \/ \E e \in Clients : obj[e] = "freed" /\ chan[e] = j /\ ~reg[e]
      BY DEF OpenHasOwner
    <2>1. emu[j] = "open" /\ (j = k => m.op # "disconnect")
      BY <1>1
    <2>2. ~OnWire(sout, "disconnect", j)
      BY <1>1, <2>1
    <2> QED BY <2>1, <2>2 DEF ChanInv, OpenHasOwner
  <1> QED BY <1>3, <1>4, <1>5, <1>7, <1>8, <1>9, <1>10, <1>11, <1>12 DEF ChanInv

\* The emulator answers, sends data or disconnects, putting m on the line.
LEMMA ChanEmulator ==
  ASSUME QemudTypeOK, ChanInv, NEW k \in Channels, NEW m, EmulatorStep(k, m)
  PROVE  ChanInv'
  <1> USE DEF SameClient, SameClients, EmulatorStep, Adds
  <1>1. k \in Given /\ ~OnWire(sout, "connect", k)
    BY DEF ChanInv, OnlyGiven, AskedOnce
  <1>2. ClientLife'
    BY DEF ChanInv, ClientLife
  <1>3. OnlyGiven'
    <2>1. \A c \in Clients : chan'[c] # NoChannel => chan'[c] \in Given'
      BY DEF ChanInv, OnlyGiven, Given
    <2>2. \A j : About(sout', j) \/ About(sin', j) => j \in Given'
      BY <1>1 DEF ChanInv, OnlyGiven, Given
    <2>3. \A j \in Channels : emu'[j] # "closed" \/ sent'[j] # 0 => j \in Given'
      BY <1>1 DEF ChanInv, OnlyGiven, Given
    <2> QED BY <2>1, <2>2, <2>3 DEF OnlyGiven
  <1>4. OneOwner'
    BY DEF ChanInv, OneOwner
  <1>5. Asked'
    <2> SUFFICES ASSUME NEW j \in Channels, Asking(j)'
                 PROVE  /\ ~About(sin', j) /\ sent'[j] = 0
                        /\ \E e \in Clients : chan[e] = j /\ ~reg[e]
      BY DEF Asked
    <2>1. j # k /\ Asking(j)
      BY <1>1 DEF Asking
    <2> QED BY <2>1 DEF ChanInv, Asked
  <1>6. AskedOnce'
    BY <1>1 DEF ChanInv, AskedOnce
  <1>7. Ended'
    <2> SUFFICES ASSUME NEW j \in Channels, OnWire(sin', "ko", j) \/ OnWire(sin', "disconnect", j)
                 PROVE  emu'[j] = "closed"
      BY DEF Ended
    <2>1. CASE j = k
      <3>1. ~OnWire(sin, "ko", k) /\ ~OnWire(sin, "disconnect", k)
        BY DEF ChanInv, Ended
      <3> QED BY <2>1, <3>1
    <2>2. CASE j # k
      BY <2>2 DEF ChanInv, Ended
    <2> QED BY <2>1, <2>2
  <1>8. SignedOff'
    BY DEF ChanInv, SignedOff
  <1>9. OwnerHasOpen'
    <2> SUFFICES ASSUME NEW d \in Clients, obj[d] = "live", reg[d] \/ OnWire(sin', "ok", chan[d])
                 PROVE  emu'[chan[d]] = "open" \/ OnWire(sin', "disconnect", chan[d])
      BY DEF OwnerHasOpen
    <2>1. CASE chan[d] = k
      <3>1. CASE m.op = "disconnect" \/ emu'[k] = "open"
        BY <2>1, <3>1
      <3>2. CASE m.op \in {"ko", "refusal"} /\ emu[k] = "asked"
        <4>1. PICK e \in Clients : chan[e] = k /\ ~reg[e] /\ ~About(sin, k)
          BY <3>2 DEF ChanInv, Asked, Asking
        <4>2. e = d
          BY <2>1, <4>1 DEF ChanInv, OneOwner, NoChannel, Channels
        <4>3. OnWire(sin, "ok", k)
          BY <2>1, <3>2, <4>1, <4>2
        <4> QED BY <4>1, <4>3 DEF OnWire, About
      <3> QED BY <3>1, <3>2
    <2>2. CASE chan[d] # k
      <3>1. emu[chan[d]] = "open" \/ OnWire(sin, "disconnect", chan[d])
        BY <2>2 DEF ChanInv, OwnerHasOpen
      <3>2. chan[d] \in Channels
        <4>1. CASE reg[d]
          BY <4>1, GivenAre DEF ChanInv, ClientLife, OnlyGiven
        <4>2. CASE OnWire(sin', "ok", chan[d])
          BY <2>2, <4>2, GivenAre DEF ChanInv, OnlyGiven, OnWire, About
        <4> QED BY <4>1, <4>2
      <3> QED BY <2>2, <3>1, <3>2
    <2> QED BY <2>1, <2>2
  <1>10. OpenHasOwner'
    <2> SUFFICES ASSUME NEW j \in Channels, emu'[j] = "open", ~OnWire(sout, "disconnect", j)
                 PROVE  \/ \E e \in Clients : obj[e] = "live" /\ chan[e] = j /\ (reg[e] \/ OnWire(sin', "ok", j))
                        \/ \E e \in Clients : obj[e] = "freed" /\ chan[e] = j /\ ~reg[e]
      BY DEF OpenHasOwner
    <2>1. CASE emu[j] = "open"
      BY <2>1 DEF ChanInv, OpenHasOwner
    <2>2. CASE emu[j] # "open"
      <3>1. j = k /\ emu[k] = "asked" /\ m.op = "ok"
        BY <2>2
      <3>2. PICK e \in Clients : chan[e] = k /\ ~reg[e]
        BY <3>1 DEF ChanInv, Asked, Asking
      <3>3. obj[e] \in {"live", "freed"}
        BY <3>2 DEF ChanInv, ClientLife, NoChannel, Channels, QemudTypeOK
      <3> QED BY <3>1, <3>2, <3>3
    <2> QED BY <2>1, <2>2
  <1> QED BY <1>2, <1>3, <1>4, <1>5, <1>6, <1>7, <1>8, <1>9, <1>10 DEF ChanInv

-----------------------------------------------------------------------------
(* Channels: every step is one of these *)

Effect ==
    \/ StillStep
    \/ \E c \in Clients : AcceptStep(c) \/ \E tell \in BOOLEAN : FreeStep(c, tell)
    \/ \E c \in Clients, k \in Channels, m \in Messages : ConnectStep(c, k, m)
    \/ \E m \in Answers : \/ DropStep(m)
                          \/ \E c \in Clients : OkStep(c, m) \/ KoStep(c, m) \/ DataStep(c, m) \/ EndStep(c, m)
    \/ \E m \in Messages : WriteStep(m)
    \/ \E k \in Channels, m \in Answers : EmulatorStep(k, m)

\* A channel is asked for once, if the new message does not ask again.
LEMMA OnceBehind ==
  ASSUME NEW s, NEW t, NEW m, Behind(s, t, m), Once(s),
         m.op # "connect" \/ ~OnWire(s, "connect", m.chan)
  PROVE  Once(t)
  <1> SUFFICES ASSUME NEW i \in DOMAIN t, NEW j \in DOMAIN t, t[i].op = "connect",
                      t[j].op = "connect", t[i].chan = t[j].chan
               PROVE  i = j
    BY DEF Once
  <1>1. CASE i \in DOMAIN s /\ j \in DOMAIN s
    BY <1>1 DEF Behind, Once
  <1>2. ASSUME i \in DOMAIN s, j \notin DOMAIN s PROVE FALSE
    BY <1>2 DEF Behind, OnWire
  <1>3. ASSUME j \in DOMAIN s, i \notin DOMAIN s PROVE FALSE
    BY <1>3 DEF Behind, OnWire
  <1>4. CASE i \notin DOMAIN s /\ j \notin DOMAIN s
    BY <1>4 DEF Behind
  <1> QED BY <1>1, <1>2, <1>3, <1>4

\* What asks is not behind itself.
LEMMA OnceBefore ==
  ASSUME NEW s, NEW t, NEW m, Before(s, t, m), Once(s)
  PROVE  Once(t) /\ (m.op = "connect" => ~OnWire(t, "connect", m.chan))
  <1>1. \A i \in DOMAIN t : i + 1 \in DOMAIN s /\ t[i] = s[i + 1] /\ i \in Int /\ i + 1 # 1
    BY DEF Before
  <1>2. Once(t)
    BY <1>1 DEF Once
  <1>3. ASSUME m.op = "connect", NEW i \in DOMAIN t, t[i].op = "connect", t[i].chan = m.chan
        PROVE  FALSE
    <2>1. 1 \in DOMAIN s /\ s[1] = m
      BY DEF Before
    <2> QED BY <1>1, <1>3, <2>1 DEF Once
  <1> QED BY <1>2, <1>3 DEF OnWire

\* A packet is queued for a client.
LEMMA ReceivedMore ==
  ASSUME QemudTypeOK, NEW c \in Clients, NEW p \in Packets,
         out' = [out EXCEPT ![c] = Append(@, p)], got' = got
  PROVE  /\ Received(c) \in Seq(Packets) /\ Received(c)' = Append(Received(c), p)
         /\ \A d \in Clients \ {c} : Received(d)' = Received(d)
  <1>1. PICK g \in Seq(Packets), q \in Seq(Packets) : g = got[c] /\ q = out[c]
    BY DEF QemudTypeOK
  <1>2. out'[c] = Append(q, p) /\ got'[c] = g /\ \A d \in Clients \ {c} : out'[d] = out[d]
    BY <1>1 DEF QemudTypeOK
  <1>3. g \o q \in Seq(Packets) /\ <<p>> \in Seq(Packets)
    BY ConcatProperties
  <1>4. g \o Append(q, p) = Append(g \o q, p)
    <2>1. Append(q, p) = q \o <<p>> /\ Append(g \o q, p) = (g \o q) \o <<p>>
      BY <1>3, AppendIsConcat
    <2>2. (g \o q) \o <<p>> = g \o (q \o <<p>>)
      BY <1>3, ConcatAssociative
    <2> QED BY <2>1, <2>2
  <1> QED BY <1>1, <1>2, <1>3, <1>4 DEF Received

\* A packet that is written is received as it was queued.
LEMMA ReceivedSame ==
  ASSUME QemudTypeOK, NEW c \in Clients, out[c] # <<>>, out' = [out EXCEPT ![c] = Tail(@)],
         got' = [got EXCEPT ![c] = Append(@, Head(out[c]))]
  PROVE  \A d \in Clients : Received(d)' = Received(d)
  <1>1. PICK g \in Seq(Packets), q \in Seq(Packets) : g = got[c] /\ q = out[c]
    BY DEF QemudTypeOK
  <1>2. /\ out'[c] = Tail(q) /\ got'[c] = Append(g, Head(q))
        /\ \A d \in Clients \ {c} : out'[d] = out[d] /\ got'[d] = got[d]
    BY <1>1 DEF QemudTypeOK
  <1>3. q # <<>> /\ Head(q) \in Packets /\ Tail(q) \in Seq(Packets)
    BY <1>1, HeadTailProperties
  <1>4. PICK h \in Packets, r \in Seq(Packets) : h = Head(q) /\ r = Tail(q)
    BY <1>3
  <1>5. <<h>> \in Seq(Packets) /\ Len(<<h>>) = 1 /\ <<h>>[1] = h
    OBVIOUS
  <1>6. <<h>> \o r = q
    <2>1. /\ Len(r) = Len(q) - 1 /\ \A i \in 1 .. Len(r) : r[i] = q[i + 1]
          /\ Len(q) \in Nat /\ Len(r) \in Nat /\ q[1] = h
      <3>1. Len(r) = Len(q) - 1 /\ \A i \in 1 .. Len(r) : r[i] = q[i + 1]
        BY <1>3, <1>4, HeadTailProperties
      <3>2. Len(q) \in Nat /\ Len(r) \in Nat
        BY LenProperties
      <3>3. q[1] = h
        BY <1>4
      <3> QED BY <3>1, <3>2, <3>3
    <2>2. /\ <<h>> \o r \in Seq(Packets) /\ Len(<<h>> \o r) = 1 + Len(r)
          /\ \A i \in 1 .. 1 + Len(r) : (<<h>> \o r)[i] = IF i <= 1 THEN <<h>>[i] ELSE r[i - 1]
      BY <1>5, ConcatProperties
    <2>3. \A i \in 1 .. Len(q) : (<<h>> \o r)[i] = q[i]
      BY <1>5, <2>1, <2>2
    <2>4. PICK z : z = <<h>> \o r
      OBVIOUS
    <2>5. z \in Seq(Packets) /\ Len(z) = Len(q) /\ \A i \in 1 .. Len(z) : z[i] = q[i]
      BY <2>1, <2>2, <2>3, <2>4
    <2> HIDE <2>4
    <2>6. z = q
      BY <2>5, SeqEqual
    <2> QED BY <2>4, <2>6
  <1>7. Append(g, h) = g \o <<h>> /\ (g \o <<h>>) \o r = g \o (<<h>> \o r)
    BY <1>5, AppendIsConcat, ConcatAssociative
  <1>8. Append(g, h) \o r = g \o q
    BY <1>6, <1>7
  <1> QED BY <1>1, <1>2, <1>4, <1>8 DEF Received

\* Without starting again, the next channel is the number after the last one.
LEMMA NextIsNew ==
  ASSUME QemudTypeOK, ChanInv, NEW k \in Channels, NextChannel(k), k >= last
  PROVE  k = last + 1
  <1>1. PICK j \in 1 .. NumChannels :
          /\ k = (last + j) % NumChannels /\ ~Taken(k)
          /\ \A i \in 1 .. j - 1 : Taken((last + i) % NumChannels)
    BY DEF NextChannel
  <1>2. last \in 0 .. NumChannels - 1 /\ NumChannels \in Nat /\ NumChannels >= 2
    BY NumChannelsAssumption DEF QemudTypeOK, Channels
  <1>3. PICK n : n = (last + 1) % NumChannels
    OBVIOUS
  <1>4. IF last = NumChannels - 1 THEN n = 0 ELSE n = last + 1
    BY <1>2, <1>3
  <1>5. n \in Channels /\ n \notin Given
    BY <1>2, <1>4 DEF Channels, Given
  <1>6. ~Taken(n)
    BY <1>5 DEF Taken, ChanInv, OnlyGiven, NoChannel, Channels
  <1>7. j = 1
    <2> SUFFICES ASSUME j # 1 PROVE FALSE
      OBVIOUS
    <2>1. 1 \in 1 .. j - 1
      BY <1>2
    <2> QED BY <1>1, <1>3, <1>6, <2>1
  <1>8. k = n
    BY <1>1, <1>3, <1>7
  <1> QED BY <1>2, <1>4, <1>8

\* A step that leaves the clients, the line and what was received alone.
LEMMA StillEffect ==
  ASSUME UNCHANGED <<handler, client, serial, emulator, got>>
  PROVE  Effect
  <1>1. UNCHANGED <<fh, out, obj, chan, reg, last, sout, sin, emu, sent, got>>
    BY DEF handler, client, serial, emulator
  <1>2. \A d \in Clients : Received(d)' = Received(d)
    BY <1>1 DEF Received
  <1> QED BY <1>1, <1>2 DEF Effect, StillStep, SameClients, SameClient

\* A Client is freed, and its handler shut down or closed.
LEMMA GoneEffect ==
  ASSUME QemudTypeOK, NEW c \in Clients, Alive(c), NEW hs, NEW in, Gone(c, hs, in)
  PROVE  /\ fh'[c] \in {"closing", "freed"} /\ obj'[c] = "freed"
         /\ \A d \in Clients \ {c} : fh'[d] = fh[d] /\ obj'[d] = obj[d] /\ Received(d)' = Received(d)
         /\ fh'[c] = "closing" => Received(c)' = Received(c)
         /\ FdhandlerClose(c, hs, in) => fh'[c] = "freed"
  <1>1. obj'[c] = "freed" /\ \A d \in Clients \ {c} : obj'[d] = obj[d]
    BY DEF Gone, QemudTypeOK
  <1>2. CASE FdhandlerClose(c, hs, in)
    <2>1. fh'[c] = "freed" /\ \A d \in Clients \ {c} : fh'[d] = fh[d]
      BY <1>2 DEF FdhandlerClose, QemudTypeOK
    <2>2. \A d \in Clients \ {c} : out'[d] = out[d] /\ got'[d] = got[d]
      BY <1>2 DEF FdhandlerClose, QemudTypeOK
    <2> QED BY <1>1, <2>1, <2>2 DEF Received
  <1>3. CASE ~FdhandlerClose(c, hs, in)
    <2>1. fh' = [fh EXCEPT ![c] = "closing"] /\ out' = out /\ got' = got
      BY <1>3 DEF Gone, FdhandlerShutdown
    <2>2. fh'[c] = "closing" /\ \A d \in Clients \ {c} : fh'[d] = fh[d]
      BY <2>1 DEF QemudTypeOK
    <2> QED BY <1>1, <1>3, <2>1, <2>2 DEF Received
  <1> QED BY <1>2, <1>3

\* client_fd_receive
LEMMA ReceivesEffect ==
  ASSUME IInv, ChanInv, last' >= last, NEW c \in Clients, fh[c] = "active", NEW p, NEW hs, NEW in,
         ClientReceives(c, p, hs, in), UNCHANGED <<sin, emulator>>
  PROVE  Effect
  <1>1. QemudTypeOK /\ sout \in Seq(Messages) /\ last \in Nat /\ Given \subseteq Channels
    BY GivenAre DEF IInv, QemudTypeOK, Messages
  <1>2. UNCHANGED <<sin, emu, sent>>
    BY DEF emulator
  <1>3. CASE /\ reg[c] /\ SerialSend(Msg("data", chan[c], 0), hs)
             /\ UNCHANGED <<handler, client, sock, got>>
    <2>1. chan[c] \in Given
      BY <1>3 DEF ChanInv, ClientLife, OnlyGiven
    <2>2. PICK m \in Messages : m = Msg("data", chan[c], 0)
      BY <1>1, <2>1 DEF Msg, Messages
    <2>3. m.op = "data" /\ m.chan = chan[c]
      BY <2>2 DEF Msg
    <2>4. sout' = Append(sout, m)
      BY <1>3, <2>2 DEF SerialSend
    <2>5. Behind(sout, sout', m) /\ Adds(sout, sout', m)
      BY <1>1, <2>4, AppendAdds
    <2>6. Once(sout')
      BY <2>3, <2>5, OnceBehind DEF ChanInv, AskedOnce
    <2>7. ToldOnly(FALSE, c)
      BY <2>1, <2>3, <2>5, <2>6 DEF ToldOnly, Adds, ChanInv, OnlyGiven
    <2>8. UNCHANGED <<fh, out, obj, chan, reg, last, got>>
      BY <1>3 DEF handler, client
    <2>9. SameClients
      BY <2>8 DEF SameClients, SameClient, Received
    <2> QED BY <1>2, <2>7, <2>8, <2>9 DEF Effect, StillStep
  <1>4. ASSUME ~reg[c], ClientFree(c, hs, in), UNCHANGED <<reg, sout>>,
               chan'[c] = chan[c], \A d \in Clients \ {c} : chan'[d] = chan[d], last' \in Nat
        PROVE  Effect
    <2>1. Alive(c) /\ Gone(c, hs, in)
      BY <1>4 DEF Alive, Gone, ClientFree
    <2>2. /\ fh'[c] \in {"closing", "freed"} /\ obj'[c] = "freed"
          /\ \A d \in Clients \ {c} : fh'[d] = fh[d] /\ obj'[d] = obj[d] /\ Received(d)' = Received(d)
          /\ fh'[c] = "closing" => Received(c)' = Received(c)
      BY <1>1, <2>1, GoneEffect
    <2>3. FreeStep(c, FALSE)
      BY <1>1, <1>2, <1>4, <2>2 DEF FreeStep, Others, SameClient
    <2> QED BY <2>3 DEF Effect
  <1>5. CASE /\ ~reg[c] /\ ClientFree(c, hs, in) /\ UNCHANGED <<fd, chan, reg, last, sout>>
    BY <1>1, <1>4, <1>5
  <1>6. ASSUME NEW k \in Channels, NextChannel(k), last' = k, ~reg[c], chan[c] <= 0
        PROVE  k = last + 1 /\ chan[c] = NoChannel
    BY <1>1, <1>6, NextIsNew DEF ChanInv, OnlyGiven, Given
  <1>7. ASSUME NEW k \in Channels, NextChannel(k), last' = k, ~reg[c], chan[c] <= 0,
               chan' = [chan EXCEPT ![c] = k], SerialSend(Msg("connect", k, 0), hs),
               UNCHANGED <<handler, obj, reg, sock, got>>
        PROVE  Effect
    <2>1. k = last + 1 /\ chan[c] = NoChannel
      BY <1>6, <1>7
    <2>2. PICK m \in Messages : m = Msg("connect", k, 0)
      BY <1>1, <1>7 DEF Msg, Messages
    <2>3. m.op = "connect" /\ m.chan = k
      BY <2>2 DEF Msg
    <2>4. sout' = Append(sout, m)
      BY <1>7, <2>2 DEF SerialSend
    <2>5. Behind(sout, sout', m) /\ Adds(sout, sout', m)
      BY <1>1, <2>4, AppendAdds
    <2>6. Once(sout) /\ ~OnWire(sout, "connect", k) => Once(sout')
      BY <2>3, <2>5, OnceBehind
    <2>7. UNCHANGED <<fh, out, obj, reg, got>>
      BY <1>7 DEF handler
    <2>8. chan'[c] = k /\ \A d \in Clients \ {c} : chan'[d] = chan[d]
      BY <1>1, <1>7 DEF QemudTypeOK
    <2>9. \A d \in Clients : Received(d)' = Received(d)
      BY <2>7 DEF Received
    <2>10. ConnectStep(c, k, m)
      BY <1>1, <1>2, <1>7, <2>1, <2>3, <2>5, <2>6, <2>7, <2>8, <2>9 DEF ConnectStep, Others, SameClient
    <2> QED BY <1>7, <2>10 DEF Effect
  <1>8. ASSUME NEW k \in Channels, NextChannel(k), last' = k, ~reg[c], chan[c] <= 0,
               chan' = [chan EXCEPT ![c] = NoChannel], ClientFree(c, hs, in), UNCHANGED <<fd, reg, sout>>
        PROVE  Effect
    <2>1. chan[c] = NoChannel
      BY <1>6, <1>8
    <2>2. chan'[c] = chan[c] /\ \A d \in Clients \ {c} : chan'[d] = chan[d]
      BY <1>1, <1>8, <2>1 DEF QemudTypeOK
    <2>3. last' \in Nat
      BY <1>8, NumChannelsAssumption DEF Channels
    <2> QED BY <1>4, <1>8, <2>2, <2>3
  <1> QED BY <1>3, <1>5, <1>7, <1>8 DEF ClientReceives

\* EPOLLIN of a client's hook
LEMMA ClientInEffect ==
  ASSUME IInv, ChanInv, last' >= last, NEW i \in DOMAIN hooks, ClientIn(i)
  PROVE  Effect
  <1>1. PICK c, hs, in, p : /\ c = Of(i) /\ hs = Handled(i, "in") /\ p = Head(inbox[c])
                            /\ in = [inbox EXCEPT ![c] = Tail(@)]
    OBVIOUS
  <1>2. /\ Turn(i) /\ i > 2 /\ fh[c] # "freed" /\ ~(fh[c] = "closing" /\ inbox[c] # <<>>)
        /\ UNCHANGED <<sends, sin, emulator, crashed>>
        /\ \/ inbox[c] = <<>> /\ UNCHANGED <<handler, client, sock, inbox, got, sout>>
           \/ inbox[c] # <<>> /\ ClientReceives(c, p, hs, in)
    BY <1>1 DEF ClientIn, Of
  <1>3. c \in Clients /\ Alive(c)
    BY <1>1, <1>2, TurnIs
  <1>4. CASE inbox[c] = <<>> /\ UNCHANGED <<handler, client, sock, inbox, got, sout>>
    BY <1>2, <1>4, StillEffect DEF serial
  <1>5. CASE inbox[c] # <<>> /\ ClientReceives(c, p, hs, in)
    <2>1. fh[c] = "active"
      BY <1>2, <1>3, <1>5 DEF Alive
    <2> QED BY <1>2, <1>3, <1>5, <2>1, ReceivesEffect
  <1> QED BY <1>2, <1>4, <1>5

\* EPOLLHUP of a client's hook
LEMMA ClientHupEffect ==
  ASSUME IInv, ChanInv, NEW i \in DOMAIN hooks, ClientHup(i)
  PROVE  Effect
  <1>1. PICK c : c = Of(i)
    OBVIOUS
  <1>2. PICK hs : hs = IF Told(c) THEN Watched([hooks EXCEPT ![i].pend = {}], 1, sout)
                       ELSE [hooks EXCEPT ![i].pend = {}]
    OBVIOUS
  <1>3. /\ Turn(i) /\ i > 2 /\ fh[c] # "freed"
        /\ sout' = IF Told(c) THEN Append(sout, Msg("disconnect", chan[c], 0)) ELSE sout
        /\ FdhandlerClose(c, hs, inbox) /\ obj' = [obj EXCEPT ![c] = "freed"]
        /\ UNCHANGED <<sends, fd, chan, reg, last, sin, emulator, crashed>>
    BY <1>1, <1>2 DEF ClientHup, Of
  <1>4. c \in Clients /\ Alive(c) /\ Gone(c, hs, inbox)
    BY <1>1, <1>3, TurnIs DEF Gone
  <1>5. QemudTypeOK /\ sout \in Seq(Messages) /\ last \in Nat /\ Given \subseteq Channels
    BY GivenAre DEF IInv, QemudTypeOK, Messages
  <1>6. /\ fh'[c] = "freed" /\ obj'[c] = "freed"
        /\ \A d \in Clients \ {c} : fh'[d] = fh[d] /\ obj'[d] = obj[d] /\ Received(d)' = Received(d)
    BY <1>3, <1>4, <1>5, GoneEffect
  <1>7. obj[c] = "live" /\ reg[c] => Told(c)
    BY <1>4 DEF ChanInv, ClientLife, OnlyGiven, Given, Told
  <1>8. UNCHANGED <<chan, reg, last, sin, emu, sent>> /\ fh[c] # "none"
    BY <1>3, <1>4 DEF emulator, Alive
  <1>9. CASE Told(c)
    <2>1. chan[c] \in Given /\ chan[c] # NoChannel
      BY <1>4, <1>9 DEF Told, ChanInv, OnlyGiven, NoChannel
    <2>2. PICK m \in Messages : m = Msg("disconnect", chan[c], 0)
      BY <1>5, <2>1 DEF Msg, Messages
    <2>3. m.op = "disconnect" /\ m.chan = chan[c]
      BY <2>2 DEF Msg
    <2>4. sout' = Append(sout, m)
      BY <1>3, <1>9, <2>2
    <2>5. Behind(sout, sout', m) /\ Adds(sout, sout', m)
      BY <1>5, <2>4, AppendAdds
    <2>6. Once(sout')
      BY <2>3, <2>5, OnceBehind DEF ChanInv, AskedOnce
    <2>7. PICK tell \in BOOLEAN : tell = TRUE
      OBVIOUS
    <2>8. ToldOnly(tell, c)
      BY <2>1, <2>3, <2>5, <2>6, <2>7 DEF ToldOnly, Adds, ChanInv, OnlyGiven
    <2>9. tell
      BY <2>7
    <2> HIDE <2>7
    <2>10. FreeStep(c, tell)
      BY <1>5, <1>6, <1>8, <2>1, <2>8, <2>9 DEF FreeStep, Others, SameClient
    <2> QED BY <1>4, <2>10 DEF Effect
  <1>10. CASE ~Told(c)
    <2>1. FreeStep(c, FALSE)
      BY <1>3, <1>5, <1>6, <1>7, <1>8, <1>10 DEF FreeStep, Others, SameClient
    <2> QED BY <1>4, <2>1 DEF Effect
  <1> QED BY <1>9, <1>10

\* EPOLLOUT of a client's hook
LEMMA ClientOutEffect ==
  ASSUME IInv, NEW i \in DOMAIN hooks, ClientOut(i)
  PROVE  Effect
  <1>1. PICK c : c = Of(i)
    OBVIOUS
  <1>2. /\ Turn(i) /\ i > 2 /\ fh[c] # "freed" /\ out[c] # <<>>
        /\ got' = [got EXCEPT ![c] = Append(@, Head(out[c]))] /\ out' = [out EXCEPT ![c] = Tail(@)]
        /\ UNCHANGED <<fh, client, serial, emulator>>
    BY <1>1 DEF ClientOut, Of
  <1>3. c \in Clients
    BY <1>1, <1>2, TurnIs
  <1>4. \A d \in Clients : Received(d)' = Received(d)
    BY <1>2, <1>3, ReceivedSame DEF IInv
  <1>5. UNCHANGED <<fh, obj, chan, reg, last, sout, sin, emu, sent>>
    BY <1>2 DEF client, serial, emulator
  <1> QED BY <1>4, <1>5 DEF Effect, StillStep, SameClients, SameClient

\* A client is accepted.
LEMMA AcceptEffect ==
  ASSUME IInv, NEW c \in Clients, ControlAccept(c)
  PROVE  Effect
  <1>1. /\ fh[c] = "none" /\ fh' = [fh EXCEPT ![c] = "active"] /\ obj' = [obj EXCEPT ![c] = "live"]
        /\ UNCHANGED <<got, out, chan, reg, last, sout, sin, emu, sent>>
    BY DEF ControlAccept, peer, serial, emulator
  <1>2. fh'[c] = "active" /\ obj'[c] = "live" /\ \A d \in Clients \ {c} : fh'[d] = fh[d] /\ obj'[d] = obj[d]
    BY <1>1 DEF IInv, QemudTypeOK
  <1>3. \A d \in Clients : Received(d)' = Received(d)
    BY <1>1 DEF Received
  <1>4. AcceptStep(c)
    BY <1>1, <1>2, <1>3 DEF AcceptStep, Others, SameClient
  <1> QED BY <1>4 DEF Effect

\* A message of the emulator is read.
LEMMA SerialInEffect ==
  ASSUME IInv, ChanInv, SerialIn
  PROVE  Effect
  <1>1. QemudTypeOK /\ sin \in Seq(Answers) /\ sin # <<>>
    BY DEF IInv, QemudTypeOK, Answers, SerialIn, SerialLine
  <1>2. PICK m, hs : m = Head(sin) /\ hs = Handled(1, "in")
    OBVIOUS
  <1>3. /\ sin' = Tail(sin) /\ UNCHANGED <<sout, emulator>>
        /\ \/ /\ m.op = "refusal" \/ {c \in Clients : obj[c] = "live" /\ chan[c] = m.chan} = {}
              /\ UNCHANGED <<handler, client, got>>
           \/ \E c \in Clients : /\ obj[c] = "live" /\ chan[c] = m.chan
                 /\ \/ m.op = "ok" /\ Registration(c, TRUE, hs)
                    \/ m.op = "ko" /\ Registration(c, FALSE, hs)
                    \/ /\ m.op = "disconnect"
                       /\ ClientFree(c, hs, inbox) /\ UNCHANGED <<chan, reg, last>>
                    \/ m.op = "data" /\ Enqueue(c, m.n, hs) /\ UNCHANGED <<fh, client, got>>
    BY <1>2 DEF SerialIn
  <1>4. m \in Answers /\ Before(sin, sin', m) /\ Adds(sin', sin, m)
    BY <1>1, <1>2, <1>3, TailAdds
  <1>5. last' = last => Reads(m)
    BY <1>3, <1>4 DEF Reads, emulator
  <1>6. CASE /\ m.op = "refusal" \/ {c \in Clients : obj[c] = "live" /\ chan[c] = m.chan} = {}
             /\ UNCHANGED <<handler, client, got>>
    <2>1. UNCHANGED <<fh, out, obj, chan, reg, last, got>>
      BY <1>6 DEF handler, client
    <2>2. SameClients
      BY <2>1 DEF SameClients, SameClient, Received
    <2>3. DropStep(m)
      BY <1>5, <1>6, <2>1, <2>2 DEF DropStep
    <2> QED BY <1>4, <2>3 DEF Effect
  <1>7. OK \in Packets /\ KO \in Packets /\ m.n \in Packets /\ m.chan \in Channels
    BY <1>4, BoundsAssumption DEF Packets, OK, KO, Answers
  <1>8. ASSUME NEW c \in Clients, NEW p \in Packets, Enqueue(c, p, hs), UNCHANGED <<fh, obj, last, got>>
        PROVE  /\ Received(c) \in Seq(Packets) /\ Received(c)' = Append(Received(c), p)
               /\ \A d \in Clients \ {c} : Received(d)' = Received(d) /\ fh'[d] = fh[d] /\ obj'[d] = obj[d]
               /\ fh'[c] = fh[c] /\ obj'[c] = obj[c]
    BY <1>1, <1>8, ReceivedMore DEF Enqueue
  <1>9. ASSUME NEW c \in Clients, obj[c] = "live", chan[c] = m.chan, m.op = "ok",
               Registration(c, TRUE, hs)
        PROVE  Effect
    <2>1. /\ Enqueue(c, OK, hs) /\ UNCHANGED <<fh, obj, last, got, chan>>
          /\ reg' = [reg EXCEPT ![c] = TRUE]
      BY <1>9 DEF Registration
    <2>2. reg'[c] = TRUE /\ \A d \in Clients \ {c} : reg'[d] = reg[d]
      BY <1>1, <2>1 DEF QemudTypeOK
    <2>3. /\ Received(c) \in Seq(Packets) /\ Received(c)' = Append(Received(c), OK)
          /\ \A d \in Clients \ {c} : Received(d)' = Received(d) /\ fh'[d] = fh[d] /\ obj'[d] = obj[d]
          /\ fh'[c] = fh[c] /\ obj'[c] = obj[c]
      BY <1>7, <1>8, <2>1
    <2>4. OkStep(c, m)
      BY <1>5, <1>7, <1>9, <2>1, <2>2, <2>3 DEF OkStep, ForClient, Others, SameClient
    <2> QED BY <1>4, <2>4 DEF Effect
  <1>10. ASSUME NEW c \in Clients, obj[c] = "live", chan[c] = m.chan, m.op = "ko",
                Registration(c, FALSE, hs)
         PROVE  Effect
    <2>1. /\ Enqueue(c, KO, hs) /\ UNCHANGED <<fh, obj, last, got>>
          /\ reg' = [reg EXCEPT ![c] = FALSE] /\ chan' = [chan EXCEPT ![c] = NoChannel]
      BY <1>10 DEF Registration
    <2>2. /\ reg'[c] = FALSE /\ chan'[c] = NoChannel
          /\ \A d \in Clients \ {c} : reg'[d] = reg[d] /\ chan'[d] = chan[d]
      BY <1>1, <2>1 DEF QemudTypeOK
    <2>3. /\ Received(c) \in Seq(Packets) /\ Received(c)' = Append(Received(c), KO)
          /\ \A d \in Clients \ {c} : Received(d)' = Received(d) /\ fh'[d] = fh[d] /\ obj'[d] = obj[d]
          /\ fh'[c] = fh[c] /\ obj'[c] = obj[c]
      BY <1>7, <1>8, <2>1
    <2>4. KoStep(c, m)
      BY <1>5, <1>7, <1>10, <2>1, <2>2, <2>3 DEF KoStep, ForClient, Others, SameClient
    <2> QED BY <1>4, <2>4 DEF Effect
  <1>11. ASSUME NEW c \in Clients, obj[c] = "live", chan[c] = m.chan, m.op = "disconnect",
                ClientFree(c, hs, inbox), UNCHANGED <<chan, reg, last>>
         PROVE  Effect
    <2>1. Alive(c) /\ Gone(c, hs, inbox)
      BY <1>11 DEF ChanInv, ClientLife, Alive, Gone, ClientFree
    <2>2. /\ fh'[c] \in {"closing", "freed"} /\ obj'[c] = "freed"
          /\ \A d \in Clients \ {c} : fh'[d] = fh[d] /\ obj'[d] = obj[d] /\ Received(d)' = Received(d)
          /\ fh'[c] = "closing" => Received(c)' = Received(c)
      BY <1>1, <2>1, GoneEffect
    <2>3. Received(c) \in Seq(Packets)
      BY <1>1, ConcatProperties DEF Received, QemudTypeOK
    <2>4. EndStep(c, m)
      BY <1>5, <1>7, <1>11, <2>2, <2>3 DEF EndStep, ForClient, Others, SameClient
    <2> QED BY <1>4, <2>4 DEF Effect
  <1>12. ASSUME NEW c \in Clients, obj[c] = "live", chan[c] = m.chan, m.op = "data",
                Enqueue(c, m.n, hs), UNCHANGED <<fh, client, got>>
         PROVE  Effect
    <2>1. PICK p \in Packets : p = m.n
      BY <1>7
    <2>2. Enqueue(c, p, hs) /\ UNCHANGED <<fh, obj, last, got, chan, reg>>
      BY <1>12, <2>1 DEF client
    <2>3. /\ Received(c) \in Seq(Packets) /\ Received(c)' = Append(Received(c), p)
          /\ \A d \in Clients \ {c} : Received(d)' = Received(d) /\ fh'[d] = fh[d] /\ obj'[d] = obj[d]
          /\ fh'[c] = fh[c] /\ obj'[c] = obj[c]
      BY <1>8, <2>2
    <2>4. DataStep(c, m)
      BY <1>5, <1>7, <1>12, <2>1, <2>2, <2>3 DEF DataStep, ForClient, Others, SameClient
    <2> QED BY <1>4, <2>4 DEF Effect
  <1> QED BY <1>3, <1>6, <1>9, <1>10, <1>11, <1>12

\* A message is written, and the emulator takes it.
LEMMA SerialOutEffect ==
  ASSUME IInv, ChanInv, SerialOut
  PROVE  Effect
  <1>1. QemudTypeOK /\ sout \in Seq(Messages) /\ sout # <<>>
    BY DEF IInv, QemudTypeOK, Messages, SerialOut, SerialLine
  <1>2. PICK m : m = Head(sout)
    OBVIOUS
  <1>3. /\ sout' = Tail(sout) /\ UNCHANGED <<got, out, fh, obj, chan, reg, last, sin>>
        /\ emu' = CASE m.op = "connect"    -> [emu EXCEPT ![m.chan] = "asked"]
                    [] m.op = "disconnect" -> [emu EXCEPT ![m.chan] = "closed"]
                    [] OTHER               -> emu
        /\ sent' = IF m.op = "connect" THEN [sent EXCEPT ![m.chan] = 0] ELSE sent
    BY <1>2 DEF SerialOut, peer, handler, client
  <1>4. m \in Messages /\ Before(sout, sout', m) /\ Adds(sout', sout, m)
    BY <1>1, <1>2, <1>3, TailAdds
  <1>5. Once(sout') /\ (m.op = "connect" => ~OnWire(sout', "connect", m.chan))
    BY <1>4, OnceBefore DEF ChanInv, AskedOnce
  <1>6. SameClients
    BY <1>3 DEF SameClients, SameClient, Received
  <1>7. PICK k \in Channels : k = m.chan
    BY <1>4 DEF Messages
  <1>8. /\ emu'[k] = CASE m.op = "connect" -> "asked" [] m.op = "disconnect" -> "closed"
                       [] OTHER -> emu[k]
        /\ sent'[k] = IF m.op = "connect" THEN 0 ELSE sent[k]
        /\ \A j \in Channels \ {k} : emu'[j] = emu[j] /\ sent'[j] = sent[j]
    <2>1. CASE m.op = "connect"
      BY <1>1, <1>3, <1>7, <2>1 DEF QemudTypeOK
    <2>2. CASE m.op = "disconnect"
      BY <1>1, <1>3, <1>7, <2>2 DEF QemudTypeOK
    <2>3. CASE m.op # "connect" /\ m.op # "disconnect"
      BY <1>3, <2>3
    <2> QED BY <2>1, <2>2, <2>3
  <1>9. WriteStep(m)
    BY <1>3, <1>4, <1>5, <1>6, <1>7, <1>8 DEF WriteStep
  <1> QED BY <1>4, <1>9 DEF Effect

\* The emulator answers, sends data or disconnects.
LEMMA EmulatorEffect ==
  ASSUME IInv, NEW k \in Channels,
         EmulatorAnswers(k) \/ EmulatorData(k) \/ EmulatorDisconnects(k)
  PROVE  Effect
  <1>1. QemudTypeOK /\ sin \in Seq(Answers) /\ MaxData \in Nat
    BY BoundsAssumption DEF IInv, QemudTypeOK, Answers
  <1>2. UNCHANGED <<got, out, fh, obj, chan, reg, last, sout>>
    BY DEF EmulatorAnswers, EmulatorData, EmulatorDisconnects, peer, handler, client
  <1>3. SameClients
    BY <1>2 DEF SameClients, SameClient, Received
  <1>4. ASSUME NEW m \in Answers, EmulatorSends(m), m.chan = k,
               \A j \in Channels \ {k} : emu'[j] = emu[j] /\ sent'[j] = sent[j],
               \/ emu[k] = "asked" /\ m.op = "ok" /\ emu'[k] = "open" /\ sent'[k] = sent[k]
               \/ emu[k] = "asked" /\ m.op = "ko" /\ emu'[k] = "closed" /\ sent'[k] = sent[k]
               \/ emu[k] = "asked" /\ m.op = "refusal" /\ emu'[k] = "refused" /\ sent'[k] = sent[k]
               \/ /\ emu[k] = "open" /\ m.op = "data" /\ emu'[k] = "open"
                  /\ sent'[k] = sent[k] + 1 /\ m.n = sent[k] + 1
               \/ emu[k] = "open" /\ m.op = "disconnect" /\ emu'[k] = "closed" /\ sent'[k] = sent[k]
        PROVE  Effect
    <2>1. sin' = Append(sin, m)
      BY <1>4 DEF EmulatorSends
    <2>2. Behind(sin, sin', m) /\ Adds(sin, sin', m)
      BY <1>1, <2>1, AppendAdds
    <2>3. EmulatorStep(k, m)
      BY <1>2, <1>3, <1>4, <2>2 DEF EmulatorStep
    <2> QED BY <2>3 DEF Effect
  <1>5. ASSUME NEW op \in {"ok", "ko", "refusal", "disconnect", "data"}, NEW n \in 0 .. MaxData
        PROVE  \E m \in Answers : m = Msg(op, k, n) /\ m.op = op /\ m.chan = k /\ m.n = n
    <2>1. Msg(op, k, n) \in Answers
      BY DEF Msg, Answers
    <2>2. Msg(op, k, n).op = op /\ Msg(op, k, n).chan = k /\ Msg(op, k, n).n = n
      BY DEF Msg
    <2> QED BY <2>1, <2>2
  <1>6. CASE EmulatorAnswers(k)
    <2>1. PICK a \in Answers : a = Msg("ok", k, 0) /\ a.op = "ok" /\ a.chan = k
      BY <1>1, <1>5
    <2>2. PICK b \in Answers : b = Msg("ko", k, 0) /\ b.op = "ko" /\ b.chan = k
      BY <1>1, <1>5
    <2>3. PICK r \in Answers : r = Msg("refusal", k, 0) /\ r.op = "refusal" /\ r.chan = k
      BY <1>1, <1>5
    <2>4. /\ emu[k] = "asked" /\ sent' = sent
          /\ \A j \in Channels \ {k} : emu'[j] = emu[j]
          /\ \/ EmulatorSends(a) /\ emu'[k] = "open"
             \/ EmulatorSends(b) /\ emu'[k] = "closed"
             \/ EmulatorSends(r) /\ emu'[k] = "refused"
      BY <1>1, <1>6, <2>1, <2>2, <2>3 DEF EmulatorAnswers, QemudTypeOK
    <2> QED BY <1>4, <2>1, <2>2, <2>3, <2>4
  <1>7. CASE EmulatorData(k)
    <2>1. sent[k] + 1 \in 0 .. MaxData /\ emu' = emu /\ emu[k] = "open"
      BY <1>1, <1>7 DEF EmulatorData, QemudTypeOK
    <2>2. PICK n \in 0 .. MaxData : n = sent[k] + 1
      BY <2>1
    <2>3. PICK m \in Answers : m = Msg("data", k, n) /\ m.op = "data" /\ m.chan = k /\ m.n = n
      BY <1>5
    <2>4. EmulatorSends(m) /\ sent'[k] = n /\ \A j \in Channels \ {k} : sent'[j] = sent[j]
      BY <1>1, <1>7, <2>2, <2>3 DEF EmulatorData, QemudTypeOK
    <2> QED BY <1>4, <2>1, <2>2, <2>3, <2>4
  <1>8. CASE EmulatorDisconnects(k)
    <2>1. PICK m \in Answers : m = Msg("disconnect", k, 0) /\ m.op = "disconnect" /\ m.chan = k
      BY <1>1, <1>5
    <2>2. /\ EmulatorSends(m) /\ emu[k] = "open" /\ emu'[k] = "closed" /\ sent' = sent
          /\ \A j \in Channels \ {k} : emu'[j] = emu[j]
      BY <1>1, <1>8, <2>1 DEF EmulatorDisconnects, QemudTypeOK
    <2> QED BY <1>4, <2>1, <2>2
  <1> QED BY <1>6, <1>7, <1>8

\* Every step is one of these.
LEMMA StepEffect ==
  ASSUME IInv, ChanInv, [Next]_vars, last' >= last
  PROVE  Effect
  <1>1. CASE EpollWait \/ LoopEnds \/ \E i \in DOMAIN hooks : ShortWrite(i) \/ Sigpipe(i) \/ UseFreed(i)
    <2>1. UNCHANGED <<handler, client, serial, emulator, got>>
      BY <1>1 DEF EpollWait, LoopEnds, ShortWrite, Sigpipe, UseFreed, peer
    <2> QED BY <2>1, StillEffect
  <1>2. CASE Looper
    BY <1>1, <1>2, SerialInEffect, SerialOutEffect, AcceptEffect, ClientInEffect, ClientHupEffect,
       ClientOutEffect DEF Looper
  <1>3. CASE \E k \in Channels : EmulatorAnswers(k) \/ EmulatorData(k) \/ EmulatorDisconnects(k)
    BY <1>3, EmulatorEffect
  <1>4. CASE \E c \in Clients : Connect(c) \/ HangUp(c) \/ \E p \in {"short", "long"} : Send(c, p)
    <2>1. UNCHANGED <<handler, client, serial, emulator, got>>
      BY <1>4 DEF Connect, HangUp, Send
    <2> QED BY <2>1, StillEffect
  <1>5. CASE UNCHANGED vars
    <2>1. UNCHANGED <<handler, client, serial, emulator, got>>
      BY <1>5 DEF vars, peer
    <2> QED BY <2>1, StillEffect
  <1> QED BY <1>2, <1>3, <1>4, <1>5 DEF Next

\* Every step keeps the invariant.
LEMMA ChanStep ==
  ASSUME IInv, ChanInv, [Next]_vars, last' >= last
  PROVE  ChanInv'
  <1>1. Effect /\ QemudTypeOK
    BY StepEffect DEF IInv
  <1>2. CASE \E m \in Answers : \E c \in Clients :
               OkStep(c, m) \/ KoStep(c, m) \/ DataStep(c, m) \/ EndStep(c, m)
    BY <1>2, ChanOk, ChanKo, ChanDisconnect, ChanDrop
  <1>3. CASE \E m \in Answers : DropStep(m)
    BY <1>3, ChanDrop
  <1>4. CASE StillStep \/ \E c \in Clients : AcceptStep(c) \/ \E tell \in BOOLEAN : FreeStep(c, tell)
    BY <1>4, ChanSame, ChanAccept, ChanFree
  <1>5. CASE \E c \in Clients, k \in Channels, m \in Messages : ConnectStep(c, k, m)
    BY <1>5, ChanConnect
  <1>6. CASE \E m \in Messages : WriteStep(m)
    BY <1>1, <1>6, ChanWritten
  <1>7. CASE \E k \in Channels, m \in Answers : EmulatorStep(k, m)
    BY <1>1, <1>7, ChanEmulator
  <1> QED BY <1>1, <1>2, <1>3, <1>4, <1>5, <1>6, <1>7 DEF Effect

\* In the first state no channel was given out.
LEMMA ChanInit ==
  ASSUME Init
  PROVE  ChanInv
  <1>1. /\ \A k : ~About(sout, k) /\ ~About(sin, k)
        /\ \A op, k : ~OnWire(sout, op, k) /\ ~OnWire(sin, op, k)
        /\ Once(sout)
    BY DEF Init, About, OnWire, Once
  <1>2. /\ \A c \in Clients : /\ fh[c] = "none" /\ obj[c] = "none" /\ chan[c] = NoChannel
                              /\ reg[c] = FALSE
        /\ \A k \in Channels : emu[k] = "closed" /\ sent[k] = 0
    BY DEF Init
  <1> QED BY <1>1, <1>2 DEF ChanInv, ClientLife, OnlyGiven, OneOwner, Asked, Asking, AskedOnce,
                           Ended, SignedOff, OwnerHasOpen, OpenHasOwner

\* the numbers of channels have not started again: last_channel only grows
NoWrap == last' >= last

\* As long as the channel numbers have not started again, qemud and the emulator agree
\* on which channels are connected, in whatever order packets, answers, hang-ups and
\* disconnections come (qemud.c:41-66).
THEOREM ChannelsAlwaysAgree == Spec /\ [][NoWrap]_vars => []ChannelsAgree
  <1>1. Init => IInv /\ ChanInv
    BY InitHolds, ChanInit
  <1>2. IInv /\ ChanInv /\ [Next]_vars /\ [NoWrap]_vars => IInv' /\ ChanInv'
    <2> SUFFICES ASSUME IInv, ChanInv, [Next]_vars, [NoWrap]_vars PROVE IInv' /\ ChanInv'
      OBVIOUS
    <2>1. last' >= last
      <3>1. CASE UNCHANGED vars
        <4>1. last' = last /\ last \in Nat
          BY <3>1, GivenAre DEF vars, client, IInv
        <4> QED BY <4>1
      <3> QED BY <3>1 DEF NoWrap
    <2> QED BY <2>1, StepKeeps, ChanStep
  <1>3. IInv /\ ChanInv => ChannelsAgree
    BY DEF ChanInv, OwnerHasOpen, OpenHasOwner, ChannelsAgree
  <1> QED BY <1>1, <1>2, <1>3, PTL DEF Spec

-----------------------------------------------------------------------------
(* Delivery: packets on the line, packets received *)

IsData(x, k) == x.op = "data" /\ x.chan = k

\* the data for channel k in s is numbered from p + 1 to e, in order
Rest(s, k, p, e) ==
    /\ \A i \in DOMAIN s : IsData(s[i], k) => s[i].n \in p + 1 .. e
    /\ \A n \in p + 1 .. e : \E i \in DOMAIN s : IsData(s[i], k) /\ s[i].n = n
    /\ \A i, j \in DOMAIN s : i < j /\ IsData(s[i], k) /\ IsData(s[j], k) => s[i].n < s[j].n

\* r refusals, OK and the first p packets
Passed(q, r, p) ==
    /\ Len(q) = r + 1 + p
    /\ \A i \in 1 .. Len(q) : q[i] = IF i <= r THEN KO ELSE i - r - 1

\* q was received, s is on the line, and together they are the e packets sent
InOrder(q, s, k, e) == \E r, p \in Nat : p <= e /\ Passed(q, r, p) /\ Rest(s, k, p, e)

\* No data is on the line: all was passed on.
LEMMA RestNone ==
  ASSUME NEW s, NEW k, NEW e \in Nat, ~About(s, k)
  PROVE  Rest(s, k, e, e)
  BY DEF About, Rest, IsData

\* A message that is not data for k is put on the line.
LEMMA RestBehind ==
  ASSUME NEW s, NEW t, NEW m, Behind(s, t, m), NEW k, ~IsData(m, k), NEW p, NEW e, Rest(s, k, p, e)
  PROVE  Rest(t, k, p, e)
  <1>1. /\ \A i \in DOMAIN t : IsData(t[i], k) => i \in DOMAIN s /\ t[i] = s[i]
        /\ \A i \in DOMAIN s : i \in DOMAIN t /\ t[i] = s[i]
    BY DEF Behind
  <1> QED BY <1>1 DEF Rest

\* A message that is not data for k is taken from it.
LEMMA RestBefore ==
  ASSUME NEW s, NEW t, NEW m, Before(s, t, m), NEW k, ~IsData(m, k), NEW p, NEW e, Rest(s, k, p, e)
  PROVE  Rest(t, k, p, e)
  <1>1. /\ \A i \in DOMAIN t : i + 1 \in DOMAIN s /\ t[i] = s[i + 1]
        /\ \A i \in DOMAIN s : IsData(s[i], k) => i - 1 \in DOMAIN t /\ t[i - 1] = s[i]
        /\ \A i, j \in DOMAIN t : i < j => i + 1 < j + 1
    BY DEF Before
  <1>2. \A i \in DOMAIN t : IsData(t[i], k) => t[i].n \in p + 1 .. e
    BY <1>1 DEF Rest
  <1>3. \A n \in p + 1 .. e : \E i \in DOMAIN t : IsData(t[i], k) /\ t[i].n = n
    BY <1>1 DEF Rest
  <1>4. \A i, j \in DOMAIN t : i < j /\ IsData(t[i], k) /\ IsData(t[j], k) => t[i].n < t[j].n
    BY <1>1 DEF Rest
  <1> QED BY <1>2, <1>3, <1>4 DEF Rest

\* The next packet is put on the line.
LEMMA RestPushed ==
  ASSUME NEW s, NEW t, NEW m, Behind(s, t, m), NEW k, NEW p \in Nat, NEW e \in Nat, p <= e,
         IsData(m, k), m.n = e + 1, Rest(s, k, p, e)
  PROVE  Rest(t, k, p, e + 1)
  <1>1. /\ \A i \in DOMAIN t : \/ i \in DOMAIN s /\ t[i] = s[i]
                               \/ i = Len(s) + 1 /\ t[i] = m /\ i \notin DOMAIN s
        /\ \A i \in DOMAIN s : i \in DOMAIN t /\ t[i] = s[i] /\ ~(Len(s) + 1 < i)
        /\ Len(s) + 1 \in DOMAIN t /\ t[Len(s) + 1] = m /\ Len(s) \in Nat
    BY DEF Behind
  <1>2. \A i \in DOMAIN t : IsData(t[i], k) => t[i].n \in p + 1 .. e + 1
    BY <1>1 DEF Rest
  <1>3. ASSUME NEW n \in p + 1 .. e + 1 PROVE \E i \in DOMAIN t : IsData(t[i], k) /\ t[i].n = n
    <2>1. CASE n = e + 1
      BY <1>1, <2>1
    <2>2. CASE n \in p + 1 .. e
      BY <1>1, <2>2 DEF Rest
    <2> QED BY <2>1, <2>2
  <1>4. ASSUME NEW i \in DOMAIN t, NEW j \in DOMAIN t, i < j, IsData(t[i], k), IsData(t[j], k)
        PROVE  t[i].n < t[j].n
    <2>1. CASE j \in DOMAIN s
      <3>1. i \in DOMAIN s
        BY <1>1, <1>4, <2>1
      <3> QED BY <1>1, <1>4, <2>1, <3>1 DEF Rest
    <2>2. CASE j \notin DOMAIN s
      <3>1. j = Len(s) + 1 /\ t[j] = m /\ i \in DOMAIN s
        BY <1>1, <1>4, <2>2
      <3>2. s[i].n \in p + 1 .. e /\ t[i] = s[i]
        BY <1>1, <1>4, <3>1 DEF Rest
      <3> QED BY <3>1, <3>2
    <2> QED BY <2>1, <2>2
  <1> QED BY <1>2, <1>3, <1>4 DEF Rest

\* The first packet is taken from the line: it is the one that is due.
LEMMA RestPopped ==
  ASSUME NEW s, NEW t, NEW m, Before(s, t, m), NEW k, NEW p \in Nat, NEW e \in Nat,
         IsData(m, k), Rest(s, k, p, e)
  PROVE  m.n = p + 1 /\ p + 1 <= e /\ Rest(t, k, p + 1, e)
  <1>1. /\ \A i \in DOMAIN t : i + 1 \in DOMAIN s /\ t[i] = s[i + 1] /\ 1 < i + 1
        /\ \A i \in DOMAIN s : i = 1 \/ (i - 1 \in DOMAIN t /\ t[i - 1] = s[i] /\ 1 < i)
        /\ \A i, j \in DOMAIN t : i < j => i + 1 < j + 1
        /\ 1 \in DOMAIN s /\ s[1] = m
    BY DEF Before
  <1>2. m.n \in p + 1 .. e
    BY <1>1 DEF Rest
  <1>3. PICK i \in DOMAIN s : IsData(s[i], k) /\ s[i].n = p + 1
    BY <1>2 DEF Rest
  <1>4. m.n = p + 1
    <2>1. CASE i = 1
      BY <1>1, <1>3, <2>1
    <2>2. ASSUME i # 1 PROVE FALSE
      <3>1. m.n < p + 1
        BY <1>1, <1>3, <2>2 DEF Rest
      <3> QED BY <1>2, <3>1
    <2> QED BY <2>1, <2>2
  <1>5. ASSUME NEW j \in DOMAIN t, IsData(t[j], k) PROVE t[j].n \in p + 2 .. e
    <2>1. s[j + 1].n \in p + 1 .. e /\ s[1].n < s[j + 1].n
      BY <1>1, <1>5 DEF Rest
    <2> QED BY <1>1, <1>4, <2>1
  <1>6. ASSUME NEW n \in p + 2 .. e PROVE \E j \in DOMAIN t : IsData(t[j], k) /\ t[j].n = n
    <2>1. n \in p + 1 .. e /\ n # p + 1
      OBVIOUS
    <2>2. PICK j \in DOMAIN s : IsData(s[j], k) /\ s[j].n = n
      BY <2>1 DEF Rest
    <2>3. j # 1
      BY <1>1, <1>4, <2>1, <2>2
    <2> QED BY <1>1, <2>2, <2>3
  <1>7. \A i1, j \in DOMAIN t : i1 < j /\ IsData(t[i1], k) /\ IsData(t[j], k) => t[i1].n < t[j].n
    BY <1>1 DEF Rest
  <1>8. p + 1 + 1 = p + 2
    OBVIOUS
  <1> QED BY <1>2, <1>4, <1>5, <1>6, <1>7, <1>8 DEF Rest

\* Only the line changes, and not in what is for k.
LEMMA InOrderOther ==
  ASSUME NEW s, NEW t, NEW m, Behind(s, t, m) \/ Before(s, t, m), NEW k, ~IsData(m, k), NEW q,
         NEW e, InOrder(q, s, k, e)
  PROVE  InOrder(q, t, k, e)
  BY RestBehind, RestBefore DEF InOrder

\* The emulator sends a packet.
LEMMA InOrderPushed ==
  ASSUME NEW s, NEW t, NEW m, Behind(s, t, m), NEW k, NEW q, NEW e \in Nat,
         IsData(m, k), m.n = e + 1, InOrder(q, s, k, e)
  PROVE  InOrder(q, t, k, e + 1)
  <1>1. PICK r \in Nat, p \in Nat : p <= e /\ Passed(q, r, p) /\ Rest(s, k, p, e)
    BY DEF InOrder
  <1>2. Rest(t, k, p, e + 1) /\ p <= e + 1
    BY <1>1, RestPushed
  <1> QED BY <1>1, <1>2 DEF InOrder

\* A packet goes behind those that were received.
LEMMA PassedMore ==
  ASSUME NEW S, NEW q \in Seq(S), NEW r \in Nat, NEW p \in Nat, Passed(q, r, p), p + 1 \in S
  PROVE  Passed(Append(q, p + 1), r, p + 1)
  <1>1. PICK z, x : x = p + 1 /\ x \in S /\ z = Append(q, x)
    OBVIOUS
  <1>2. Len(z) = Len(q) + 1 /\ (\A i \in 1 .. Len(q) : z[i] = q[i]) /\ z[Len(q) + 1] = x
    BY <1>1, AppendProperties
  <1>3. Len(q) = r + 1 + p /\ \A i \in 1 .. Len(q) : q[i] = IF i <= r THEN KO ELSE i - r - 1
    BY DEF Passed
  <1>4. \A i \in 1 .. Len(z) : z[i] = IF i <= r THEN KO ELSE i - r - 1
    <2>1. ASSUME NEW i \in 1 .. Len(z) PROVE i \in 1 .. Len(q) \/ i = Len(q) + 1
      BY <1>2, <1>3
    <2> QED BY <1>1, <1>2, <1>3, <2>1
  <1>5. Len(z) = r + 1 + (p + 1)
    BY <1>2, <1>3
  <1> QED BY <1>1, <1>4, <1>5 DEF Passed

\* A packet is passed on.
LEMMA InOrderPopped ==
  ASSUME NEW s, NEW t, NEW m, Before(s, t, m), NEW k, NEW S, NEW q \in Seq(S), NEW e \in Nat,
         m.n \in S, IsData(m, k), InOrder(q, s, k, e)
  PROVE  InOrder(Append(q, m.n), t, k, e)
  <1>1. PICK r \in Nat, p \in Nat : p <= e /\ Passed(q, r, p) /\ Rest(s, k, p, e)
    BY DEF InOrder
  <1>2. m.n = p + 1 /\ p + 1 <= e /\ Rest(t, k, p + 1, e)
    BY <1>1, RestPopped
  <1>3. Passed(Append(q, p + 1), r, p + 1)
    BY <1>1, <1>2, PassedMore
  <1>4. PICK p1 \in Nat : p1 = p + 1
    OBVIOUS
  <1> QED BY <1>2, <1>3, <1>4 DEF InOrder

\* The service was found, after refusals only.
LEMMA InOrderStarts ==
  ASSUME NEW S, NEW q \in Seq(S), OK \in S, \A i \in DOMAIN q : q[i] = KO,
         NEW s, NEW k, NEW e \in Nat, Rest(s, k, 0, e)
  PROVE  InOrder(Append(q, OK), s, k, e)
  <1>1. PICK z, x : x = OK /\ x \in S /\ z = Append(q, x)
    OBVIOUS
  <1>2. /\ Len(z) = Len(q) + 1 /\ (\A i \in 1 .. Len(q) : z[i] = q[i]) /\ z[Len(q) + 1] = x
        /\ Len(q) \in Nat /\ DOMAIN q = 1 .. Len(q)
    BY <1>1, AppendProperties, LenProperties
  <1>3. \A i \in 1 .. Len(z) : z[i] = IF i <= Len(q) THEN KO ELSE i - Len(q) - 1
    <2>1. ASSUME NEW i \in 1 .. Len(z) PROVE i \in 1 .. Len(q) \/ i = Len(q) + 1
      BY <1>2
    <2>2. x = 0
      BY <1>1 DEF OK
    <2> QED BY <1>2, <2>1, <2>2
  <1>4. Passed(z, Len(q), 0)
    BY <1>2, <1>3 DEF Passed
  <1> QED BY <1>1, <1>2, <1>4 DEF InOrder

-----------------------------------------------------------------------------
(* Delivery: the invariant *)

\* on a channel, the answer comes first, and nothing after a refusal or the end
WireOrder ==
    \A i, j \in DOMAIN sin : i < j /\ sin[i].chan = sin[j].chan =>
        /\ sin[j].op # "ok" /\ sin[j].op # "ko"
        /\ sin[i].op # "ko" /\ sin[i].op # "disconnect"

\* before the answer nothing was passed on: all data sent is on the line
Starts == \A k \in Channels : OnWire(sin, "ok", k) => Rest(sin, k, 0, sent[k])

\* whoever is to be answered is not registered
Unanswered ==
    \A c \in Clients : OnWire(sin, "ok", chan[c]) \/ OnWire(sin, "ko", chan[c]) => ~reg[c]

\* data for a client that waits has the answer before it
DataAfterOk ==
    \A c \in Clients : obj[c] = "live" /\ ~reg[c] /\ OnWire(sin, "data", chan[c]) =>
        OnWire(sin, "ok", chan[c])

\* nothing comes for a client that the emulator disconnected
Done ==
    \A c \in Clients : fh[c] = "closing" /\ reg[c] => emu[chan[c]] = "closed" /\ ~About(sin, chan[c])

\* a client that waits was only refused so far
Refused ==
    \A c \in Clients : fh[c] \in {"none", "active"} /\ ~reg[c] =>
        \A i \in DOMAIN Received(c) : Received(c)[i] = KO

Delivered ==
    \A c \in Clients : Alive(c) /\ reg[c] => InOrder(Received(c), sin, chan[c], sent[chan[c]])

DelInv ==
    WireOrder /\ Starts /\ Unanswered /\ DataAfterOk /\ Done /\ Refused /\ Delivered

\* A registered client has a channel, and the emulator counts what it sends on it.
LEMMA RegisteredHas ==
  ASSUME QemudTypeOK, ChanInv
  PROVE  /\ \A c \in Clients : reg[c] => chan[c] \in Channels /\ chan[c] # NoChannel
         /\ \A k \in Channels : sent[k] \in Nat /\ k # NoChannel
         /\ ~About(sin, NoChannel) /\ \A op : ~OnWire(sin, op, NoChannel)
  <1>1. MaxData \in Nat
    BY BoundsAssumption
  <1>2. ~About(sin, NoChannel)
    BY DEF ChanInv, OnlyGiven, Given, NoChannel
  <1>3. \A k \in Channels : sent[k] \in Nat /\ k # NoChannel
    BY <1>1, NumChannelsAssumption DEF QemudTypeOK, Channels, NoChannel
  <1> QED BY <1>2, <1>3, GivenAre DEF ChanInv, ClientLife, OnlyGiven, About, OnWire

\* The invariant relates clients to the line only through what SameClient keeps.
LEMMA DelSame ==
  ASSUME DelInv, StillStep
  PROVE  DelInv'
  <1> USE DEF StillStep, SameClients, SameClient, DelInv
  <1>1. WireOrder'
    BY DEF WireOrder
  <1>2. Starts'
    BY DEF Starts
  <1>3. Unanswered' /\ DataAfterOk'
    BY DEF Unanswered, DataAfterOk
  <1>4. Done'
    BY DEF Done
  <1>5. Refused'
    BY DEF Refused
  <1>6. Delivered'
    BY DEF Delivered, Alive
  <1> QED BY <1>1, <1>2, <1>3, <1>4, <1>5, <1>6

\* A client is accepted.
LEMMA DelAccept ==
  ASSUME QemudTypeOK, ChanInv, DelInv, NEW c \in Clients, AcceptStep(c)
  PROVE  DelInv'
  <1> USE DEF AcceptStep, Others, SameClient, DelInv
  <1>0. ~reg[c] /\ chan[c] = NoChannel /\ \A op : ~OnWire(sin, op, chan[c])
    BY RegisteredHas DEF ChanInv, ClientLife
  <1>1. WireOrder'
    BY DEF WireOrder
  <1>2. Starts'
    BY DEF Starts
  <1>3. Unanswered' /\ DataAfterOk'
    BY <1>0 DEF Unanswered, DataAfterOk
  <1>4. Done'
    BY <1>0 DEF Done
  <1>5. Refused'
    BY DEF Refused
  <1>6. Delivered'
    BY <1>0 DEF Delivered, Alive
  <1> QED BY <1>1, <1>2, <1>3, <1>4, <1>5, <1>6

\* A Client is freed by qemud; its handler is only kept if it was not registered.
LEMMA DelFree ==
  ASSUME DelInv, NEW c \in Clients, NEW tell \in BOOLEAN, FreeStep(c, tell)
  PROVE  DelInv'
  <1> USE DEF FreeStep, Others, SameClient, DelInv
  <1>1. WireOrder'
    BY DEF WireOrder
  <1>2. Starts'
    BY DEF Starts
  <1>3. Unanswered' /\ DataAfterOk'
    BY DEF Unanswered, DataAfterOk
  <1>4. Done'
    BY DEF Done
  <1>5. Refused'
    BY DEF Refused
  <1>6. Delivered'
    BY DEF Delivered, Alive
  <1> QED BY <1>1, <1>2, <1>3, <1>4, <1>5, <1>6

\* A client gets a channel nothing was ever said of.
LEMMA DelConnect ==
  ASSUME ChanInv, DelInv, NEW c \in Clients, NEW k \in Channels, NEW m, ConnectStep(c, k, m)
  PROVE  DelInv'
  <1> USE DEF ConnectStep, Others, SameClient, DelInv
  <1>0. \A op : ~OnWire(sin, op, k)
    BY DEF ChanInv, OnlyGiven, Given, OnWire, About
  <1>1. WireOrder'
    BY DEF WireOrder
  <1>2. Starts'
    BY DEF Starts
  <1>3. Unanswered' /\ DataAfterOk'
    BY <1>0 DEF Unanswered, DataAfterOk
  <1>4. Done'
    BY DEF Done
  <1>5. Refused'
    BY DEF Refused
  <1>6. Delivered'
    BY DEF Delivered, Alive
  <1> QED BY <1>1, <1>2, <1>3, <1>4, <1>5, <1>6

\* What is left on the line when its first message was read.
LEMMA WireReads ==
  ASSUME DelInv, NEW m, Reads(m)
  PROVE  /\ WireOrder' /\ Starts'
         /\ ~OnWire(sin', "ok", m.chan) /\ ~OnWire(sin', "ko", m.chan)
         /\ m.op = "ko" \/ m.op = "disconnect" => ~About(sin', m.chan)
         /\ About(sin, m.chan) /\ OnWire(sin, m.op, m.chan)
         /\ \A k : About(sin', k) => About(sin, k)
         /\ \A op, k : OnWire(sin', op, k) => OnWire(sin, op, k)
         /\ \A op, k : k # m.chan /\ OnWire(sin, op, k) => OnWire(sin', op, k)
  <1>1. /\ \A i \in DOMAIN sin' : i + 1 \in DOMAIN sin /\ sin'[i] = sin[i + 1] /\ 1 < i + 1
        /\ \A i, j \in DOMAIN sin' : i < j => i + 1 < j + 1
        /\ 1 \in DOMAIN sin /\ sin[1] = m
    BY DEF Reads, Before
  <1>2. WireOrder'
    BY <1>1 DEF DelInv, WireOrder
  <1>3. /\ ~OnWire(sin', "ok", m.chan) /\ ~OnWire(sin', "ko", m.chan)
        /\ m.op = "ko" \/ m.op = "disconnect" => ~About(sin', m.chan)
    BY <1>1 DEF DelInv, WireOrder, OnWire, About
  <1>4. ASSUME NEW k \in Channels, OnWire(sin', "ok", k) PROVE Rest(sin', k, 0, sent[k])
    <2>1. k # m.chan /\ OnWire(sin, "ok", k)
      BY <1>3, <1>4 DEF Reads, Adds
    <2>2. Rest(sin, k, 0, sent[k]) /\ ~IsData(m, k)
      BY <2>1 DEF DelInv, Starts, IsData
    <2> QED BY <2>2, RestBefore DEF Reads
  <1>5. Starts'
    BY <1>4 DEF Starts, Reads
  <1> QED BY <1>2, <1>3, <1>5 DEF Reads, Adds

\* A message for nobody is dropped.
LEMMA DelDrop ==
  ASSUME QemudTypeOK, ChanInv, DelInv, NEW m, DropStep(m)
  PROVE  DelInv'
  <1> USE DEF DropStep, SameClients, SameClient
  <1>0. sent' = sent /\ emu' = emu
    BY DEF Reads
  <1>1. /\ WireOrder' /\ Starts' /\ About(sin, m.chan)
        /\ \A k : About(sin', k) => About(sin, k)
        /\ \A op, k : OnWire(sin', op, k) => OnWire(sin, op, k)
        /\ \A op, k : (k # m.chan \/ op # m.op) /\ OnWire(sin, op, k) => OnWire(sin', op, k)
    BY WireReads DEF Reads, Adds
  <1>2. Unanswered'
    BY <1>1 DEF DelInv, Unanswered
  <1>3. DataAfterOk'
    BY <1>1 DEF DelInv, DataAfterOk
  <1>4. Done'
    BY <1>0, <1>1 DEF DelInv, Done
  <1>5. Refused'
    BY DEF DelInv, Refused
  <1>6. ASSUME NEW d \in Clients, Alive(d), reg[d]
        PROVE  InOrder(Received(d), sin', chan[d], sent[chan[d]])
    <2>1. m.op = "refusal" \/ chan[d] # m.chan
      <3>1. CASE fh[d] = "active"
        BY <3>1 DEF ChanInv, ClientLife
      <3>2. CASE fh[d] = "closing"
        BY <1>1, <1>6, <3>2 DEF DelInv, Done
      <3> QED BY <1>6, <3>1, <3>2 DEF Alive
    <2>2. ~IsData(m, chan[d])
      BY <2>1 DEF IsData
    <2>3. InOrder(Received(d), sin, chan[d], sent[chan[d]])
      BY <1>6 DEF DelInv, Delivered
    <2> QED BY <2>2, <2>3, InOrderOther DEF Reads
  <1>7. Delivered'
    BY <1>0, <1>6 DEF Delivered, Alive
  <1> QED BY <1>1, <1>2, <1>3, <1>4, <1>5, <1>7 DEF DelInv

\* The message is for client c: the others are left alone, and it is not for them.
LEMMA DelOthers ==
  ASSUME QemudTypeOK, ChanInv, DelInv, NEW c \in Clients, NEW m, ForClient(c, m),
         NEW d \in Clients, d # c
  PROVE  /\ fh'[d] = fh[d] /\ obj'[d] = obj[d] /\ chan'[d] = chan[d] /\ reg'[d] = reg[d]
         /\ Received(d)' = Received(d)
         /\ chan[d] # m.chan
         /\ OnWire(sin', "ok", chan[d]) \/ OnWire(sin', "ko", chan[d]) => ~reg[d]
         /\ obj[d] = "live" /\ ~reg[d] /\ OnWire(sin', "data", chan[d]) => OnWire(sin', "ok", chan[d])
         /\ fh[d] = "closing" /\ reg[d] => emu[chan[d]] = "closed" /\ ~About(sin', chan[d])
         /\ fh[d] \in {"none", "active"} /\ ~reg[d] => \A i \in DOMAIN Received(d) : Received(d)[i] = KO
         /\ Alive(d) /\ reg[d] => InOrder(Received(d), sin', chan[d], sent[chan[d]])
  <1>1. /\ \A k : About(sin', k) => About(sin, k)
        /\ \A op, k : OnWire(sin', op, k) => OnWire(sin, op, k)
        /\ \A op, k : k # m.chan /\ OnWire(sin, op, k) => OnWire(sin', op, k)
    BY WireReads DEF ForClient
  <1>2. SameClient(d)
    BY DEF ForClient, Others
  <1>3. chan[d] # m.chan
    BY RegisteredHas DEF ForClient, ChanInv, OneOwner
  <1>4. Alive(d) /\ reg[d] => InOrder(Received(d), sin', chan[d], sent[chan[d]])
    <2> SUFFICES ASSUME Alive(d), reg[d] PROVE InOrder(Received(d), sin', chan[d], sent[chan[d]])
      OBVIOUS
    <2>1. InOrder(Received(d), sin, chan[d], sent[chan[d]]) /\ ~IsData(m, chan[d])
      BY <1>3 DEF DelInv, Delivered, IsData
    <2> QED BY <2>1, InOrderOther DEF ForClient, Reads
  <1>5. OnWire(sin', "ok", chan[d]) \/ OnWire(sin', "ko", chan[d]) => ~reg[d]
    BY <1>1 DEF DelInv, Unanswered
  <1>6. obj[d] = "live" /\ ~reg[d] /\ OnWire(sin', "data", chan[d]) => OnWire(sin', "ok", chan[d])
    BY <1>1, <1>3 DEF DelInv, DataAfterOk
  <1>7. fh[d] = "closing" /\ reg[d] => emu[chan[d]] = "closed" /\ ~About(sin', chan[d])
    BY <1>1 DEF DelInv, Done
  <1>8. fh[d] \in {"none", "active"} /\ ~reg[d] => \A i \in DOMAIN Received(d) : Received(d)[i] = KO
    BY DEF DelInv, Refused
  <1> QED BY <1>2, <1>3, <1>4, <1>5, <1>6, <1>7, <1>8 DEF SameClient

\* The message is for client c: what is to be shown of c itself.
LEMMA DelForClient ==
  ASSUME QemudTypeOK, ChanInv, DelInv, NEW c \in Clients, NEW m, ForClient(c, m),
         OnWire(sin', "ok", chan'[c]) \/ OnWire(sin', "ko", chan'[c]) => ~reg'[c],
         obj'[c] = "live" /\ ~reg'[c] /\ OnWire(sin', "data", chan'[c]) => OnWire(sin', "ok", chan'[c]),
         fh'[c] = "closing" /\ reg'[c] => emu[chan'[c]] = "closed" /\ ~About(sin', chan'[c]),
         fh'[c] \in {"none", "active"} /\ ~reg'[c] =>
            \A i \in DOMAIN Received(c)' : Received(c)'[i] = KO,
         Alive(c)' /\ reg'[c] => InOrder(Received(c)', sin', chan'[c], sent[chan'[c]])
  PROVE  DelInv'
  <1>0. sent' = sent /\ emu' = emu
    BY DEF ForClient, Reads
  <1>1. WireOrder' /\ Starts'
    BY WireReads DEF ForClient
  <1>2. Unanswered'
    BY DelOthers DEF Unanswered
  <1>3. DataAfterOk'
    BY DelOthers DEF DataAfterOk
  <1>4. Done'
    BY <1>0, DelOthers DEF Done
  <1>5. Refused'
    BY DelOthers DEF Refused
  <1>6. Delivered'
    <2> SUFFICES ASSUME NEW d \in Clients, Alive(d)', reg'[d]
                 PROVE  InOrder(Received(d)', sin', chan'[d], sent[chan'[d]])
      BY <1>0 DEF Delivered
    <2>1. CASE d = c
      BY <2>1
    <2>2. CASE d # c
      BY <2>2, DelOthers DEF Alive
    <2> QED BY <2>1, <2>2
  <1> QED BY <1>1, <1>2, <1>3, <1>4, <1>5, <1>6 DEF DelInv

\* The client is told that its service was found: what comes next is the first packet.
LEMMA DelOk ==
  ASSUME QemudTypeOK, ChanInv, DelInv, NEW c \in Clients, NEW m, OkStep(c, m)
  PROVE  DelInv'
  <1>1. /\ ForClient(c, m) /\ m.op = "ok" /\ m.chan = chan[c] /\ chan[c] \in Channels
        /\ fh'[c] = fh[c] /\ obj'[c] = obj[c] /\ chan'[c] = chan[c] /\ reg'[c] = TRUE
        /\ Received(c) \in Seq(Packets) /\ Received(c)' = Append(Received(c), OK) /\ obj[c] = "live"
    BY DEF OkStep, ForClient
  <1>2. /\ ~OnWire(sin', "ok", chan[c]) /\ ~OnWire(sin', "ko", chan[c])
        /\ OnWire(sin, "ok", chan[c])
    BY <1>1, WireReads DEF ForClient
  <1>3. fh[c] = "active" /\ ~reg[c] /\ sent[chan[c]] \in Nat
    BY <1>1, <1>2, RegisteredHas DEF ChanInv, ClientLife, DelInv, Unanswered
  <1>4. \A i \in DOMAIN Received(c) : Received(c)[i] = KO
    BY <1>3 DEF DelInv, Refused
  <1>5. Rest(sin, chan[c], 0, sent[chan[c]]) /\ ~IsData(m, chan[c])
    BY <1>1, <1>2 DEF DelInv, Starts, IsData
  <1>6. Rest(sin', chan[c], 0, sent[chan[c]])
    BY <1>1, <1>5, RestBefore DEF ForClient, Reads
  <1>7. OK \in Packets
    BY DEF Packets
  <1>8. PICK q \in Seq(Packets), k \in Channels : q = Received(c) /\ k = chan[c]
    BY <1>1
  <1>9. InOrder(Append(q, OK), sin', k, sent[k])
    BY <1>3, <1>4, <1>6, <1>7, <1>8, InOrderStarts
  <1>10. InOrder(Received(c)', sin', chan'[c], sent[chan'[c]])
    BY <1>1, <1>8, <1>9
  <1> QED BY <1>1, <1>2, <1>3, <1>10, DelForClient

\* The service was not found; the client may try another one.
LEMMA DelKo ==
  ASSUME QemudTypeOK, ChanInv, DelInv, NEW c \in Clients, NEW m, KoStep(c, m)
  PROVE  DelInv'
  <1>1. /\ ForClient(c, m) /\ m.op = "ko" /\ m.chan = chan[c] /\ chan[c] \in Channels
        /\ fh'[c] = fh[c] /\ obj'[c] = obj[c] /\ chan'[c] = NoChannel /\ reg'[c] = FALSE
        /\ Received(c) \in Seq(Packets) /\ Received(c)' = Append(Received(c), KO) /\ obj[c] = "live"
    BY DEF KoStep, ForClient
  <1>2. OnWire(sin, "ko", chan[c]) /\ \A op : ~OnWire(sin', op, NoChannel)
    BY <1>1, WireReads, RegisteredHas DEF ForClient
  <1>3. fh[c] = "active" /\ ~reg[c]
    BY <1>1, <1>2 DEF ChanInv, ClientLife, DelInv, Unanswered
  <1>4. \A i \in DOMAIN Received(c) : Received(c)[i] = KO
    BY <1>3 DEF DelInv, Refused
  <1>5. PICK q \in Seq(Packets), x \in Packets : q = Received(c) /\ x = KO
    BY <1>1 DEF Packets
  <1>6. /\ Append(q, x) \in Seq(Packets) /\ Len(Append(q, x)) = Len(q) + 1
        /\ \A i \in 1 .. Len(q) : Append(q, x)[i] = q[i]
        /\ Append(q, x)[Len(q) + 1] = x
    BY AppendProperties
  <1>7. /\ DOMAIN q = 1 .. Len(q) /\ Len(q) \in Nat /\ DOMAIN Append(q, x) = 1 .. Len(Append(q, x))
    BY <1>6, LenProperties
  <1>8. \A i \in DOMAIN q : q[i] = x
    BY <1>4, <1>5
  <1>9. ASSUME NEW i \in DOMAIN Append(q, x) PROVE Append(q, x)[i] = x
    <2>1. i \in 1 .. Len(q) \/ i = Len(q) + 1
      BY <1>6, <1>7
    <2> QED BY <1>6, <1>7, <1>8, <2>1
  <1>10. \A i \in DOMAIN Received(c)' : Received(c)'[i] = KO
    BY <1>1, <1>5, <1>9
  <1> QED BY <1>1, <1>2, <1>3, <1>10, DelForClient

\* A packet is passed on: it is the one that is due.
LEMMA DelData ==
  ASSUME QemudTypeOK, ChanInv, DelInv, NEW c \in Clients, NEW m, DataStep(c, m)
  PROVE  DelInv'
  <1>1. /\ ForClient(c, m) /\ m.op = "data" /\ m.chan = chan[c] /\ chan[c] \in Channels
        /\ fh'[c] = fh[c] /\ obj'[c] = obj[c] /\ chan'[c] = chan[c] /\ reg'[c] = reg[c]
        /\ Received(c) \in Seq(Packets) /\ Received(c)' = Append(Received(c), m.n) /\ obj[c] = "live"
        /\ m.n \in Packets /\ Before(sin, sin', m)
    BY DEF DataStep, ForClient, Reads
  <1>2. /\ ~OnWire(sin', "ok", chan[c]) /\ ~OnWire(sin', "ko", chan[c])
        /\ OnWire(sin, "data", chan[c])
    BY <1>1, WireReads DEF ForClient
  <1>3. ~OnWire(sin, "ok", chan[c])
    BY <1>1, <1>2 DEF ForClient, Reads, Adds
  <1>4. fh[c] = "active" /\ reg[c] = TRUE /\ sent[chan[c]] \in Nat
    BY <1>1, <1>2, <1>3, RegisteredHas DEF ChanInv, ClientLife, DelInv, DataAfterOk, QemudTypeOK
  <1>5. PICK q \in Seq(Packets), k \in Channels : q = Received(c) /\ k = chan[c]
    BY <1>1
  <1>6. InOrder(q, sin, k, sent[k]) /\ IsData(m, k)
    BY <1>1, <1>4, <1>5 DEF DelInv, Delivered, Alive, IsData
  <1>7. InOrder(Append(q, m.n), sin', k, sent[k])
    BY <1>1, <1>4, <1>5, <1>6, InOrderPopped
  <1>8. InOrder(Received(c)', sin', chan'[c], sent[chan'[c]])
    BY <1>1, <1>5, <1>7
  <1> QED BY <1>1, <1>2, <1>4, <1>8, DelForClient

\* The emulator disconnects the client: all it was sent was passed on before.
LEMMA DelEnd ==
  ASSUME QemudTypeOK, ChanInv, DelInv, NEW c \in Clients, NEW m, EndStep(c, m)
  PROVE  DelInv'
  <1>1. /\ ForClient(c, m) /\ m.op = "disconnect" /\ m.chan = chan[c] /\ chan[c] \in Channels
        /\ fh'[c] \in {"closing", "freed"} /\ obj'[c] = "freed" /\ chan'[c] = chan[c]
        /\ reg'[c] = reg[c] /\ obj[c] = "live" /\ Before(sin, sin', m)
        /\ fh'[c] = "closing" => Received(c)' = Received(c)
    BY DEF EndStep, ForClient, Reads
  <1>2. ~About(sin', chan[c]) /\ OnWire(sin, "disconnect", chan[c])
    BY <1>1, WireReads DEF ForClient
  <1>3. emu[chan[c]] = "closed" /\ fh[c] = "active"
    BY <1>1, <1>2 DEF ChanInv, ClientLife, Ended
  <1>4. \A op : ~OnWire(sin', op, chan[c])
    BY <1>2 DEF OnWire, About
  <1>5. ASSUME Alive(c)', reg'[c] PROVE InOrder(Received(c)', sin', chan'[c], sent[chan'[c]])
    <2>1. fh'[c] = "closing"
      BY <1>1, <1>5 DEF Alive
    <2>2. InOrder(Received(c), sin, chan[c], sent[chan[c]])
      BY <1>1, <1>3, <1>5 DEF DelInv, Delivered, Alive
    <2>3. ~IsData(m, chan[c])
      BY <1>1 DEF IsData
    <2>4. InOrder(Received(c), sin', chan[c], sent[chan[c]])
      BY <1>1, <2>2, <2>3, InOrderOther
    <2> QED BY <1>1, <2>1, <2>4
  <1> QED BY <1>1, <1>2, <1>3, <1>4, <1>5, DelForClient

\* What is asked for has not sent anything yet, so no count is lost.
LEMMA DelWrite ==
  ASSUME QemudTypeOK, ChanInv, DelInv, NEW m, WriteStep(m)
  PROVE  DelInv'
  <1> USE DEF WriteStep, SameClients, SameClient
  <1>0. \A k \in Channels : sent'[k] = sent[k]
    <2>1. CASE m.op = "connect"
      BY <2>1 DEF ChanInv, Asked, Asking, Adds
    <2> QED BY <2>1
  <1>1. WireOrder'
    BY DEF DelInv, WireOrder
  <1>2. Starts'
    BY <1>0 DEF DelInv, Starts
  <1>3. Unanswered' /\ DataAfterOk'
    BY DEF DelInv, Unanswered, DataAfterOk
  <1>4. Done'
    <2> SUFFICES ASSUME NEW d \in Clients, fh[d] = "closing", reg[d]
                 PROVE  emu'[chan[d]] = "closed" /\ ~About(sin, chan[d])
      BY DEF Done
    <2>1. emu[chan[d]] = "closed" /\ ~About(sin, chan[d]) /\ chan[d] \in Channels
      BY RegisteredHas DEF DelInv, Done
    <2>2. ASSUME m.chan = chan[d], m.op = "connect" PROVE FALSE
      <3>1. Asking(chan[d])
        BY <2>2 DEF Asking, Adds
      <3>2. PICK e \in Clients : chan[e] = chan[d] /\ ~reg[e]
        BY <2>1, <3>1 DEF ChanInv, Asked
      <3>3. e = d
        BY <3>2, RegisteredHas DEF ChanInv, OneOwner
      <3> QED BY <3>2, <3>3
    <2>3. CASE m.chan = chan[d]
      BY <2>1, <2>2, <2>3
    <2> QED BY <2>1, <2>3
  <1>5. Refused'
    BY DEF DelInv, Refused
  <1>6. Delivered'
    <2>1. \A d \in Clients : reg[d] => sent'[chan[d]] = sent[chan[d]]
      BY <1>0, RegisteredHas
    <2> QED BY <2>1 DEF DelInv, Delivered, Alive
  <1> QED BY <1>1, <1>2, <1>3, <1>4, <1>5, <1>6 DEF DelInv

Answer(m) == m.op \in {"ok", "ko", "refusal"}

\* The emulator answers once, then sends, then disconnects.
LEMMA DelEmulator ==
  ASSUME QemudTypeOK, ChanInv, DelInv, NEW k \in Channels, NEW m, EmulatorStep(k, m)
  PROVE  DelInv'
  <1> USE DEF SameClients, SameClient
  <1>0. /\ m.chan = k /\ Behind(sin, sin', m) /\ Adds(sin, sin', m) /\ SameClients
        /\ \A j \in Channels \ {k} : emu'[j] = emu[j] /\ sent'[j] = sent[j]
        /\ \/ emu[k] = "asked" /\ Answer(m) /\ sent'[k] = sent[k]
           \/ emu[k] = "open" /\ m.op = "data" /\ sent'[k] = sent[k] + 1 /\ m.n = sent[k] + 1
           \/ emu[k] = "open" /\ m.op = "disconnect" /\ sent'[k] = sent[k]
    BY DEF EmulatorStep, Answer
  <1>1. ASSUME Answer(m)
        PROVE  /\ ~About(sin, k) /\ sent[k] = 0 /\ sent'[k] = 0
               /\ \A d \in Clients : chan[d] = k => ~reg[d]
    <2>1. /\ ~About(sin, k) /\ sent[k] = 0 /\ sent'[k] = 0
          /\ \E e \in Clients : chan[e] = k /\ ~reg[e]
      BY <1>0, <1>1 DEF Answer, ChanInv, Asked, Asking
    <2>2. \A d, e \in Clients : chan[d] = k /\ chan[e] = k => d = e
      BY RegisteredHas DEF ChanInv, OneOwner
    <2> QED BY <2>1, <2>2
  <1>2. ASSUME ~Answer(m)
        PROVE  ~OnWire(sin, "ko", k) /\ ~OnWire(sin, "disconnect", k) /\ emu[k] = "open"
    BY <1>0, <1>2 DEF Answer, ChanInv, Ended
  <1>3. WireOrder'
    <2> SUFFICES ASSUME NEW i \in DOMAIN sin', NEW j \in DOMAIN sin', i < j, sin'[i].chan = sin'[j].chan
                 PROVE  /\ sin'[j].op # "ok" /\ sin'[j].op # "ko"
                        /\ sin'[i].op # "ko" /\ sin'[i].op # "disconnect"
      BY DEF WireOrder
    <2>1. i \in DOMAIN sin /\ sin'[i] = sin[i]
      BY <1>0 DEF Behind
    <2>2. CASE j \in DOMAIN sin
      <3>1. sin'[j] = sin[j]
        BY <1>0, <2>2 DEF Behind
      <3> QED BY <2>1, <2>2, <3>1 DEF DelInv, WireOrder
    <2>3. CASE j \notin DOMAIN sin
      <3>1. sin'[j] = m
        BY <1>0, <2>3 DEF Behind
      <3>2. About(sin, k) /\ OnWire(sin, sin[i].op, k)
        BY <1>0, <2>1, <3>1 DEF About, OnWire
      <3> QED BY <1>1, <1>2, <2>1, <3>1, <3>2 DEF Answer
    <2> QED BY <2>2, <2>3
  <1>4. Starts'
    <2> SUFFICES ASSUME NEW j \in Channels, OnWire(sin', "ok", j) PROVE Rest(sin', j, 0, sent'[j])
      BY DEF Starts
    <2>1. CASE j = k /\ Answer(m)
      <3>1. Rest(sin, j, 0, 0) /\ ~IsData(m, j)
        BY <1>1, <2>1, RestNone DEF IsData, Answer
      <3>2. Rest(sin', j, 0, 0)
        BY <1>0, <3>1, RestBehind
      <3> QED BY <1>1, <2>1, <3>2
    <2>2. CASE IsData(m, j)
      <3>1. j = k /\ OnWire(sin, "ok", k) /\ m.n = sent[k] + 1 /\ sent'[k] = sent[k] + 1
        BY <1>0, <2>2 DEF IsData, Adds, Answer
      <3>2. Rest(sin, k, 0, sent[k]) /\ sent[k] \in Nat
        BY <3>1, RegisteredHas DEF DelInv, Starts
      <3>3. 0 \in Nat /\ 0 <= sent[k]
        BY <3>2
      <3>4. Rest(sin', k, 0, sent[k] + 1)
        BY <1>0, <2>2, <3>1, <3>2, <3>3, RestPushed
      <3> QED BY <3>1, <3>4
    <2>3. CASE ~IsData(m, j) /\ ~(j = k /\ Answer(m))
      <3>1. OnWire(sin, "ok", j) /\ sent'[j] = sent[j]
        BY <1>0, <2>3 DEF IsData, Adds, Answer
      <3>2. Rest(sin, j, 0, sent[j])
        BY <3>1 DEF DelInv, Starts
      <3>3. Rest(sin', j, 0, sent[j])
        BY <1>0, <2>3, <3>2, RestBehind
      <3> QED BY <3>1, <3>3
    <2> QED BY <2>1, <2>2, <2>3
  <1>5. Unanswered'
    BY <1>0, <1>1 DEF DelInv, Unanswered, Adds, Answer
  <1>6. DataAfterOk'
    <2> SUFFICES ASSUME NEW d \in Clients, obj[d] = "live", ~reg[d], OnWire(sin', "data", chan[d])
                 PROVE  OnWire(sin', "ok", chan[d])
      BY <1>0 DEF DataAfterOk
    <2>1. CASE OnWire(sin, "data", chan[d])
      BY <1>0, <2>1 DEF DelInv, DataAfterOk, Adds
    <2>2. CASE ~OnWire(sin, "data", chan[d])
      <3>1. m.op = "data" /\ chan[d] = k /\ emu[k] = "open" /\ k # NoChannel
        BY <1>0, <2>2, RegisteredHas DEF Adds, Answer
      <3>2. ~OnWire(sout, "disconnect", k)
        BY <3>1 DEF ChanInv, SignedOff
      <3>3. \A e \in Clients : chan[e] = k => e = d
        BY <3>1 DEF ChanInv, OneOwner
      <3>4. OnWire(sin, "ok", k)
        BY <3>1, <3>2, <3>3 DEF ChanInv, OpenHasOwner
      <3> QED BY <1>0, <3>1, <3>4 DEF Adds
    <2> QED BY <2>1, <2>2
  <1>7. Done'
    <2> SUFFICES ASSUME NEW d \in Clients, fh[d] = "closing", reg[d]
                 PROVE  emu'[chan[d]] = "closed" /\ ~About(sin', chan[d])
      BY <1>0 DEF Done
    <2>1. emu[chan[d]] = "closed" /\ ~About(sin, chan[d]) /\ chan[d] \in Channels
      BY RegisteredHas DEF DelInv, Done
    <2>2. chan[d] # k
      BY <1>0, <2>1
    <2> QED BY <1>0, <2>1, <2>2 DEF Adds
  <1>8. Refused'
    BY <1>0 DEF DelInv, Refused
  <1>9. Delivered'
    <2> SUFFICES ASSUME NEW d \in Clients, Alive(d), reg[d]
                 PROVE  InOrder(Received(d), sin', chan[d], sent'[chan[d]])
      BY <1>0 DEF Delivered, Alive
    <2>1. InOrder(Received(d), sin, chan[d], sent[chan[d]]) /\ chan[d] \in Channels
      BY RegisteredHas DEF DelInv, Delivered
    <2>2. CASE IsData(m, chan[d])
      <3>1. chan[d] = k /\ m.n = sent[k] + 1 /\ sent'[k] = sent[k] + 1 /\ sent[k] \in Nat
        BY <1>0, <2>2, RegisteredHas DEF IsData, Answer
      <3>2. InOrder(Received(d), sin', k, sent[k] + 1)
        BY <1>0, <2>1, <2>2, <3>1, InOrderPushed
      <3> QED BY <3>1, <3>2
    <2>3. CASE ~IsData(m, chan[d])
      <3>1. sent'[chan[d]] = sent[chan[d]]
        BY <1>0, <2>1, <2>3 DEF IsData
      <3>2. InOrder(Received(d), sin', chan[d], sent[chan[d]])
        BY <1>0, <2>1, <2>3, InOrderOther
      <3> QED BY <3>1, <3>2
    <2> QED BY <2>2, <2>3
  <1> QED BY <1>3, <1>4, <1>5, <1>6, <1>7, <1>8, <1>9 DEF DelInv

\* Every step keeps the invariant.
LEMMA DelStep ==
  ASSUME IInv, ChanInv, DelInv, [Next]_vars, last' >= last
  PROVE  DelInv'
  <1>1. Effect /\ QemudTypeOK
    BY StepEffect DEF IInv
  <1>2. CASE \E m \in Answers : \E c \in Clients :
               OkStep(c, m) \/ KoStep(c, m) \/ DataStep(c, m) \/ EndStep(c, m)
    BY <1>1, <1>2, DelOk, DelKo, DelData, DelEnd
  <1>3. CASE \E m \in Answers : DropStep(m)
    BY <1>1, <1>3, DelDrop
  <1>4. CASE StillStep \/ \E c \in Clients : AcceptStep(c) \/ \E tell \in BOOLEAN : FreeStep(c, tell)
    BY <1>1, <1>4, DelSame, DelAccept, DelFree
  <1>5. CASE \E c \in Clients, k \in Channels, m \in Messages : ConnectStep(c, k, m)
    BY <1>5, DelConnect
  <1>6. CASE \E m \in Messages : WriteStep(m)
    BY <1>1, <1>6, DelWrite
  <1>7. CASE \E k \in Channels, m \in Answers : EmulatorStep(k, m)
    BY <1>1, <1>7, DelEmulator
  <1> QED BY <1>1, <1>2, <1>3, <1>4, <1>5, <1>6, <1>7 DEF Effect

\* In the first state nothing is on the line, and nobody was answered.
LEMMA DelInit ==
  ASSUME Init
  PROVE  DelInv
  <1>1. sin = <<>> /\ DOMAIN sin = {}
    BY DEF Init
  <1>2. \A op, k : ~OnWire(sin, op, k)
    BY <1>1 DEF OnWire
  <1>3. /\ \A c \in Clients : fh[c] = "none" /\ reg[c] = FALSE /\ got[c] = <<>> /\ out[c] = <<>>
    BY DEF Init
  <1>4. <<>> \o <<>> = <<>> /\ DOMAIN <<>> = {}
    OBVIOUS
  <1>5. \A c \in Clients : DOMAIN Received(c) = {}
    BY <1>3, <1>4 DEF Received
  <1>6. WireOrder /\ Starts /\ Unanswered /\ DataAfterOk
    BY <1>1, <1>2 DEF WireOrder, Starts, Unanswered, DataAfterOk
  <1>7. Done /\ Refused /\ Delivered
    BY <1>3, <1>5 DEF Done, Refused, Delivered
  <1> QED BY <1>6, <1>7 DEF DelInv

\* The invariant is the property, which is stated with the sets and the sequence themselves.
LEMMA DeliveredIs ==
  ASSUME QemudTypeOK, ChanInv, DelInv
  PROVE  DeliveredInOrder
  <1> SUFFICES ASSUME NEW c \in Clients, fh[c] \in {"active", "closing"}, reg[c]
               PROVE  \E passed \in 0 .. sent[chan[c]], refused \in 0 .. Len(got[c] \o out[c]) :
                        /\ got[c] \o out[c] = [i \in 1 .. refused + 1 + passed |->
                                                  IF i <= refused THEN KO ELSE i - refused - 1]
                        /\ Remaining(chan[c], passed)
    BY DEF DeliveredInOrder
  <1>1. PICK q \in Seq(Packets), k \in Channels : q = got[c] \o out[c] /\ k = chan[c] /\ q = Received(c)
    BY RegisteredHas, ConcatProperties DEF QemudTypeOK, Received
  <1>2. sent[k] \in Nat /\ InOrder(q, sin, k, sent[k])
    BY <1>1, RegisteredHas DEF DelInv, Delivered, Alive
  <1>3. PICK r \in Nat, p \in Nat : p <= sent[k] /\ Passed(q, r, p) /\ Rest(sin, k, p, sent[k])
    BY <1>2 DEF InOrder
  <1>4. /\ q = [i \in 1 .. Len(q) |-> q[i]] /\ Len(q) = r + 1 + p
        /\ \A i \in 1 .. Len(q) : q[i] = IF i <= r THEN KO ELSE i - r - 1
    BY <1>3, LenProperties DEF Passed
  <1>5. q = [i \in 1 .. r + 1 + p |-> IF i <= r THEN KO ELSE i - r - 1]
    BY <1>4
  <1>6. Remaining(k, p)
    <2>1. \A i \in DOMAIN sin : i \in DataFor(k) <=> IsData(sin[i], k)
      BY DEF DataFor, IsData
    <2>2. \A i \in DataFor(k) : i \in DOMAIN sin
      BY DEF DataFor
    <2>3. \A i \in DataFor(k) : sin[i].n \in p + 1 .. sent[k]
      BY <1>3, <2>1, <2>2 DEF Rest
    <2>4. \A n \in p + 1 .. sent[k] : \E i \in DataFor(k) : sin[i].n = n
      BY <1>3, <2>1 DEF Rest
    <2>5. {sin[i].n : i \in DataFor(k)} = p + 1 .. sent[k]
      BY <2>3, <2>4
    <2>6. \A i, j \in DataFor(k) : i < j => sin[i].n < sin[j].n
      BY <1>3, <2>1, <2>2 DEF Rest
    <2> QED BY <2>5, <2>6 DEF Remaining
  <1>7. p \in 0 .. sent[k] /\ r \in 0 .. Len(q)
    BY <1>2, <1>3, <1>4
  <1> QED BY <1>1, <1>5, <1>6, <1>7

\* As long as the channel numbers have not started again, every packet the emulator sends
\* a registered client reaches it once and in order after the OK, whatever is queued, on
\* the line or half shut down in between (qemud.c:55, 741).
THEOREM AlwaysDeliveredInOrder == Spec /\ [][NoWrap]_vars => []DeliveredInOrder
  <1>1. Init => IInv /\ ChanInv /\ DelInv
    BY InitHolds, ChanInit, DelInit
  <1>2. IInv /\ ChanInv /\ DelInv /\ [Next]_vars /\ [NoWrap]_vars => IInv' /\ ChanInv' /\ DelInv'
    <2> SUFFICES ASSUME IInv, ChanInv, DelInv, [Next]_vars, [NoWrap]_vars
                 PROVE  IInv' /\ ChanInv' /\ DelInv'
      OBVIOUS
    <2>1. last' >= last
      <3>1. CASE UNCHANGED vars
        <4>1. last' = last /\ last \in Nat
          BY <3>1, GivenAre DEF vars, client, IInv
        <4> QED BY <4>1
      <3> QED BY <3>1 DEF NoWrap
    <2> QED BY <2>1, StepKeeps, ChanStep, DelStep
  <1>3. IInv /\ ChanInv /\ DelInv => DeliveredInOrder
    BY DeliveredIs DEF IInv
  <1> QED BY <1>1, <1>2, <1>3, PTL DEF Spec
=============================================================================
