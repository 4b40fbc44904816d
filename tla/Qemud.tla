------------------------------- MODULE Qemud -------------------------------
(***************************************************************************)
(* The qemud daemon (emulator/qemud/qemud.c): a multiplexer between the    *)
(* guest's processes, each connected over a socket of its own, and the     *)
(* emulator, at the other end of one serial line.  A client sends the name *)
(* of a service, qemud gives it a channel and asks the emulator, passes    *)
(* its answer on, and then passes data both ways.                          *)
(*                                                                         *)
(* qemud is one thread.  looper_loop waits for events, calls the handlers  *)
(* of the hooks that have some, in the order of its array, and then takes  *)
(* out the hooks that were deleted meanwhile.  A step is what a handler    *)
(* does for one event; clients and the emulator act between any two steps. *)
(*                                                                         *)
(* A packet is what one read or write moves.  The framing of the serial    *)
(* line is left out: sin and sout hold whole messages.                     *)
(***************************************************************************)
EXTENDS Integers, Sequences

CONSTANTS
    Clients,      \* connections to the control socket
    NumChannels,  \* 256: a channel number is two hexadecimal digits
    MaxSends,     \* bound on the packets each client sends
    MaxData,      \* bound on the packets the emulator sends on a channel
    MaxWire,      \* bound on the messages from the emulator not yet read
    Serial, Control   \* the owners of the first two hooks

ASSUME NumChannelsAssumption == NumChannels \in Nat \ {0, 1}
ASSUME OwnersAssumption == Serial \notin Clients /\ Control \notin Clients /\ Serial # Control
ASSUME BoundsAssumption == MaxSends \in [Clients -> Nat] /\ MaxData \in Nat /\ MaxWire \in Nat

VARIABLES
    hooks,    \* the looper's array of LoopHooks
    sock,     \* a client's connection: "none", "up", "hung" up by the client,
              \* "cut" by qemud
    inbox,    \* packets qemud has not read: "short" or "long" for a service name
    got,      \* packets the client has received, until it is cut
    fh,       \* its FDHandler: "none", "active", "closing" or "freed"
    fd,       \* the descriptor
    out,      \* the queue from out_first
    obj,      \* its Client: "none", "live" or "freed"
    chan,     \* channel
    reg,      \* registered
    last,     \* last_channel
    sout,     \* the queue of the serial line's FDHandler
    sin,      \* messages of the emulator on the serial line
    emu,      \* a channel as the emulator sees it: "closed", "asked", "open", or
              \* "refused" with a reason
    sent,     \* data packets the emulator sent on it since it was asked for
    sends,    \* packets each client has sent (only bounds the model)
    crashed   \* freed memory was used, or a signal ended qemud

peer == <<sock, inbox, got, sends>>
handler == <<fh, fd, out>>
client == <<obj, chan, reg, last>>
serial == <<sout, sin>>
emulator == <<emu, sent>>
vars == <<hooks, peer, handler, client, serial, emulator, crashed>>

NoChannel == -1
Channels == 0 .. NumChannels - 1

\* packets for a client: an answer, or the number of a data packet
OK == 0
KO == -1

Hook(w, f, events) == [who |-> w, fd |-> f, wanted |-> events, pend |-> {}, closing |-> FALSE]

\* multiplexer_init
Init ==
    /\ hooks = <<Hook(Serial, 1, {"in"}), Hook(Control, 2, {"in"})>>
    /\ sock = [c \in Clients |-> "none"]
    /\ inbox = [c \in Clients |-> <<>>] /\ got = [c \in Clients |-> <<>>]
    /\ fh = [c \in Clients |-> "none"] /\ fd = [c \in Clients |-> 0]
    /\ out = [c \in Clients |-> <<>>]
    /\ obj = [c \in Clients |-> "none"] /\ reg = [c \in Clients |-> FALSE]
    /\ chan = [c \in Clients |-> NoChannel] /\ last = 0
    /\ sout = <<>> /\ sin = <<>>
    /\ emu = [k \in Channels |-> "closed"] /\ sent = [k \in Channels |-> 0]
    /\ sends = [c \in Clients |-> 0]
    /\ crashed = FALSE

-----------------------------------------------------------------------------
(* The looper *)

\* looper_find: the first hook with the descriptor
LooperFind(hs, f) ==
    CHOOSE i \in DOMAIN hs : hs[i].fd = f /\ \A j \in 1 .. i - 1 : hs[j].fd # f

LooperEnable(hs, f, e) == [hs EXCEPT ![LooperFind(hs, f)].wanted = @ \cup {e}]
LooperDisable(hs, f, e) == [hs EXCEPT ![LooperFind(hs, f)].wanted = @ \ {e}]
LooperAdd(hs, w, f) == Append(hs, Hook(w, f, {}))
LooperDel(hs, f) == [hs EXCEPT ![LooperFind(hs, f)].closing = TRUE]

\* the events epoll reports for hook h; a socket without room is a short write
Ready(h) ==
    CASE h.who = Serial  -> (IF sin # <<>> THEN {"in"} ELSE {}) \cup (h.wanted \cap {"out"})
      [] h.who = Control -> IF \E c \in Clients : sock[c] \in {"up", "hung"} /\ fh[c] = "none"
                            THEN {"in"} ELSE {}
      [] OTHER -> (IF inbox[h.who] # <<>> \/ sock[h.who] = "hung" THEN h.wanted \cap {"in"} ELSE {})
                  \cup (IF sock[h.who] = "hung" THEN {"hup"} ELSE {})
                  \cup (h.wanted \cap {"out"})

Called == \A i \in DOMAIN hooks : hooks[i].pend = {}
InWait == ~crashed /\ Called /\ \A i \in DOMAIN hooks : ~hooks[i].closing

\* epoll_wait returns, the hooks are marked
EpollWait ==
    /\ InWait
    /\ \E i \in DOMAIN hooks : Ready(hooks[i]) # {}
    /\ hooks' = [i \in DOMAIN hooks |-> [hooks[i] EXCEPT !.pend = Ready(hooks[i])]]
    /\ UNCHANGED <<peer, handler, client, serial, emulator, crashed>>

\* the hook whose handler is being called, or called next
Turn(i) == /\ ~crashed /\ i \in DOMAIN hooks /\ hooks[i].pend # {}
           /\ \A j \in 1 .. i - 1 : hooks[j].pend = {}

Handled(i, e) == [hooks EXCEPT ![i].pend = @ \ {e}]

\* all handlers were called: the deleted hooks go one by one, the last one of the
\* array taking the place
LoopEnds ==
    /\ ~crashed /\ Called
    /\ \E i \in DOMAIN hooks :
          /\ hooks[i].closing /\ \A j \in 1 .. i - 1 : ~hooks[j].closing
          /\ hooks' = SubSeq([hooks EXCEPT ![i] = hooks[Len(hooks)]], 1, Len(hooks) - 1)
    /\ UNCHANGED <<peer, handler, client, serial, emulator, crashed>>

-----------------------------------------------------------------------------
(* FDHandlers *)

\* mutant: the queue is looked at after the packet was put into it
WatchedLate(hs, f, q) == IF Len(q) = 1 THEN LooperEnable(hs, f, "out") ELSE hs

\* fdhandler_enqueue to the descriptor f, whose queue was q
Watched(hs, f, q) == IF q = <<>> THEN LooperEnable(hs, f, "out") ELSE hs

\* mutant: the packet goes in front of the queue
EnqueueFirst(c, p, hs) ==
    /\ out' = [out EXCEPT ![c] = <<p>> \o @]
    /\ hooks' = Watched(hs, fd[c], out[c])

\* fdhandler_enqueue for client c
Enqueue(c, p, hs) ==
    /\ out' = [out EXCEPT ![c] = Append(@, p)]
    /\ hooks' = Watched(hs, fd[c], out[c])

\* fdhandler_close, after the receiver was told; in is what was not read
FdhandlerClose(c, hs, in) ==
    /\ fh' = [fh EXCEPT ![c] = "freed"]
    /\ out' = [out EXCEPT ![c] = <<>>]
    /\ hooks' = LooperDel(hs, fd[c])
    /\ sock' = [sock EXCEPT ![c] = "cut"]
    /\ inbox' = [in EXCEPT ![c] = <<>>]
    /\ got' = [got EXCEPT ![c] = <<>>]

\* fdhandler_shutdown: with packets to send the handler is kept, and its
\* receiver with it
FdhandlerShutdown(c, hs, in) ==
    \/ out[c] = <<>> /\ FdhandlerClose(c, hs, in)
    \/ /\ out[c] # <<>>
       /\ fh' = [fh EXCEPT ![c] = "closing"]
       /\ hooks' = hs /\ inbox' = in
       /\ UNCHANGED <<out, sock, got>>

\* serial_send; msg goes into the serial line's queue
SerialSend(m, hs) ==
    /\ sout' = Append(sout, m)
    /\ hooks' = Watched(hs, 1, sout)

-----------------------------------------------------------------------------
(* Clients and channels *)

Msg(op, k, n) == [op |-> op, chan |-> k, n |-> n]

Taken(k) == \E c \in Clients : obj[c] = "live" /\ chan[c] = k

\* k is the first number after last_channel that no client has; the loop that
\* looks for it does not end when there is none
NextChannel(k) ==
    \E j \in 1 .. NumChannels :
        /\ k = (last + j) % NumChannels /\ ~Taken(k)
        /\ \A i \in 1 .. j - 1 : Taken((last + i) % NumChannels)

\* client_free: what the Client held is left as it was, nobody reads it
ClientFree(c, hs, in) ==
    /\ obj' = [obj EXCEPT ![c] = "freed"]
    /\ FdhandlerShutdown(c, hs, in)

Used(f) == \E c \in Clients : fh[c] \in {"active", "closing"} /\ fd[c] = f

\* multiplexer_control_accept, client_new: accept returns the lowest descriptor
ControlAccept(c) ==
    /\ Turn(2) /\ sock[c] \in {"up", "hung"} /\ fh[c] = "none"
    /\ \E f \in 3 .. Len(hooks) + 1 :
          /\ ~Used(f) /\ \A g \in 3 .. f - 1 : Used(g)
          /\ fd' = [fd EXCEPT ![c] = f]
          /\ hooks' = LooperEnable(LooperAdd(Handled(2, "in"), c, f), f, "in")
    /\ fh' = [fh EXCEPT ![c] = "active"]
    /\ obj' = [obj EXCEPT ![c] = "live"]
    /\ UNCHANGED <<peer, out, chan, reg, last, serial, emulator, crashed>>

\* client_fd_receive for packet p, read by the handler of a hook; in is what
\* is left to read
ClientReceives(c, p, hs, in) ==
    \/ /\ reg[c]
       /\ SerialSend(Msg("data", chan[c], 0), hs) /\ inbox' = in
       /\ UNCHANGED <<handler, client, sock, got>>
    \/ /\ ~reg[c] /\ chan[c] > 0            \* it had to wait for the answer
       /\ ClientFree(c, hs, in)
       /\ UNCHANGED <<fd, chan, reg, last, sout>>
    \/ /\ ~reg[c] /\ chan[c] <= 0
       /\ \E k \in Channels :
             /\ NextChannel(k) /\ last' = k
             /\ \/ /\ p = "short"
                   /\ chan' = [chan EXCEPT ![c] = k]
                   /\ SerialSend(Msg("connect", k, 0), hs) /\ inbox' = in
                   /\ UNCHANGED <<handler, obj, reg, sock, got>>
                \/ /\ p = "long"            \* the name is too long
                   /\ chan' = [chan EXCEPT ![c] = NoChannel]
                   /\ ClientFree(c, hs, in)
                   /\ UNCHANGED <<fd, reg, sout>>

\* EPOLLIN: a packet is read and given to the receiver.  At the end of the
\* stream there is nothing to give; the Client of a closing handler is freed
ClientIn(i) ==
    /\ Turn(i) /\ i > 2 /\ "in" \in hooks[i].pend
    /\ LET c == hooks[i].who
           hs == Handled(i, "in") IN
       /\ fh[c] # "freed" /\ ~(fh[c] = "closing" /\ inbox[c] # <<>>)
       /\ \/ /\ inbox[c] = <<>> /\ hooks' = hs
             /\ UNCHANGED <<handler, client, sock, inbox, got, sout>>
          \/ /\ inbox[c] # <<>>
             /\ ClientReceives(c, Head(inbox[c]), hs, [inbox EXCEPT ![c] = Tail(@)])
    /\ UNCHANGED <<sends, sin, emulator, crashed>>

\* mutant: the emulator is told of channels it was never asked for
ToldAlways(c) == fh[c] = "active"

\* mutant: only clients that still wait are signed off
ToldWaiting(c) == fh[c] = "active" /\ chan[c] > 0 /\ ~reg[c]

\* client_fd_close signs the client off; a Client that was freed before is not told
Told(c) == fh[c] = "active" /\ chan[c] > 0

\* EPOLLHUP: client_fd_close tells the emulator, unless the Client was freed
\* before; then the handler is closed and nothing is written
ClientHup(i) ==
    /\ Turn(i) /\ i > 2 /\ "hup" \in hooks[i].pend /\ "in" \notin hooks[i].pend
    /\ LET c == hooks[i].who
           hs == [hooks EXCEPT ![i].pend = {}] IN
       /\ fh[c] # "freed"
       /\ sout' = IF Told(c) THEN Append(sout, Msg("disconnect", chan[c], 0)) ELSE sout
       /\ FdhandlerClose(c, IF Told(c) THEN Watched(hs, 1, sout) ELSE hs, inbox)
       /\ obj' = [obj EXCEPT ![c] = "freed"]
    /\ UNCHANGED <<sends, fd, chan, reg, last, sin, emulator, crashed>>

\* EPOLLOUT: a write completes the first packet
ClientOut(i) ==
    /\ Turn(i) /\ i > 2 /\ hooks[i].pend = {"out"}
    /\ LET c == hooks[i].who
           hs == Handled(i, "out") IN
       /\ fh[c] # "freed" /\ out[c] # <<>> /\ sock[c] = "up"
       /\ got' = [got EXCEPT ![c] = Append(@, Head(out[c]))]
       /\ out' = [out EXCEPT ![c] = Tail(@)]
       /\ hooks' = IF Len(out[c]) = 1 THEN LooperDisable(hs, fd[c], "out") ELSE hs
    /\ UNCHANGED <<sock, inbox, sends, fh, fd, client, serial, emulator, crashed>>

\* EPOLLOUT: a part of it was written, or the write failed
ShortWrite(i) ==
    /\ Turn(i) /\ i > 2 /\ hooks[i].pend = {"out"} /\ fh[hooks[i].who] # "freed"
    /\ hooks' = Handled(i, "out")
    /\ UNCHANGED <<peer, handler, client, serial, emulator, crashed>>

\* EPOLLOUT: the client hung up since epoll_wait returned.  The write raises SIGPIPE,
\* which ends qemud, for it leaves the signal's disposition alone; where whoever
\* started it ignores the signal, the write just fails
Sigpipe(i) ==
    /\ Turn(i) /\ i > 2 /\ hooks[i].pend = {"out"}
    /\ LET c == hooks[i].who IN fh[c] # "freed" /\ out[c] # <<>> /\ sock[c] = "hung"
    /\ crashed' = TRUE
    /\ UNCHANGED <<hooks, peer, handler, client, serial, emulator>>

\* a handler is called, or goes on, after it was freed, or gives a packet to a
\* Client that was freed
UseFreed(i) ==
    /\ Turn(i) /\ i > 2
    /\ LET c == hooks[i].who IN
       \/ fh[c] = "freed"
       \/ fh[c] = "closing" /\ "in" \in hooks[i].pend /\ inbox[c] # <<>>
    /\ crashed' = TRUE
    /\ UNCHANGED <<hooks, peer, handler, client, serial, emulator>>

-----------------------------------------------------------------------------
(* The serial line *)

\* mutant: a refusal is not passed on
RegistrationOfOk(c, ok, hs) ==
    /\ IF ok THEN Enqueue(c, OK, hs) ELSE hooks' = hs /\ UNCHANGED out
    /\ reg' = [reg EXCEPT ![c] = ok]
    /\ UNCHANGED <<chan, fh, fd, obj, last, sock, inbox, got>>

\* client_registration: OK or KO; after a KO another service may be tried
Registration(c, ok, hs) ==
    /\ Enqueue(c, IF ok THEN OK ELSE KO, hs)
    /\ reg' = [reg EXCEPT ![c] = ok]
    /\ chan' = IF ok THEN chan ELSE [chan EXCEPT ![c] = NoChannel]
    /\ UNCHANGED <<fh, fd, obj, last, sock, inbox, got>>

\* serial_fd_receive, multiplexer_serial_receive, multiplexer_handle_control:
\* messages for a channel no client has are dropped, and so is a refusal with a
\* reason, for only the 13 bytes of "ko:connect:<id>" are recognised
SerialIn ==
    /\ Turn(1) /\ "in" \in hooks[1].pend
    /\ sin' = Tail(sin)
    /\ LET m == Head(sin)
           hs == Handled(1, "in")
           owners == {c \in Clients : obj[c] = "live" /\ chan[c] = m.chan} IN
       \/ /\ owners = {} \/ m.op = "refusal"
          /\ hooks' = hs /\ UNCHANGED <<handler, client, sock, inbox, got>>
       \/ \E c \in owners :
             \/ m.op = "ok" /\ Registration(c, TRUE, hs)
             \/ m.op = "ko" /\ Registration(c, FALSE, hs)
             \/ /\ m.op = "disconnect"
                /\ ClientFree(c, hs, inbox) /\ UNCHANGED <<fd, chan, reg, last>>
             \/ /\ m.op = "data"
                /\ Enqueue(c, m.n, hs) /\ UNCHANGED <<fh, fd, client, sock, inbox, got>>
    /\ UNCHANGED <<sends, sout, emulator, crashed>>

\* the first message is written, and the emulator takes it at once
SerialOut ==
    /\ Turn(1) /\ hooks[1].pend = {"out"}
    /\ LET m == Head(sout)
           hs == Handled(1, "out") IN
       /\ emu' = CASE m.op = "connect"    -> [emu EXCEPT ![m.chan] = "asked"]
                   [] m.op = "disconnect" -> [emu EXCEPT ![m.chan] = "closed"]
                   [] OTHER               -> emu
       /\ sent' = IF m.op = "connect" THEN [sent EXCEPT ![m.chan] = 0] ELSE sent
       /\ hooks' = IF Len(sout) = 1 THEN LooperDisable(hs, 1, "out") ELSE hs
    /\ sout' = Tail(sout)
    /\ UNCHANGED <<peer, handler, client, sin, crashed>>

-----------------------------------------------------------------------------
(* The emulator and the clients *)

\* What the emulator or a client does between two handlers has the effect it has
\* after them, for they take the first packet of a stream, and the events are
\* those epoll_wait returned; only SerialOut reads what the emulator writes.  So
\* the emulator acts while qemud is in epoll_wait or about to write to the serial
\* line, and clients act while it is in epoll_wait; one may also hang up when qemud
\* is about to write to it
EmulatorActs == InWait \/ (~crashed /\ hooks[1].pend = {"out"})

EmulatorSends(m) == Len(sin) < MaxWire /\ sin' = Append(sin, m)

\* a service is refused by "ko:connect:<id>", or by "ko:connect:<id>:" and the reason,
\* which is how the head of qemud.c describes it
EmulatorAnswers(k) ==
    /\ ~crashed /\ emu[k] = "asked"
    /\ \/ EmulatorSends(Msg("ok", k, 0)) /\ emu' = [emu EXCEPT ![k] = "open"]
       \/ EmulatorSends(Msg("ko", k, 0)) /\ emu' = [emu EXCEPT ![k] = "closed"]
       \/ EmulatorSends(Msg("refusal", k, 0)) /\ emu' = [emu EXCEPT ![k] = "refused"]
    /\ UNCHANGED <<hooks, peer, handler, client, sout, sent, crashed>>

EmulatorData(k) ==
    /\ EmulatorActs /\ emu[k] = "open" /\ sent[k] < MaxData
    /\ EmulatorSends(Msg("data", k, sent[k] + 1))
    /\ sent' = [sent EXCEPT ![k] = @ + 1]
    /\ UNCHANGED <<hooks, peer, handler, client, sout, emu, crashed>>

EmulatorDisconnects(k) ==
    /\ EmulatorActs /\ emu[k] = "open"
    /\ EmulatorSends(Msg("disconnect", k, 0))
    /\ emu' = [emu EXCEPT ![k] = "closed"]
    /\ UNCHANGED <<hooks, peer, handler, client, sout, sent, crashed>>

Connect(c) ==
    /\ InWait /\ sock[c] = "none"
    /\ sock' = [sock EXCEPT ![c] = "up"]
    /\ UNCHANGED <<hooks, inbox, got, sends, handler, client, serial, emulator, crashed>>

Send(c, p) ==
    /\ InWait /\ sock[c] = "up" /\ sends[c] < MaxSends[c]
    /\ inbox' = [inbox EXCEPT ![c] = Append(@, p)]
    /\ sends' = [sends EXCEPT ![c] = @ + 1]
    /\ UNCHANGED <<hooks, sock, got, handler, client, serial, emulator, crashed>>

HangUp(c) ==
    /\ InWait \/ \E i \in DOMAIN hooks : Turn(i) /\ hooks[i].who = c /\ hooks[i].pend = {"out"}
    /\ sock[c] = "up"
    /\ sock' = [sock EXCEPT ![c] = "hung"]
    /\ UNCHANGED <<hooks, inbox, got, sends, handler, client, serial, emulator, crashed>>

Looper ==
    \/ EpollWait \/ LoopEnds \/ SerialIn \/ SerialOut
    \/ \E c \in Clients : ControlAccept(c)
    \/ \E i \in DOMAIN hooks : \/ ClientIn(i) \/ ClientHup(i) \/ ClientOut(i)
                               \/ ShortWrite(i) \/ Sigpipe(i) \/ UseFreed(i)

Next ==
    \/ Looper
    \/ \E k \in Channels : EmulatorAnswers(k) \/ EmulatorData(k) \/ EmulatorDisconnects(k)
    \/ \E c \in Clients : Connect(c) \/ HangUp(c) \/ \E p \in {"short", "long"} : Send(c, p)

\* qemud runs, and the emulator answers what it is asked
Fairness == WF_vars(Looper) /\ \A k \in Channels : WF_vars(EmulatorAnswers(k))

Spec == Init /\ [][Next]_vars /\ Fairness

\* moreover, clients read what they are sent
ReadersSpec == Spec /\ SF_vars(\E i \in DOMAIN hooks : ClientOut(i))

-----------------------------------------------------------------------------
Hooks == [who : Clients \cup {Serial, Control}, fd : Nat, wanted : SUBSET {"in", "out"},
          pend : SUBSET {"in", "hup", "out"}, closing : BOOLEAN]
Packets == {OK, KO} \cup 1 .. MaxData

QemudTypeOK ==
    /\ hooks \in Seq(Hooks)
    /\ sock \in [Clients -> {"none", "up", "hung", "cut"}]
    /\ inbox \in [Clients -> Seq({"short", "long"})]
    /\ got \in [Clients -> Seq(Packets)] /\ out \in [Clients -> Seq(Packets)]
    /\ fh \in [Clients -> {"none", "active", "closing", "freed"}]
    /\ fd \in [Clients -> Nat]
    /\ obj \in [Clients -> {"none", "live", "freed"}]
    /\ chan \in [Clients -> Channels \cup {NoChannel}]
    /\ reg \in [Clients -> BOOLEAN] /\ last \in Channels
    /\ sout \in Seq([op : {"connect", "disconnect", "data"}, chan : Channels, n : {0}])
    /\ sin \in Seq([op : {"ok", "ko", "refusal", "disconnect", "data"}, chan : Channels, n : 0 .. MaxData])
    /\ emu \in [Channels -> {"closed", "asked", "open", "refused"}]
    /\ sent \in [Channels -> 0 .. MaxData]
    /\ sends \in [Clients -> Nat] /\ crashed \in BOOLEAN

OnWire(s, op, k) == \E i \in DOMAIN s : s[i].op = op /\ s[i].chan = k

\* "unique channel number", "the emulator responds through channel 0", "qemud
\* sends ... disconnect:<id>" (qemud.c:41-66): qemud and the emulator agree on
\* which channels are connected, up to the messages on their way.  A registered
\* client's channel is open at the emulator, and an open channel has a client
\* that is or will be registered, unless the channel's client was freed before its
\* registration: qemud throws a client out that sends before the answer, and does
\* not tell the emulator.
ChannelsAgree ==
    /\ \A c \in Clients : obj[c] = "live" /\ reg[c] =>
          emu[chan[c]] = "open" \/ OnWire(sin, "disconnect", chan[c])
    /\ \A k \in Channels : emu[k] = "open" =>
          \/ \E c \in Clients : obj[c] = "live" /\ chan[c] = k /\ (reg[c] \/ OnWire(sin, "ok", k))
          \/ OnWire(sout, "disconnect", k)
          \/ \E c \in Clients : obj[c] = "freed" /\ chan[c] = k /\ ~reg[c]

DataFor(k) == {i \in DOMAIN sin : sin[i].op = "data" /\ sin[i].chan = k}

\* the data on the line for channel k: what follows the first p packets, in order
Remaining(k, p) ==
    /\ {sin[i].n : i \in DataFor(k)} = p + 1 .. sent[k]
    /\ \A i, j \in DataFor(k) : i < j => sin[i].n < sin[j].n

\* "all messages between the client and the emulator are passed in pass-through
\* mode" (qemud.c:55), "we try to send all outgoing packets before destroying
\* the FDHandler" (qemud.c:741): what a client has received, what is queued for
\* it and what is on the serial line for its channel are together what the
\* emulator sent it, in order, after the refusals and the OK (which is 0), also
\* while its handler is shutting down.
DeliveredInOrder ==
    \A c \in Clients : fh[c] \in {"active", "closing"} /\ reg[c] =>
        \E passed \in 0 .. sent[chan[c]], refused \in 0 .. Len(got[c] \o out[c]) :
            /\ got[c] \o out[c] = [i \in 1 .. refused + 1 + passed |->
                                      IF i <= refused THEN KO ELSE i - refused - 1]
            /\ Remaining(chan[c], passed)

HookOf(w) == {i \in DOMAIN hooks : hooks[i].who = w /\ ~hooks[i].closing}

\* "can queue one or more outgoing packets and send them when possible to the
\* FD" (qemud.c:737): a queue with packets is watched for room, through every
\* enabling, disabling, shutdown and move of hooks in the looper's array; one
\* that is not would be stuck.
OutputIsWatched ==
    /\ sout # <<>> => "out" \in hooks[1].wanted
    /\ \A c \in Clients : fh[c] \in {"active", "closing"} /\ out[c] # <<>> =>
          \E i \in HookOf(c) : "out" \in hooks[i].wanted

Waiting(c) == obj[c] = "live" /\ chan[c] > 0 /\ ~reg[c]

\* "waits for a 2 byte answer from qemud" (qemud.c:1214): a client whose service
\* name qemud has read is eventually answered or gone, the emulator answering; the
\* exception is a client refused with a reason, whose refusal qemud does not
\* recognise, and which waits for ever.
AnswersArrive ==
    \A c \in Clients : Waiting(c) ~> (~Waiting(c) \/ crashed \/ emu[chan[c]] = "refused")

\* "send any pending outgoing packets then auto-free itself" (qemud.c:850): the
\* handler of a client the emulator disconnected is freed, and its socket closed.
ShutdownCompletes == \A c \in Clients : fh[c] = "closing" ~> (fh[c] = "freed" \/ crashed)
=============================================================================
