------------------------------- MODULE Bridge -------------------------------
(***************************************************************************)
(* The bytes of a session: what handleClient forwards before the bridge    *)
(* starts, what Bridge.Run's copy goroutines carry, and what deviceReader  *)
(* takes out of the device's connection meanwhile (internal/connection/    *)
(* handler.go, internal/session/bridge.go).                                *)
(*                                                                         *)
(* The control is that of module Sessions: each step below is a step of    *)
(* Sessions together with what it does to the bytes, or it moves bytes     *)
(* only.  A byte is named by its sender and its position in what that      *)
(* sender sends after its AT command, so that loss, reordering and         *)
(* duplication show.                                                       *)
(*                                                                         *)
(* Left out: the telnet NOPs of both keepalives (received is what a peer   *)
(* gets beside them), the AT commands themselves, the content of presets.  *)
(***************************************************************************)
EXTENDS Naturals, Sequences, FiniteSets

CONSTANTS
    Client, Dev, Id, IdOf, None, Wants, Modem, KeepaliveOn,  \* as in Sessions
    Preset,   \* clients that sent port settings before their AT command
    MaxSent   \* bound: how much each peer sends

VARIABLES
    registry, conn, cconn, cpc, dev, sessions, busy, copying, nop, term,  \* as in Sessions
    sent,      \* how much each peer has sent
    unread,    \* what each peer has sent and the proxy has not yet read
    received,  \* what the proxy has written to each peer
    buffered,  \* what Handle's bufio.Reader had read beyond the AT command
    forward,   \* what handleClient has still to forward: "presets", "buffered", "nothing"
    since,     \* how much the device had sent when the client's bridge started
    held,      \* each copy goroutine's buf, between Read and Write
    counted    \* Session.BytesIn ("up") and BytesOut ("down")

S == INSTANCE Sessions

Peer == Client \cup Dev

ASSUME BridgeAssumption ==
    /\ S!SessionsAssumption
    /\ Client \cap Dev = {}
    /\ Preset \subseteq Client
    /\ MaxSent \in [Peer -> Nat]

sessionVars == <<registry, conn, cconn, cpc, dev, sessions, busy, copying, nop, term>>
byteVars == <<sent, unread, received, buffered, forward, since, held, counted>>
vars == <<sessionVars, byteVars>>

\* What goes over a connection: the k-th byte of a peer, which is "vcom" when it
\* stands for a USR-VCOM packet, and what the proxy writes on its own account.
Byte(kind, p, k) == [kind |-> kind, of |-> p, at |-> k]
Own(kind, c) == Byte(kind, c, 0)
IsByteOf(b, p) == b.kind \in {"byte", "vcom"} /\ b.of = p

Init ==
    /\ S!Init
    /\ sent = [p \in Peer |-> 0]
    /\ unread = [p \in Peer |-> <<>>]
    /\ received = [p \in Peer |-> <<>>]
    /\ buffered = [c \in Client |-> <<>>]
    /\ forward = [c \in Client |-> "presets"]
    /\ since = [c \in Client |-> 0]
    /\ held = [c \in Client |-> [dir \in S!Direction |-> <<>>]]
    /\ counted = [c \in Client |-> [dir \in S!Direction |-> 0]]

(***************************************************************************)
(* Reads and writes on a connection.                                       *)
(***************************************************************************)

ConnOf(p) == IF p \in Client THEN cconn[p] ELSE conn[p]

\* The first n elements of s, and the others.
First(s, n) == SubSeq(s, 1, n)
Rest(s, n) == SubSeq(s, n + 1, Len(s))

\* Read returns n bytes.
Take(p, n) ==
    /\ ConnOf(p) # "closed"
    /\ unread' = [unread EXCEPT ![p] = Rest(@, n)]

\* Read reports an error before all is read: the connection was reset or closed,
\* or the deadline of deviceReader or of the wait before it has expired.
ReadFails(p) == ConnOf(p) # "open" \/ p \in Dev

\* Write reports an error: the connection is dead, or the write deadline that a
\* keepalive sets on it has expired because the peer does not read.
WriteFails(p) == ConnOf(p) # "open" \/ KeepaliveOn

\* Write writes the first n elements of s; all of them unless it fails.
Write(p, s, n) ==
    /\ n = Len(s) \/ WriteFails(p)
    /\ n > 0 => ConnOf(p) # "closed"
    /\ received' = [received EXCEPT ![p] = @ \o First(s, n)]

(***************************************************************************)
(* handleClient before and after the bridge.                               *)
(***************************************************************************)

\* Mutant: the buffered data is looked at, not consumed.
DialPeeks(c) ==
    /\ S!Dial(c)
    /\ \E n \in 0 .. Len(unread[c]) :
          buffered' = [buffered EXCEPT ![c] = First(unread[c], n)]
    /\ UNCHANGED <<sent, unread, received, forward, since, held, counted>>

\* The bufio.Reader that read the command has read on, as far as there was data.
Dial(c) ==
    /\ S!Dial(c)
    /\ \E n \in 0 .. Len(unread[c]) :
          /\ buffered' = [buffered EXCEPT ![c] = First(unread[c], n)]
          /\ unread' = [unread EXCEPT ![c] = Rest(@, n)]
    /\ UNCHANGED <<sent, received, forward, since, held, counted>>

\* ERROR, or NO CARRIER to a modem; an error of the write is not looked at.
Refuse(c) ==
    /\ S!Refuse(c)
    /\ \E n \in 0 .. 1 : Write(c, <<Own("refusal", c)>>, n)
    /\ UNCHANGED <<sent, unread, buffered, forward, since, held, counted>>

\* Mutant: the reply is left to the end of the session.
ReplySilent(c) == S!Reply(c) /\ UNCHANGED byteVars

Reply(c) ==
    /\ S!Reply(c)
    /\ IF cpc'[c] = "bridge"
       THEN Write(c, <<Own("reply", c)>>, 1)
       ELSE UNCHANGED received
    /\ UNCHANGED <<sent, unread, buffered, forward, since, held, counted>>

\* dev.Conn.Write of s: an error is logged at most.
Forward(c, from, to, s) ==
    /\ cpc[c] = "bridge"
    /\ forward[c] = from
    /\ forward' = [forward EXCEPT ![c] = to]
    /\ \E n \in 0 .. Len(s) : Write(dev[c], s, n)
    /\ UNCHANGED <<sessionVars, sent, unread, buffered, since, held, counted>>

ForwardPresets(c) ==
    Forward(c, "presets", "buffered", IF c \in Preset THEN <<Own("preset", c)>> ELSE <<>>)

IsVcom(s) == s # <<>> /\ s[1].kind = "vcom"

\* Buffered data that begins with a USR-VCOM packet is replaced by its port
\* settings, whatever follows the packet; other data is sent as it is.
ForwardBuffered(c) ==
    Forward(c, "buffered", "nothing",
            IF IsVcom(buffered[c]) THEN <<Own("preset", c)>> ELSE buffered[c])

\* Mutant: the bridge starts without a look at the buffered data.
StartBridgeEarly(c) ==
    /\ forward[c] = "buffered"
    /\ S!StartBridge(c)
    /\ since' = [since EXCEPT ![c] = sent[dev[c]]]
    /\ UNCHANGED <<sent, unread, received, buffered, forward, held, counted>>

StartBridge(c) ==
    /\ forward[c] = "nothing"
    /\ S!StartBridge(c)
    /\ since' = [since EXCEPT ![c] = sent[dev[c]]]
    /\ UNCHANGED <<sent, unread, received, buffered, forward, held, counted>>

WriteNoCarrier(c) ==
    /\ S!WriteNoCarrier(c)
    /\ \E n \in 0 .. 1 : Write(c, <<Own("noCarrier", c)>>, n)
    /\ UNCHANGED <<sent, unread, buffered, forward, since, held, counted>>

\* The steps of handleClient, the API and the bridge's keepalive that move no
\* byte.
Control(c) ==
    /\ \/ S!RefuseDial(c) \/ S!LookUp(c) \/ S!CheckBusy(c) \/ S!CreateSession(c)
       \/ S!SetSession(c) \/ S!GiveUp(c)
       \/ S!LeaveRun(c) \/ S!CloseClient(c) \/ S!CloseDevice(c) \/ S!Join(c)
       \/ S!CleanUp(c) \/ S!DeferredClose(c)
       \/ S!Keepalive(c) \/ S!TerminateLoad(c) \/ S!Terminate(c) \/ S!ClientGone(c)
    /\ UNCHANGED byteVars

(***************************************************************************)
(* copyWithActivity.                                                       *)
(***************************************************************************)

From(c, dir) == IF dir = "up" THEN c ELSE dev[c]
To(c, dir) == IF dir = "up" THEN dev[c] ELSE c

CopyRead(c, dir) ==
    /\ dir \in copying[c]
    /\ held[c][dir] = <<>>
    /\ \E n \in 1 .. Len(unread[From(c, dir)]) :
          /\ Take(From(c, dir), n)
          /\ held' = [held EXCEPT ![c][dir] = First(unread[From(c, dir)], n)]
    /\ UNCHANGED <<sessionVars, sent, received, buffered, forward, since, counted>>

\* The write of buf, and the count of what was written.
CopyOut(c, dir, n) ==
    /\ Write(To(c, dir), held[c][dir], n)
    /\ held' = [held EXCEPT ![c][dir] = <<>>]
    /\ counted' = [counted EXCEPT ![c][dir] = @ + n]
    /\ UNCHANGED <<sent, unread, buffered, forward, since>>

\* Mutant: buf is not emptied, and written once more.
CopyWriteKeeps(c, dir) ==
    /\ dir \in copying[c]
    /\ held[c][dir] # <<>>
    /\ Write(To(c, dir), held[c][dir], Len(held[c][dir]))
    /\ UNCHANGED <<sessionVars, held, counted, sent, unread, buffered, forward, since>>

CopyWrite(c, dir) ==
    /\ dir \in copying[c]
    /\ held[c][dir] # <<>>
    /\ CopyOut(c, dir, Len(held[c][dir]))
    /\ UNCHANGED sessionVars

\* Mutant: the whole of buf is counted although the write failed.
CopyBreaksCountsAll(c, dir) ==
    /\ S!CopyBreaks(c, dir)
    /\ held[c][dir] # <<>> /\ WriteFails(To(c, dir))
    /\ held' = [held EXCEPT ![c][dir] = <<>>]
    /\ counted' = [counted EXCEPT ![c][dir] = @ + Len(held[c][dir])]
    /\ UNCHANGED <<sent, unread, received, buffered, forward, since>>

\* The read fails, or the write, perhaps after a part of buf.
CopyBreaks(c, dir) ==
    /\ S!CopyBreaks(c, dir)
    /\ \/ held[c][dir] = <<>> /\ ReadFails(From(c, dir)) /\ UNCHANGED byteVars
       \/ \E n \in 0 .. Len(held[c][dir]) - 1 : CopyOut(c, dir, n)

\* End of stream comes after the last byte; a closed connection at once.
ReadEnds(c, dir) ==
    /\ S!ReadEnds(c, dir)
    /\ held[c][dir] = <<>>
    /\ ConnOf(From(c, dir)) = "closed" \/ unread[From(c, dir)] = <<>>
    /\ UNCHANGED byteVars

(***************************************************************************)
(* The device's handler and the peers.                                     *)
(***************************************************************************)

\* deviceReader, or the wait for an optional command before it, has read.
DeviceReaderTakes(d) ==
    /\ \E n \in 1 .. Len(unread[d]) : Take(d, n)
    /\ UNCHANGED <<sessionVars, sent, received, buffered, forward, since, held, counted>>

\* A client may begin with a USR-VCOM packet.
PeerSends(p) ==
    /\ ConnOf(p) = "open"
    /\ sent[p] < MaxSent[p]
    /\ sent' = [sent EXCEPT ![p] = @ + 1]
    /\ \E kind \in IF p \in Client /\ sent[p] = 0 THEN {"byte", "vcom"} ELSE {"byte"} :
          unread' = [unread EXCEPT ![p] = Append(@, Byte(kind, p, sent'[p]))]
    /\ UNCHANGED <<sessionVars, received, buffered, forward, since, held, counted>>

Copy(c, dir) ==
    \/ CopyRead(c, dir) \/ CopyWrite(c, dir) \/ CopyBreaks(c, dir) \/ ReadEnds(c, dir)

Next ==
    \/ \E c \in Client :
          \/ Dial(c) \/ Refuse(c) \/ Reply(c) \/ ForwardPresets(c) \/ ForwardBuffered(c)
          \/ StartBridge(c) \/ WriteNoCarrier(c) \/ Control(c)
          \/ \E dir \in S!Direction : Copy(c, dir)
    \/ \E d \in Dev : DeviceReaderTakes(d)
    \/ \E p \in Peer : PeerSends(p)
    \/ S!DeviceSide /\ UNCHANGED byteVars

Spec == Init /\ [][Next]_vars

(***************************************************************************)
(* Properties.                                                             *)
(***************************************************************************)

\* The positions, in what p has sent, of its bytes in s; 0 for everything else.
Positions(p, s) == [i \in 1 .. Len(s) |-> IF IsByteOf(s[i], p) THEN s[i].at ELSE 0]

\* What a client's device has got of its bytes, and the client of its device's.
GotUp(c) == IF dev[c] = None THEN <<>> ELSE Positions(c, received[dev[c]])
GotDown(c) == IF dev[c] = None THEN <<>> ELSE Positions(dev[c], received[c])

Cell == [kind : {"byte", "vcom", "preset", "reply", "refusal", "noCarrier"}, of : Peer, at : Nat]

TypeOK ==
    /\ S!TypeOK
    /\ sent \in [Peer -> Nat] /\ \A p \in Peer : sent[p] <= MaxSent[p]
    /\ unread \in [Peer -> Seq(Cell)] /\ \A p \in Peer : Len(unread[p]) <= sent[p]
    /\ received \in [Peer -> Seq(Cell)]
    /\ buffered \in [Client -> Seq(Cell)] /\ \A c \in Client : Len(buffered[c]) <= sent[c]
    /\ forward \in [Client -> {"presets", "buffered", "nothing"}]
    /\ since \in [Client -> Nat]
    /\ held \in [Client -> [S!Direction -> Seq(Cell)]]
    /\ counted \in [Client -> [S!Direction -> Nat]]

\* In both directions the session is a pipe: between the buffered data, the
\* copies and whatever fails, nothing is reordered, repeated or made up.
Up == INSTANCE Pipe WITH
        Stream <- Client, sent <- [c \in Client |-> sent[c]], got <- [c \in Client |-> GotUp(c)]
Down == INSTANCE Pipe WITH
        Stream <- Client, got <- [c \in Client |-> GotDown(c)],
        sent <- [c \in Client |-> IF dev[c] = None THEN 0 ELSE sent[dev[c]]]
UpPipe == Up!Spec
DownPipe == Down!Spec

\* What ForwardBuffered drops: what a client pipelines behind a USR-VCOM packet.
Dropped(c) == IF IsVcom(buffered[c]) THEN Len(buffered[c]) ELSE 0

\* From the client to the device nothing else is lost while the device is connected
\* and the copy runs: what is not at the device is in the copy's buf and the
\* connection, in order.  (A write deadline of a keepalive can cut a hole into
\* the buffered data.)
UpKept ==
    \A c \in Client :
        (cpc[c] = "run" /\ "up" \in copying[c] /\ conn[dev[c]] = "open" /\ ~KeepaliveOn) =>
            LET coming == held[c]["up"] \o unread[c]
                carried == sent[c] - Len(coming)
            IN  /\ \A k \in Dropped(c) + 1 .. carried :
                      \E i \in 1 .. Len(GotUp(c)) : GotUp(c)[i] = k
                /\ Positions(c, coming) = [i \in 1 .. Len(coming) |-> carried + i]

\* The proxy's first word to a client is the reply, or a refusal that nothing
\* follows; and the client's port settings reach the device before any of its bytes.
HandshakeFirst ==
    \A c \in Client :
        /\ received[c] # <<>> =>
              \/ received[c][1] = Own("reply", c)
              \/ received[c][1] = Own("refusal", c) /\ Len(received[c]) = 1
        /\ \A d \in Dev : \A i, j \in 1 .. Len(received[d]) :
              (received[d][i] = Own("preset", c) /\ IsByteOf(received[d][j], c)) => i < j

\* "Завершение сессии -> NO CARRIER" (the end of a session, CHANGELOG.md): a modem
\* client that is connected to the end of its session gets NO CARRIER before the
\* proxy hangs up.
NoCarrierSent ==
    [][\A c \in Modem :
          (cpc[c] = "closeC" /\ cconn[c] = "open" /\ cconn'[c] = "closed")
          => \E i \in 1 .. Len(received[c]) : received[c][i] = Own("noCarrier", c)]_vars

\* How many elements of s are greater than m.
Above(m, s) == Cardinality({i \in 1 .. Len(s) : s[i] > m})

\* What the API shows and onEnd logs is what was carried: BytesOut is what the
\* client got of the device, BytesIn what the device got of the client without
\* the data forwarded before the bridge.
CountsCarried ==
    \A c \in Client :
        /\ counted[c]["down"] = Above(0, GotDown(c))
        /\ counted[c]["up"] = Above(Len(buffered[c]), GotUp(c))

\* "After receiving OK, the connection enters transparent data transfer mode"
\* (README.md): while a session is up, what its device sends is at the client,
\* or on its way.
Transparent ==
    \A c \in Client :
        (/\ cpc[c] = "run" /\ copying[c] = S!Direction
         /\ cconn[c] = "open" /\ conn[dev[c]] = "open")
        => \A k \in since[c] + 1 .. sent[dev[c]] :
              \E s \in {received[c], held[c]["down"], unread[dev[c]]} :
                  \E i \in 1 .. Len(s) : s[i] = Byte("byte", dev[c], k)
=============================================================================
