---------------------------- MODULE BridgeProofs ----------------------------
(***************************************************************************)
(* Proofs about Bridge, for any set of clients and devices, any amount of  *)
(* data, with and without keepalive, and sessions that overlap on a device *)
(* or not.                                                                 *)
(*                                                                         *)
(* Bridge is Sessions with the bytes added, so it implements Sessions, and *)
(* what SessionsProofs proves of the handlers holds here.  The invariant   *)
(* about the bytes follows them from the peer's connection through the     *)
(* bufio.Reader and the copies' buffers to the other peer.                 *)
(***************************************************************************)
EXTENDS Bridge, SequenceTheorems, FiniteSetTheorems, TLAPS

SP == INSTANCE SessionsProofs

(***************************************************************************)
(* The inductive invariant.                                                *)
(***************************************************************************)

\* How much of what p has sent the proxy has read.
Read(p) == sent[p] - Len(unread[p])

\* What is unread is the end of what was sent, in order.
UnreadIs ==
    \A p \in Peer :
        /\ Len(unread[p]) <= sent[p]
        /\ \A i \in 1 .. Len(unread[p]) :
              /\ IsByteOf(unread[p][i], p)
              /\ unread[p][i].at = Read(p) + i
              /\ p \in Dev => unread[p][i].kind = "byte"

\* The buffered data is the beginning of what the client has sent, and before
\* Run it is all that has been read of it.
BufferedIs ==
    \A c \in Client :
        /\ \A i \in 1 .. Len(buffered[c]) :
              IsByteOf(buffered[c][i], c) /\ buffered[c][i].at = i
        /\ Len(buffered[c]) <= Read(c)
        /\ cpc[c] = "idle" => Read(c) = 0
        /\ cpc[c] \in SP!BeforeRun => Read(c) = Len(buffered[c])

\* Only a running copy holds bytes.
HeldCopying ==
    \A c \in Client : \A dir \in S!Direction : held[c][dir] # <<>> => dir \in copying[c]

\* What the copy from the client holds is the end of what was read: nobody else
\* reads the client.
UpHeld ==
    \A c \in Client :
        /\ Len(buffered[c]) + Len(held[c]["up"]) <= Read(c)
        /\ \A i \in 1 .. Len(held[c]["up"]) :
              /\ IsByteOf(held[c]["up"][i], c)
              /\ held[c]["up"][i].at = Read(c) - Len(held[c]["up"]) + i

\* What the copy from the device holds is a piece of what was read: deviceReader
\* and the copy of another session read the device too.
DownHeld ==
    \A c \in Client : \A i \in 1 .. Len(held[c]["down"]) :
        /\ IsByteOf(held[c]["down"][i], dev[c])
        /\ held[c]["down"][i].kind = "byte"
        /\ held[c]["down"][1].at >= 1
        /\ held[c]["down"][i].at = held[c]["down"][1].at + i - 1
        /\ held[c]["down"][i].at <= Read(dev[c])

\* Nothing is forwarded before the reply, the bridge starts when all is forwarded,
\* and not before the reply.
Handshaken ==
    \A c \in Client :
        /\ cpc[c] \in SP!Early => forward[c] = "presets" /\ received[c] = <<>>
        /\ copying[c] # {} => forward[c] = "nothing"
        /\ copying[c] # {} \/ cpc[c] = "bridge" =>
              received[c] # <<>> /\ received[c][1] = Own("reply", c)

\* The bytes of a client are at its device only, in order, and what the copy
\* holds comes after them.
AtDevice ==
    \A d \in Dev : \A c \in Client : \A i \in 1 .. Len(received[d]) :
        IsByteOf(received[d][i], c) =>
            /\ dev[c] = d /\ forward[c] = "nothing"
            /\ received[d][i].at \in 1 .. Read(c) - Len(held[c]["up"])
            /\ \A j \in i + 1 .. Len(received[d]) :
                  IsByteOf(received[d][j], c) => received[d][i].at < received[d][j].at

\* Behind the reply a client has bytes of its device only, in order, and what the
\* copy holds comes after them.
AtClient ==
    \A c \in Client : \A i \in 2 .. Len(received[c]) :
        /\ IsByteOf(received[c][i], dev[c])
        /\ received[c][i].kind = "byte"
        /\ received[c][i].at \in 1 .. Read(dev[c])
        /\ held[c]["down"] # <<>> => received[c][i].at < held[c]["down"][1].at
        /\ \A j \in i + 1 .. Len(received[c]) : received[c][i].at < received[c][j].at

\* What was read of a client and is not in the copy's buf is at the device.
UpCover ==
    \A c \in Client :
        (/\ forward[c] = "nothing"
         /\ cpc[c] = "bridge" \/ "up" \in copying[c]
         /\ conn[dev[c]] = "open" /\ ~KeepaliveOn)
        => \A k \in Dropped(c) + 1 .. Read(c) - Len(held[c]["up"]) :
              \E i \in 1 .. Len(received[dev[c]]) :
                  IsByteOf(received[dev[c]][i], c) /\ received[dev[c]][i].at = k

ByteInv ==
    /\ UnreadIs /\ BufferedIs /\ HeldCopying /\ UpHeld /\ DownHeld
    /\ Handshaken /\ AtDevice /\ AtClient /\ HandshakeFirst

\* A client has no device before the registry lookup.
Unassigned == \A c \in Client : cpc[c] \in {"idle", "lookUp"} => dev[c] = None

IInv == TypeOK /\ SP!IInv /\ ByteInv /\ UpCover /\ CountsCarried /\ Unassigned

(***************************************************************************)
(* Sequences, element by element.                                          *)
(***************************************************************************)

\* First and Rest cut a sequence in two.
LEMMA FirstRest ==
    ASSUME NEW T, NEW s \in Seq(T), NEW n \in 0 .. Len(s)
    PROVE  /\ First(s, n) \in Seq(T) /\ Len(First(s, n)) = n
           /\ \A i \in 1 .. n : First(s, n)[i] = s[i]
           /\ Rest(s, n) \in Seq(T) /\ Len(Rest(s, n)) = Len(s) - n
           /\ \A i \in 1 .. Len(s) - n : Rest(s, n)[i] = s[n + i]
<1>1. Len(s) \in Nat /\ \A i \in 1 .. Len(s) : s[i] \in T
  BY LenProperties
<1>2. \A i \in 1 .. n : s[i] \in T
  BY <1>1
<1>3. \A i \in n + 1 .. Len(s) : s[i] \in T
  BY <1>1
<1>4. /\ First(s, n) \in Seq(T) /\ Len(First(s, n)) = n
      /\ \A i \in 1 .. n : First(s, n)[i] = s[i]
  BY <1>1, <1>2, SubSeqProperties, 1 \in Int, n \in Int DEF First
<1>5. /\ Rest(s, n) \in Seq(T) /\ Len(Rest(s, n)) = Len(s) - n
      /\ \A i \in 1 .. Len(s) - n : Rest(s, n)[i] = s[n + i]
  BY <1>1, <1>3, SubSeqProperties, n + 1 \in Int, Len(s) \in Int DEF Rest
<1>6. QED
  BY <1>4, <1>5

\* What a write of the first n elements of s adds to what was received.
LEMMA Extended ==
    ASSUME NEW T, NEW r \in Seq(T), NEW s \in Seq(T), NEW n \in 0 .. Len(s)
    PROVE  /\ r \o First(s, n) \in Seq(T) /\ Len(r \o First(s, n)) = Len(r) + n
           /\ \A i \in 1 .. Len(r) : (r \o First(s, n))[i] = r[i]
           /\ \A i \in 1 .. n : (r \o First(s, n))[Len(r) + i] = s[i]
           /\ n = 0 => r \o First(s, n) = r
<1>1. Len(r) \in Nat
  OBVIOUS
<1>2. /\ First(s, n) \in Seq(T) /\ Len(First(s, n)) = n
      /\ \A i \in 1 .. n : First(s, n)[i] = s[i]
  BY FirstRest
<1>3. /\ r \o First(s, n) \in Seq(T) /\ Len(r \o First(s, n)) = Len(r) + n
      /\ \A i \in 1 .. Len(r) + n : (r \o First(s, n))[i] =
            IF i <= Len(r) THEN r[i] ELSE First(s, n)[i - Len(r)]
  <2>1. ASSUME NEW f \in Seq(T)
        PROVE  /\ r \o f \in Seq(T) /\ Len(r \o f) = Len(r) + Len(f)
               /\ \A i \in 1 .. Len(r) + Len(f) :
                     (r \o f)[i] = IF i <= Len(r) THEN r[i] ELSE f[i - Len(r)]
    BY ConcatProperties
  <2>2. QED
    BY <1>2, <2>1
<1>4. \A i \in 1 .. n : (r \o First(s, n))[Len(r) + i] = s[i]
  BY <1>1, <1>2, <1>3
<1>5. n = 0 => First(s, n) = <<>>
  BY <1>2
<1>6. QED
  BY <1>1, <1>3, <1>4, <1>5, ConcatEmptySeq

(***************************************************************************)
(* Bridge implements Sessions; SP defines again what S defines.            *)
(***************************************************************************)

\* The actions of S are those of SP.
LEMMA SameSessionsNext == [S!Next]_(S!vars) <=> [SP!Next]_(SP!vars)
  BY DEF S!Next, SP!Next, S!vars, SP!vars, S!deviceVars, SP!deviceVars, S!bridgeVars, SP!bridgeVars,
         S!clientVars, SP!clientVars, S!Direction, SP!Direction, S!DeviceSide,
         SP!DeviceSide, S!DeviceRegisters, SP!DeviceRegisters, S!DeviceUnregisters,
         SP!DeviceUnregisters, S!DeviceGone, SP!DeviceGone, S!DeviceClosed,
         SP!DeviceClosed, S!ClientSide, SP!ClientSide, S!Arrive, SP!Arrive, S!Dial,
         SP!Dial, S!RefuseDial, SP!RefuseDial, S!Refuse, SP!Refuse, S!Goto, SP!Goto, S!CloseClientConn,
         SP!CloseClientConn, S!CloseDeviceConn, SP!CloseDeviceConn, S!Handler,
         SP!Handler, S!LookUp, SP!LookUp, S!CheckBusy, SP!CheckBusy, S!CreateSession,
         SP!CreateSession, S!SetSession, SP!SetSession, S!Reply, SP!Reply, S!GiveUp,
         SP!GiveUp, S!End, SP!End, S!ClearSession, SP!ClearSession, S!StartBridge,
         SP!StartBridge, S!LeaveRun, SP!LeaveRun, S!CloseClient, SP!CloseClient,
         S!CloseDevice, SP!CloseDevice, S!Join, SP!Join, S!CleanUp, SP!CleanUp,
         S!WriteNoCarrier, SP!WriteNoCarrier, S!DeferredClose, SP!DeferredClose,
         S!ReadEnds, SP!ReadEnds, S!CopyBreaks, SP!CopyBreaks, S!CopyReturns,
         SP!CopyReturns, S!Source, SP!Source, S!Keepalive, SP!Keepalive, S!NopGoto,
         SP!NopGoto, S!NopStops, SP!NopStops, S!NopTick, SP!NopTick, S!NopClientSent,
         SP!NopClientSent, S!NopClientFails, SP!NopClientFails, S!NopDeviceSent,
         SP!NopDeviceSent, S!NopDeviceFails, SP!NopDeviceFails, S!TerminateLoad,
         SP!TerminateLoad, S!Terminate, SP!Terminate, S!TerminateClient,
         SP!TerminateClient, S!TerminateDevice, SP!TerminateDevice, S!ClientGone,
         SP!ClientGone

\* The initial states and the types of S are those of SP.
LEMMA SameSessions ==
    /\ S!Init <=> SP!Init
    /\ S!TypeOK <=> SP!TypeOK
    /\ S!SessionsAssumption <=> SP!SessionsAssumption
    /\ S!Direction = SP!Direction
  BY DEF S!Init, SP!Init, S!TypeOK, SP!TypeOK, S!SessionsAssumption, SP!SessionsAssumption,
         S!ConnState, SP!ConnState, S!Phase, SP!Phase, S!Marked, SP!Marked, S!Leaving,
         SP!Leaving, S!Held, SP!Held, S!Direction, SP!Direction

\* The copies of the client c move their bytes.
CarryOut(c, dir, n) ==
    /\ dir \in copying[c]
    /\ held[c][dir] # <<>>
    /\ CopyOut(c, dir, n)
    /\ \/ n = Len(held[c][dir]) /\ UNCHANGED sessionVars
       \/ n \in 0 .. Len(held[c][dir]) - 1 /\ S!CopyReturns(c, dir)

\* Steps that move no byte, start a copy only when all is forwarded, and end one
\* only when it holds nothing.
Quiet ==
    /\ UNCHANGED <<sent, unread, received, buffered, forward, held, counted>>
    /\ \A b \in Client :
          /\ cpc'[b] = "bridge" => cpc[b] = "bridge"
          /\ \/ copying'[b] \subseteq copying[b]
             \/ cpc[b] = "bridge" /\ forward[b] = "nothing"
          /\ \A dir \in copying[b] \ copying'[b] : held[b][dir] = <<>>

\* A step of handleClient, the bridge or the API that S describes, with what it
\* does to the bytes, is a step of S.
LEMMA RefinesStep == [Next]_vars => [S!Next]_(S!vars)
<1> SUFFICES ASSUME [Next]_vars PROVE [S!Next]_(S!vars)
  OBVIOUS
<1>1. CASE UNCHANGED sessionVars
  BY <1>1 DEF sessionVars, S!vars
<1>2. ASSUME NEW c \in Client, S!ClientSide(c) PROVE S!Next
  BY <1>2 DEF S!Next
<1>3. ASSUME NEW c \in Client,
             \/ Dial(c) \/ Refuse(c) \/ Reply(c) \/ StartBridge(c) \/ WriteNoCarrier(c)
             \/ Control(c)
      PROVE  S!ClientSide(c)
  BY <1>3 DEF Dial, Refuse, Reply, StartBridge, WriteNoCarrier, Control, S!ClientSide, S!Arrive,
     S!Handler
<1>4. ASSUME NEW c \in Client, ForwardPresets(c) \/ ForwardBuffered(c)
      PROVE  UNCHANGED sessionVars
  BY <1>4 DEF ForwardPresets, ForwardBuffered, Forward
<1>5. ASSUME NEW c \in Client, NEW dir \in S!Direction, Copy(c, dir)
      PROVE  UNCHANGED sessionVars \/ S!ClientSide(c)
  BY <1>5 DEF Copy, CopyRead, CopyWrite, CopyBreaks, ReadEnds, S!ClientSide
<1>6. CASE (\E d \in Dev : DeviceReaderTakes(d)) \/ (\E p \in Peer : PeerSends(p))
  BY <1>1, <1>6 DEF DeviceReaderTakes, PeerSends
<1>7. CASE S!DeviceSide
  BY <1>7 DEF S!Next
<1>8. CASE UNCHANGED vars
  BY <1>1, <1>8 DEF vars
<1>9. QED
  BY <1>1, <1>2, <1>3, <1>4, <1>5, <1>6, <1>7, <1>8 DEF Next

\* Whatever the bytes do, the handlers behave as Sessions says.
THEOREM ImplementsSessions == Spec => S!Spec
<1>1. Init => S!Init
  BY DEF Init
<1>2. QED
  BY <1>1, RefinesStep, PTL DEF Spec, S!Spec

\* So the invariant of SessionsProofs holds.
LEMMA SessionsInvariant == Spec => []SP!IInv
<1>1. S!Spec => SP!Spec
  BY SameSessions, SameSessionsNext, PTL DEF S!Spec, SP!Spec
<1>2. SP!Spec => []SP!IInv
  BY SP!Invariant, SameSessions, BridgeAssumption DEF BridgeAssumption
<1>3. QED
  BY <1>1, <1>2, ImplementsSessions, PTL

(***************************************************************************)
(* The steps, by what they do to the bytes.                                *)
(***************************************************************************)

\* The types of the variables that the proofs below look at.
LEMMA Types ==
    ASSUME TypeOK
    PROVE  /\ sent \in [Peer -> Nat] /\ unread \in [Peer -> Seq(Cell)]
           /\ received \in [Peer -> Seq(Cell)] /\ buffered \in [Client -> Seq(Cell)]
           /\ forward \in [Client -> {"presets", "buffered", "nothing"}]
           /\ held \in [Client -> [{"up", "down"} -> Seq(Cell)]]
           /\ counted \in [Client -> [{"up", "down"} -> Nat]]
           /\ since \in [Client -> Nat]
           /\ cpc \in [Client -> S!Phase] /\ dev \in [Client -> Dev \cup {None}]
           /\ conn \in [Dev -> S!ConnState] /\ cconn \in [Client -> S!ConnState]
           /\ copying \in [Client -> SUBSET {"up", "down"}]
           /\ \A c \in Client : cpc[c] \in S!Held => dev[c] \in Dev
  BY DEF TypeOK, S!TypeOK, S!Direction

\* handleClient writes NO CARRIER to a connection that Run has closed.
LEMMA NoCarrierQuiet ==
    ASSUME TypeOK, SP!IInv, NEW c \in Client, WriteNoCarrier(c)
    PROVE  Quiet
<1>1. cpc[c] = "noCarrier" /\ cpc' = [cpc EXCEPT ![c] = "close"] /\ copying' = copying
  BY DEF WriteNoCarrier, S!WriteNoCarrier, S!Goto, S!bridgeVars
<1>2. cconn[c] = "closed"
  BY <1>1 DEF SP!IInv, SP!EndClosesBoth
<1>3. received' = received
  <2>1. PICK n \in 0 .. 1 : Write(c, <<Own("noCarrier", c)>>, n)
    BY DEF WriteNoCarrier
  <2>2. n = 0
    BY <1>2, <2>1 DEF Write, ConnOf
  <2>3. First(<<Own("noCarrier", c)>>, 0) = <<>>
    BY SubSeqEmpty DEF First
  <2>4. received[c] \o <<>> = received[c]
    BY Types, ConcatEmptySeq DEF Peer
  <2>5. QED
    BY <2>1, <2>2, <2>3, <2>4, Types DEF Write
<1>4. QED
  BY <1>1, <1>3, Types DEF Quiet, WriteNoCarrier

\* The other steps of handleClient, the keepalive and the API that move no byte.
LEMMA ControlQuiet ==
    ASSUME TypeOK, NEW c \in Client, Control(c)
    PROVE  Quiet
<1>1. /\ UNCHANGED byteVars /\ copying' = copying
      /\ cpc' = cpc \/ \E to \in S!Phase \ {"bridge"} : cpc' = [cpc EXCEPT ![c] = to]
  <2> USE DEF Control, S!Goto, S!bridgeVars, S!Phase, S!Marked, S!Leaving
  <2>1. CASE S!RefuseDial(c) \/ S!LookUp(c) \/ S!CheckBusy(c) \/ S!CreateSession(c)
    BY <2>1 DEF S!RefuseDial, S!LookUp, S!CheckBusy, S!CreateSession
  <2>2. CASE S!SetSession(c) \/ S!GiveUp(c) \/ S!CleanUp(c)
    BY <2>2 DEF S!SetSession, S!GiveUp, S!CleanUp, S!End, S!ClearSession
  <2>3. CASE S!LeaveRun(c) \/ S!CloseClient(c) \/ S!CloseDevice(c) \/ S!Join(c)
             \/ S!DeferredClose(c)
    BY <2>3 DEF S!LeaveRun, S!CloseClient, S!CloseDevice, S!Join, S!DeferredClose
  <2>4. CASE S!Keepalive(c)
    BY <2>4 DEF S!Keepalive, S!NopStops, S!NopTick, S!NopClientSent, S!NopClientFails,
       S!NopDeviceSent, S!NopDeviceFails, S!NopGoto
  <2>5. CASE S!TerminateLoad(c) \/ S!Terminate(c) \/ S!ClientGone(c)
    BY <2>5 DEF S!TerminateLoad, S!Terminate, S!TerminateClient, S!TerminateDevice,
       S!ClientGone
  <2>6. QED
    BY <2>1, <2>2, <2>3, <2>4, <2>5
<1>2. QED
  BY <1>1, Types DEF Quiet, byteVars

\* Every step moves no byte or is one of these.
LEMMA StepCases ==
    ASSUME TypeOK, SP!IInv, [Next]_vars
    PROVE  \/ Quiet
           \/ \E c \in Client :
                 \/ Dial(c)
                 \/ Refuse(c)
                 \/ Reply(c) /\ cpc'[c] = "bridge"
                 \/ ForwardPresets(c) \/ ForwardBuffered(c)
                 \/ \E dir \in {"up", "down"} :
                       CopyRead(c, dir) \/ \E n \in Nat : CarryOut(c, dir, n)
           \/ \E d \in Dev : DeviceReaderTakes(d)
           \/ \E p \in Peer : PeerSends(p)
<1> USE Types
<1>1. CASE UNCHANGED vars
  BY <1>1 DEF vars, sessionVars, byteVars, Quiet
<1>2. CASE S!DeviceSide /\ UNCHANGED byteVars
  <2>1. UNCHANGED <<cpc, copying>>
    BY <1>2 DEF S!DeviceSide, S!DeviceRegisters, S!DeviceUnregisters, S!DeviceGone,
       S!DeviceClosed, S!clientVars, S!bridgeVars
  <2>2. QED
    BY <1>2, <2>1 DEF byteVars, Quiet
<1>3. ASSUME NEW c \in Client, Reply(c), cpc'[c] # "bridge" PROVE Quiet
  BY <1>3 DEF Reply, S!Reply, S!Goto, S!bridgeVars, Quiet
<1>4. ASSUME NEW c \in Client, StartBridge(c) PROVE Quiet
  BY <1>4 DEF StartBridge, S!StartBridge, S!Goto, S!Direction, Quiet
<1>5. ASSUME NEW c \in Client, NEW dir \in {"up", "down"}, ReadEnds(c, dir) PROVE Quiet
  BY <1>5 DEF ReadEnds, S!ReadEnds, S!CopyReturns, byteVars, Quiet
<1>6. ASSUME NEW c \in Client, NEW dir \in {"up", "down"}, CopyBreaks(c, dir)
      PROVE  Quiet \/ \E n \in Nat : CarryOut(c, dir, n)
  <2>1. S!CopyReturns(c, dir)
    BY <1>6 DEF CopyBreaks, S!CopyBreaks
  <2>2. CASE held[c][dir] = <<>> /\ UNCHANGED byteVars
    BY <2>1, <2>2 DEF S!CopyReturns, byteVars, Quiet
  <2>3. ASSUME NEW n \in 0 .. Len(held[c][dir]) - 1, CopyOut(c, dir, n)
        PROVE  CarryOut(c, dir, n)
    BY <2>1, <2>3 DEF S!CopyReturns, CarryOut
  <2>4. QED
    BY <1>6, <2>2, <2>3 DEF CopyBreaks
<1>7. ASSUME NEW c \in Client, NEW dir \in {"up", "down"}, CopyWrite(c, dir)
      PROVE  CarryOut(c, dir, Len(held[c][dir]))
  BY <1>7 DEF CopyWrite, CarryOut
<1>8. ASSUME NEW c \in Client, NEW dir \in {"up", "down"} PROVE Len(held[c][dir]) \in Nat
  OBVIOUS
<1> HIDE Types
<1>9. ASSUME NEW c \in Client, NEW dir \in {"up", "down"}, Copy(c, dir)
      PROVE  Quiet \/ CopyRead(c, dir) \/ \E n \in Nat : CarryOut(c, dir, n)
  BY <1>5, <1>6, <1>7, <1>8, <1>9 DEF Copy
<1>10. ASSUME NEW c \in Client,
              \/ Dial(c) \/ Refuse(c) \/ Reply(c) \/ ForwardPresets(c) \/ ForwardBuffered(c)
              \/ StartBridge(c) \/ WriteNoCarrier(c) \/ Control(c)
       PROVE  \/ Quiet
              \/ Dial(c)
              \/ Refuse(c)
              \/ Reply(c) /\ cpc'[c] = "bridge"
              \/ ForwardPresets(c)
              \/ ForwardBuffered(c)
  BY <1>3, <1>4, <1>10, NoCarrierQuiet, ControlQuiet
<1>11. CASE \E c \in Client :
               \/ Dial(c) \/ Refuse(c) \/ Reply(c) \/ ForwardPresets(c) \/ ForwardBuffered(c)
               \/ StartBridge(c) \/ WriteNoCarrier(c) \/ Control(c)
  BY <1>10, <1>11
<1>12. CASE \E c \in Client, dir \in {"up", "down"} : Copy(c, dir)
  BY <1>9, <1>12
<1>13. QED
  BY <1>1, <1>2, <1>11, <1>12 DEF Next, S!Direction

(***************************************************************************)
(* The same steps, byte by byte.                                           *)
(***************************************************************************)

\* The proxy reads n bytes of p.
Reads(p, n) ==
    /\ n \in 0 .. Len(unread[p])
    /\ Len(unread'[p]) = Len(unread[p]) - n
    /\ \A i \in 1 .. Len(unread[p]) - n : unread'[p][i] = unread[p][n + i]
    /\ \A q \in Peer \ {p} : unread'[q] = unread[q]

\* The proxy writes the first n elements of s to p.
Writes(p, s, n) ==
    /\ n \in 0 .. Len(s)
    /\ Len(received'[p]) = Len(received[p]) + n
    /\ \A i \in 1 .. Len(received[p]) : received'[p][i] = received[p][i]
    /\ \A i \in 1 .. n : received'[p][Len(received[p]) + i] = s[i]
    /\ \A q \in Peer \ {p} : received'[q] = received[q]

DialEffect(c, n) ==
    /\ Reads(c, n)
    /\ Len(buffered'[c]) = n /\ \A i \in 1 .. n : buffered'[c][i] = unread[c][i]
    /\ \A b \in Client \ {c} : buffered'[b] = buffered[b]
    /\ cpc[c] = "idle" /\ cpc' = [cpc EXCEPT ![c] = "lookUp"]
    /\ UNCHANGED <<dev, conn, copying, sent, received, forward, held, counted>>

\* The reply, or a refusal.
ReplyEffect(c) ==
    /\ \/ /\ Writes(c, <<Own("reply", c)>>, 1)
          /\ cpc[c] = "reply" /\ cpc' = [cpc EXCEPT ![c] = "bridge"]
       \/ /\ Writes(c, <<Own("refusal", c)>>, 1)
          /\ cpc[c] = "refuse" /\ cpc' = [cpc EXCEPT ![c] = "refused"]
    /\ UNCHANGED <<dev, conn, copying, sent, unread, buffered, forward, held, counted>>

\* Forward is left to one write of s on the device's connection.
ForwardEffect(c, s, n) ==
    /\ Writes(dev[c], s, n)
    /\ n = Len(s) \/ conn[dev[c]] # "open" \/ KeepaliveOn
    /\ cpc[c] = "bridge" /\ dev[c] \in Dev
    /\ \/ forward[c] = "presets" /\ forward' = [forward EXCEPT ![c] = "buffered"]
       \/ forward[c] = "buffered" /\ forward' = [forward EXCEPT ![c] = "nothing"]
    /\ \/ Len(s) <= 1 /\ \A i \in 1 .. Len(s) : s[i] = Own("preset", c)
       \/ forward[c] = "buffered" /\ s = buffered[c]
    /\ s = buffered[c] \/ forward[c] = "presets" \/ IsVcom(buffered[c])
    /\ UNCHANGED <<cpc, dev, conn, copying, sent, unread, buffered, held, counted>>

CopyEffect(c, dir, n) ==
    /\ Reads(From(c, dir), n) /\ n > 0
    /\ dir \in copying[c] /\ dev[c] \in Dev
    /\ held[c][dir] = <<>>
    /\ Len(held'[c][dir]) = n /\ \A i \in 1 .. n : held'[c][dir][i] = unread[From(c, dir)][i]
    /\ \A b \in Client, way \in {"up", "down"} :
          b # c \/ way # dir => held'[b][way] = held[b][way]
    /\ UNCHANGED <<cpc, dev, conn, copying, sent, received, buffered, forward, counted>>

CarryEffect(c, dir, n) ==
    /\ Writes(To(c, dir), held[c][dir], n)
    /\ dir \in copying[c] /\ dev[c] \in Dev
    /\ held'[c][dir] = <<>> /\ counted'[c][dir] = counted[c][dir] + n
    /\ \A b \in Client, way \in {"up", "down"} :
          b # c \/ way # dir => held'[b][way] = held[b][way] /\ counted'[b][way] = counted[b][way]
    /\ \/ n = Len(held[c][dir]) /\ copying' = copying
       \/ copying' = [copying EXCEPT ![c] = @ \ {dir}]
    /\ UNCHANGED <<cpc, dev, conn, sent, unread, buffered, forward>>

TakesEffect(d, n) ==
    /\ Reads(d, n)
    /\ UNCHANGED <<cpc, dev, conn, copying, sent, received, buffered, forward, held, counted>>

SendsEffect(p) ==
    /\ sent' = [sent EXCEPT ![p] = @ + 1] /\ sent[p] < MaxSent[p]
    /\ Len(unread'[p]) = Len(unread[p]) + 1
    /\ \A i \in 1 .. Len(unread[p]) : unread'[p][i] = unread[p][i]
    /\ IsByteOf(unread'[p][Len(unread[p]) + 1], p)
    /\ unread'[p][Len(unread[p]) + 1].at = sent[p] + 1
    /\ p \in Dev => unread'[p][Len(unread[p]) + 1].kind = "byte"
    /\ \A q \in Peer \ {p} : unread'[q] = unread[q]
    /\ UNCHANGED <<cpc, dev, conn, copying, received, buffered, forward, held, counted>>

\* Take and the read of the bufio.Reader, byte by byte.
LEMMA ReadIs ==
    ASSUME TypeOK, NEW p \in Peer, NEW n \in 0 .. Len(unread[p]),
           unread' = [unread EXCEPT ![p] = Rest(@, n)]
    PROVE  /\ Reads(p, n) /\ unread' \in [Peer -> Seq(Cell)]
           /\ First(unread[p], n) \in Seq(Cell) /\ Len(First(unread[p], n)) = n
           /\ \A i \in 1 .. n : First(unread[p], n)[i] = unread[p][i]
<1>1. unread \in [Peer -> Seq(Cell)] /\ unread[p] \in Seq(Cell)
  BY Types
<1>2. /\ First(unread[p], n) \in Seq(Cell) /\ Len(First(unread[p], n)) = n
      /\ \A i \in 1 .. n : First(unread[p], n)[i] = unread[p][i]
      /\ Rest(unread[p], n) \in Seq(Cell) /\ Len(Rest(unread[p], n)) = Len(unread[p]) - n
      /\ \A i \in 1 .. Len(unread[p]) - n : Rest(unread[p], n)[i] = unread[p][n + i]
  BY <1>1, FirstRest
<1>3. QED
  BY <1>1, <1>2 DEF Reads

\* Write, byte by byte.
LEMMA WriteIs ==
    ASSUME TypeOK, NEW p \in Peer, NEW s \in Seq(Cell), NEW n \in 0 .. Len(s), Write(p, s, n)
    PROVE  Writes(p, s, n) /\ received' \in [Peer -> Seq(Cell)]
<1>1. received \in [Peer -> Seq(Cell)] /\ received[p] \in Seq(Cell)
  BY Types
<1>2. /\ received[p] \o First(s, n) \in Seq(Cell)
      /\ Len(received[p] \o First(s, n)) = Len(received[p]) + n
      /\ \A i \in 1 .. Len(received[p]) : (received[p] \o First(s, n))[i] = received[p][i]
      /\ \A i \in 1 .. n : (received[p] \o First(s, n))[Len(received[p]) + i] = s[i]
  BY <1>1, Extended
<1>3. received' = [received EXCEPT ![p] = received[p] \o First(s, n)]
  BY DEF Write
<1>4. QED
  BY <1>1, <1>2, <1>3 DEF Writes

\* A client at its bridge holds a device.
LEMMA AtBridge ==
    ASSUME TypeOK, SP!IInv, NEW c \in Client, cpc[c] = "bridge" \/ copying[c] # {}
    PROVE  dev[c] \in Dev
  BY Types DEF SP!IInv, SP!CopyingInsideRun, S!Held, S!Marked

\* What the proxy says on its own account is a cell.
LEMMA OwnCell ==
    ASSUME NEW c \in Client
    PROVE  /\ <<Own("preset", c)>> \in Seq(Cell) /\ <<Own("reply", c)>> \in Seq(Cell)
           /\ <<Own("refusal", c)>> \in Seq(Cell) /\ <<>> \in Seq(Cell)
<1>1. Own("preset", c) \in Cell /\ Own("reply", c) \in Cell /\ Own("refusal", c) \in Cell
  BY DEF Own, Byte, Cell, Peer
<1>2. QED
  BY <1>1

\* The types of the bytes.
ByteTypes ==
    /\ sent \in [Peer -> Nat] /\ unread \in [Peer -> Seq(Cell)]
    /\ received \in [Peer -> Seq(Cell)] /\ buffered \in [Client -> Seq(Cell)]
    /\ forward \in [Client -> {"presets", "buffered", "nothing"}]
    /\ since \in [Client -> Nat]
    /\ held \in [Client -> [{"up", "down"} -> Seq(Cell)]]
    /\ counted \in [Client -> [{"up", "down"} -> Nat]]

\* Dial is its effect.
LEMMA DialIs ==
    ASSUME TypeOK, NEW c \in Client, Dial(c)
    PROVE  (\E n \in Nat : DialEffect(c, n)) /\ ByteTypes'
<1>1. PICK n \in 0 .. Len(unread[c]) :
        /\ buffered' = [buffered EXCEPT ![c] = First(unread[c], n)]
        /\ unread' = [unread EXCEPT ![c] = Rest(@, n)]
  BY DEF Dial
<1>2. c \in Peer
  BY DEF Peer
<1>3. UNCHANGED <<sent, received, forward, since, held, counted>>
  BY DEF Dial
<1>4. cpc[c] = "idle" /\ cpc' = [cpc EXCEPT ![c] = "lookUp"] /\ UNCHANGED <<dev, conn, copying>>
  BY DEF Dial, S!Dial, S!Goto, S!deviceVars, S!bridgeVars
<1>5. /\ Reads(c, n) /\ unread' \in [Peer -> Seq(Cell)]
      /\ First(unread[c], n) \in Seq(Cell) /\ Len(First(unread[c], n)) = n
      /\ \A i \in 1 .. n : First(unread[c], n)[i] = unread[c][i]
  BY <1>1, <1>2, ReadIs
<1>6. DialEffect(c, n)
  BY <1>1, <1>3, <1>4, <1>5, Types DEF DialEffect
<1>7. ByteTypes'
  BY <1>1, <1>3, <1>5, Types DEF ByteTypes
<1>8. QED
  BY <1>6, <1>7

\* The reply that is written is its effect.
LEMMA ReplyIs ==
    ASSUME TypeOK, NEW c \in Client, Reply(c), cpc'[c] = "bridge"
    PROVE  ReplyEffect(c) /\ ByteTypes'
<1>1. Write(c, <<Own("reply", c)>>, 1)
  BY DEF Reply
<1>2. Writes(c, <<Own("reply", c)>>, 1) /\ received' \in [Peer -> Seq(Cell)]
  <2>1. c \in Peer /\ 1 \in 0 .. Len(<<Own("reply", c)>>)
    BY DEF Peer
  <2>2. QED
    BY <1>1, <2>1, WriteIs, OwnCell
<1>3. UNCHANGED <<sent, unread, buffered, forward, since, held, counted>>
  BY DEF Reply
<1>4. /\ cpc[c] = "reply" /\ cpc' = [cpc EXCEPT ![c] = "bridge"]
      /\ UNCHANGED <<dev, conn, copying>>
  BY Types DEF Reply, S!Reply, S!Goto, S!deviceVars, S!bridgeVars
<1>5. QED
  BY <1>2, <1>3, <1>4, Types DEF ReplyEffect, ByteTypes

\* A refusal is its effect; one that cannot be written moves no byte.
LEMMA RefuseIs ==
    ASSUME TypeOK, NEW c \in Client, Refuse(c)
    PROVE  (Quiet \/ ReplyEffect(c)) /\ ByteTypes'
<1> DEFINE s == <<Own("refusal", c)>>
<1>1. s \in Seq(Cell) /\ c \in Peer /\ Len(s) = 1
  BY OwnCell DEF Peer
<1>2. UNCHANGED <<sent, unread, buffered, forward, since, held, counted>>
  BY DEF Refuse
<1>3. /\ cpc[c] = "refuse" /\ cpc' = [cpc EXCEPT ![c] = "refused"]
      /\ UNCHANGED <<dev, conn, copying>>
  BY DEF Refuse, S!Refuse, S!Goto, S!deviceVars, S!bridgeVars
<1>4. PICK n \in 0 .. 1 : Write(c, s, n)
  BY DEF Refuse
<1> HIDE DEF s
<1>5. Writes(c, s, n) /\ received' \in [Peer -> Seq(Cell)]
  BY <1>1, <1>4, WriteIs
<1>6. ByteTypes'
  BY <1>2, <1>5, Types DEF ByteTypes
<1>7. CASE n = 0
  <2>1. received' = received
    <3>1. received' = [received EXCEPT ![c] = @ \o First(s, 0)]
      BY <1>4, <1>7 DEF Write
    <3>2. received[c] \in Seq(Cell)
      BY <1>1, Types
    <3>3. received[c] \o First(s, 0) = received[c]
      BY <1>1, <3>2, Extended, 0 \in 0 .. 1
    <3>4. QED
      BY <3>1, <3>3, Types
  <2>2. Quiet
    BY <1>2, <1>3, <2>1, Types DEF Quiet
  <2>3. QED
    BY <1>6, <2>2
<1>8. CASE n = 1
  <2>1. ReplyEffect(c)
    BY <1>2, <1>3, <1>5, <1>8 DEF ReplyEffect, s
  <2>2. QED
    BY <1>6, <2>1
<1>9. QED
  BY <1>7, <1>8

\* What handleClient forwards before the bridge is its effect.
LEMMA ForwardIs ==
    ASSUME TypeOK, SP!IInv, NEW c \in Client, ForwardPresets(c) \/ ForwardBuffered(c)
    PROVE  (\E s \in Seq(Cell) : \E n \in Nat : ForwardEffect(c, s, n)) /\ ByteTypes'
<1>1. /\ <<Own("preset", c)>> \in Seq(Cell) /\ <<>> \in Seq(Cell)
      /\ buffered[c] \in Seq(Cell)
  BY OwnCell, Types
<1>2. PICK s \in Seq(Cell), to \in {"buffered", "nothing"} :
        /\ Forward(c, IF to = "buffered" THEN "presets" ELSE "buffered", to, s)
        /\ \/ s = <<>> /\ to = "buffered"
           \/ s = <<Own("preset", c)>> /\ (to = "buffered" \/ IsVcom(buffered[c]))
           \/ s = buffered[c] /\ to = "nothing"
  <2>1. CASE ForwardPresets(c)
    BY <1>1, <2>1 DEF ForwardPresets
  <2>2. CASE ForwardBuffered(c)
    BY <1>1, <2>2 DEF ForwardBuffered
  <2>3. QED
    BY <2>1, <2>2
<1>3. /\ cpc[c] = "bridge" /\ forward[c] = (IF to = "buffered" THEN "presets" ELSE "buffered")
      /\ forward' = [forward EXCEPT ![c] = to]
      /\ UNCHANGED <<sessionVars, sent, unread, buffered, since, held, counted>>
  BY <1>2 DEF Forward
<1>4. PICK n \in 0 .. Len(s) : Write(dev[c], s, n)
  BY <1>2 DEF Forward
<1>5. dev[c] \in Dev
  BY <1>3, AtBridge
<1>6. Writes(dev[c], s, n) /\ received' \in [Peer -> Seq(Cell)]
  BY <1>4, <1>5, WriteIs DEF Peer
<1>7. n = Len(s) \/ conn[dev[c]] # "open" \/ KeepaliveOn
  BY <1>4, <1>5, BridgeAssumption DEF Write, WriteFails, ConnOf, BridgeAssumption
<1>8. ForwardEffect(c, s, n)
  <2>1. \/ Len(s) <= 1 /\ \A i \in 1 .. Len(s) : s[i] = Own("preset", c)
        \/ to = "nothing" /\ s = buffered[c]
    <3>1. CASE s = <<>>
      BY <3>1
    <3>2. CASE s = <<Own("preset", c)>>
      BY <3>2
    <3>3. QED
      BY <1>2, <3>1, <3>2
  <2>2. \/ forward[c] = "presets" /\ forward' = [forward EXCEPT ![c] = "buffered"]
        \/ forward[c] = "buffered" /\ forward' = [forward EXCEPT ![c] = "nothing"]
    BY <1>3
  <2>3. s = buffered[c] \/ forward[c] = "presets" \/ IsVcom(buffered[c])
    BY <1>2, <1>3
  <2>4. QED
    BY <1>3, <1>5, <1>6, <1>7, <2>1, <2>2, <2>3 DEF ForwardEffect, sessionVars
<1>9. ByteTypes'
  BY <1>3, <1>6, Types DEF ByteTypes
<1>10. QED
  BY <1>8, <1>9

\* The read of a copy is its effect.
LEMMA CopyIs ==
    ASSUME TypeOK, SP!IInv, NEW c \in Client, NEW dir \in {"up", "down"}, CopyRead(c, dir)
    PROVE  (\E n \in Nat : CopyEffect(c, dir, n)) /\ ByteTypes'
<1>1. /\ dir \in copying[c] /\ held[c][dir] = <<>>
      /\ UNCHANGED <<sessionVars, sent, received, buffered, forward, since, counted>>
  BY DEF CopyRead
<1>2. dev[c] \in Dev /\ From(c, dir) \in Peer
  BY <1>1, AtBridge DEF From, Peer
<1>3. PICK n \in 1 .. Len(unread[From(c, dir)]) :
        /\ unread' = [unread EXCEPT ![From(c, dir)] = Rest(@, n)]
        /\ held' = [held EXCEPT ![c][dir] = First(unread[From(c, dir)], n)]
  BY DEF CopyRead, Take
<1>4. n \in 0 .. Len(unread[From(c, dir)])
  BY <1>2, <1>3, Types
<1>5. /\ Reads(From(c, dir), n) /\ unread' \in [Peer -> Seq(Cell)]
      /\ First(unread[From(c, dir)], n) \in Seq(Cell)
      /\ Len(First(unread[From(c, dir)], n)) = n
      /\ \A i \in 1 .. n : First(unread[From(c, dir)], n)[i] = unread[From(c, dir)][i]
  BY <1>2, <1>3, <1>4, ReadIs
<1>6. /\ held'[c][dir] = First(unread[From(c, dir)], n)
      /\ \A b \in Client, way \in {"up", "down"} :
            b # c \/ way # dir => held'[b][way] = held[b][way]
      /\ held' \in [Client -> [{"up", "down"} -> Seq(Cell)]]
  BY <1>3, <1>5, Types
<1>7. CopyEffect(c, dir, n)
  BY <1>1, <1>2, <1>5, <1>6 DEF CopyEffect, sessionVars
<1>8. ByteTypes'
  BY <1>1, <1>5, <1>6, Types DEF ByteTypes
<1>9. QED
  BY <1>4, <1>7, <1>8

\* The write of a copy, complete or not, is its effect.
LEMMA CarryIs ==
    ASSUME TypeOK, SP!IInv, NEW c \in Client, NEW dir \in {"up", "down"}, NEW n \in Nat,
           CarryOut(c, dir, n)
    PROVE  CarryEffect(c, dir, n) /\ ByteTypes'
<1>1. /\ dir \in copying[c] /\ held[c][dir] \in Seq(Cell) /\ n \in 0 .. Len(held[c][dir])
      /\ Write(To(c, dir), held[c][dir], n)
      /\ held' = [held EXCEPT ![c][dir] = <<>>]
      /\ counted' = [counted EXCEPT ![c][dir] = @ + n]
      /\ UNCHANGED <<sent, unread, buffered, forward, since>>
  BY Types DEF CarryOut, CopyOut
<1>2. dev[c] \in Dev /\ To(c, dir) \in Peer
  BY <1>1, AtBridge DEF To, Peer
<1>3. Writes(To(c, dir), held[c][dir], n) /\ received' \in [Peer -> Seq(Cell)]
  BY <1>1, <1>2, WriteIs
<1>4. /\ held'[c][dir] = <<>> /\ counted'[c][dir] = counted[c][dir] + n
      /\ \A b \in Client, way \in {"up", "down"} :
            b # c \/ way # dir =>
                held'[b][way] = held[b][way] /\ counted'[b][way] = counted[b][way]
  BY <1>1, Types
<1>5. <<>> \in Seq(Cell) /\ counted[c][dir] + n \in Nat
  BY Types
<1>6. /\ held' \in [Client -> [{"up", "down"} -> Seq(Cell)]]
      /\ counted' \in [Client -> [{"up", "down"} -> Nat]]
  BY <1>1, <1>5, Types
<1>7. /\ \/ n = Len(held[c][dir]) /\ copying' = copying
         \/ copying' = [copying EXCEPT ![c] = @ \ {dir}]
      /\ UNCHANGED <<cpc, dev, conn>>
  BY DEF CarryOut, S!CopyReturns, S!deviceVars, sessionVars
<1>8. CarryEffect(c, dir, n)
  BY <1>1, <1>2, <1>3, <1>4, <1>7 DEF CarryEffect
<1>9. ByteTypes'
  BY <1>1, <1>3, <1>6, Types DEF ByteTypes
<1>10. QED
  BY <1>8, <1>9

\* The read of deviceReader is its effect.
LEMMA TakesIs ==
    ASSUME TypeOK, NEW d \in Dev, DeviceReaderTakes(d)
    PROVE  (\E n \in Nat : TakesEffect(d, n)) /\ ByteTypes'
<1>1. PICK n \in 1 .. Len(unread[d]) : Take(d, n)
  BY DEF DeviceReaderTakes
<1>2. d \in Peer /\ n \in 0 .. Len(unread[d]) /\ unread' = [unread EXCEPT ![d] = Rest(@, n)]
  BY <1>1, Types DEF Take, Peer
<1>3. Reads(d, n) /\ unread' \in [Peer -> Seq(Cell)]
  BY <1>2, ReadIs
<1>4. UNCHANGED <<sessionVars, sent, received, buffered, forward, since, held, counted>>
  BY DEF DeviceReaderTakes
<1>5. TakesEffect(d, n) /\ ByteTypes'
  BY <1>3, <1>4, Types DEF TakesEffect, ByteTypes, sessionVars
<1>6. QED
  BY <1>2, <1>5

\* What a peer sends is unread, behind what it has sent before.
LEMMA SendsIs ==
    ASSUME TypeOK, NEW p \in Peer, PeerSends(p)
    PROVE  SendsEffect(p) /\ ByteTypes'
<1>1. /\ sent[p] < MaxSent[p] /\ sent' = [sent EXCEPT ![p] = @ + 1]
      /\ UNCHANGED <<sessionVars, received, buffered, forward, since, held, counted>>
  BY DEF PeerSends
<1>2. sent[p] \in Nat /\ sent'[p] = sent[p] + 1 /\ sent' \in [Peer -> Nat]
  BY <1>1, Types
<1>3. PICK kind \in {"byte", "vcom"} :
        /\ p \notin Client => kind = "byte"
        /\ unread' = [unread EXCEPT ![p] = Append(@, Byte(kind, p, sent'[p]))]
  BY DEF PeerSends
<1>4. /\ Byte(kind, p, sent'[p]) \in Cell /\ IsByteOf(Byte(kind, p, sent'[p]), p)
      /\ Byte(kind, p, sent'[p]).at = sent[p] + 1
      /\ p \in Dev => Byte(kind, p, sent'[p]).kind = "byte"
  BY <1>2, <1>3, BridgeAssumption DEF Byte, Cell, IsByteOf, BridgeAssumption
<1>5. unread \in [Peer -> Seq(Cell)] /\ unread[p] \in Seq(Cell)
  BY Types
<1>6. /\ unread'[p] = Append(unread[p], Byte(kind, p, sent'[p]))
      /\ unread'[p] \in Seq(Cell) /\ Len(unread'[p]) = Len(unread[p]) + 1
      /\ \A i \in 1 .. Len(unread[p]) : unread'[p][i] = unread[p][i]
      /\ unread'[p][Len(unread[p]) + 1] = Byte(kind, p, sent'[p])
      /\ \A q \in Peer \ {p} : unread'[q] = unread[q]
  <2>1. ASSUME NEW x \in Cell
        PROVE  /\ Append(unread[p], x) \in Seq(Cell)
               /\ Len(Append(unread[p], x)) = Len(unread[p]) + 1
               /\ \A i \in 1 .. Len(unread[p]) : Append(unread[p], x)[i] = unread[p][i]
               /\ Append(unread[p], x)[Len(unread[p]) + 1] = x
    BY <1>5, AppendProperties
  <2>2. QED
    BY <1>3, <1>4, <1>5, <2>1
<1>7. SendsEffect(p)
  BY <1>1, <1>4, <1>6 DEF SendsEffect, sessionVars
<1>8. unread' \in [Peer -> Seq(Cell)]
  BY <1>3, <1>5, <1>6
<1>9. ByteTypes'
  BY <1>1, <1>2, <1>8, Types DEF ByteTypes
<1>10. QED
  BY <1>7, <1>9

\* A step that moves no byte leaves them their types.
LEMMA QuietTypes ==
    ASSUME TypeOK, [Next]_vars, Quiet
    PROVE  ByteTypes'
<1>1. since' \in [Client -> Nat]
  <2>1. ASSUME NEW c \in Client, StartBridge(c) PROVE since' \in [Client -> Nat]
    <3>1. dev[c] \in Dev
      BY <2>1, Types DEF StartBridge, S!StartBridge, S!Goto, S!Held, S!Marked
    <3>2. sent[dev[c]] \in Nat
      BY <3>1, Types DEF Peer
    <3>3. QED
      BY <2>1, <3>2, Types DEF StartBridge
  <2>2. CASE since' = since
    BY <2>2, Types
  <2>3. QED
    BY <2>1, <2>2
       DEF Next, vars, byteVars, Dial, Refuse, Reply, ForwardPresets, ForwardBuffered, Forward,
           WriteNoCarrier, Control, Copy, CopyRead, CopyWrite, CopyBreaks, CopyOut, ReadEnds,
           DeviceReaderTakes, PeerSends
<1>2. QED
  BY <1>1, Types DEF Quiet, ByteTypes

\* Every step has one of the effects, and leaves the bytes their types.
LEMMA EffectCases ==
    ASSUME TypeOK, SP!IInv, [Next]_vars
    PROVE  /\ ByteTypes'
           /\ \/ Quiet
              \/ \E c \in Client :
                    \/ \E n \in Nat : DialEffect(c, n)
                    \/ ReplyEffect(c)
                    \/ \E s \in Seq(Cell), n \in Nat : ForwardEffect(c, s, n)
                    \/ \E dir \in {"up", "down"}, n \in Nat :
                          CopyEffect(c, dir, n) \/ CarryEffect(c, dir, n)
              \/ \E d \in Dev, n \in Nat : TakesEffect(d, n)
              \/ \E p \in Peer : SendsEffect(p)
<1>1. CASE Quiet
  BY <1>1, QuietTypes
<1>2. ASSUME NEW c \in Client, Dial(c)
      PROVE  ByteTypes' /\ \E n \in Nat : DialEffect(c, n)
  BY <1>2, DialIs
<1>3. ASSUME NEW c \in Client, Refuse(c) \/ (Reply(c) /\ cpc'[c] = "bridge")
      PROVE  ByteTypes' /\ (Quiet \/ ReplyEffect(c))
  BY <1>3, RefuseIs, ReplyIs
<1>4. ASSUME NEW c \in Client, ForwardPresets(c) \/ ForwardBuffered(c)
      PROVE  ByteTypes' /\ \E s \in Seq(Cell), n \in Nat : ForwardEffect(c, s, n)
  BY <1>4, ForwardIs
<1>5. ASSUME NEW c \in Client, NEW dir \in {"up", "down"}, CopyRead(c, dir)
      PROVE  ByteTypes' /\ \E n \in Nat : CopyEffect(c, dir, n)
  BY <1>5, CopyIs
<1>6. ASSUME NEW c \in Client, NEW dir \in {"up", "down"}, NEW n \in Nat, CarryOut(c, dir, n)
      PROVE  ByteTypes' /\ CarryEffect(c, dir, n)
  BY <1>6, CarryIs
<1>7. ASSUME NEW d \in Dev, DeviceReaderTakes(d)
      PROVE  ByteTypes' /\ \E n \in Nat : TakesEffect(d, n)
  BY <1>7, TakesIs
<1>8. ASSUME NEW p \in Peer, PeerSends(p)
      PROVE  ByteTypes' /\ SendsEffect(p)
  BY <1>8, SendsIs
<1>9. QED
  BY <1>1, <1>2, <1>3, <1>4, <1>5, <1>6, <1>7, <1>8, StepCases

(***************************************************************************)
(* The parts of the invariant, one lemma each.                             *)
(***************************************************************************)

\* Reading takes the next bytes, whoever reads.
LEMMA ReadsNext ==
    ASSUME TypeOK, UnreadIs, ByteTypes', NEW p \in Peer, NEW n \in Nat, Reads(p, n), sent' = sent
    PROVE  /\ UnreadIs' /\ Read(p)' = Read(p) + n
           /\ \A q \in Peer \ {p} : Read(q)' = Read(q)
<1>1. /\ Len(unread[p]) \in Nat /\ sent[p] \in Nat
      /\ \A q \in Peer : Len(unread[q]) \in Nat /\ sent[q] \in Nat
  BY Types
<1>2. Read(p)' = Read(p) + n /\ \A q \in Peer \ {p} : Read(q)' = Read(q)
  BY <1>1 DEF Read, Reads
<1>3. ASSUME NEW i \in 1 .. Len(unread'[p])
      PROVE  /\ unread'[p][i] = unread[p][n + i] /\ n + i \in 1 .. Len(unread[p])
             /\ unread'[p][i].at = Read(p)' + i
  <2>1. i \in 1 .. Len(unread[p]) - n
    BY DEF Reads
  <2>2. unread'[p][i] = unread[p][n + i] /\ n + i \in 1 .. Len(unread[p])
    BY <1>1, <2>1 DEF Reads
  <2>3. unread[p][n + i].at = Read(p) + (n + i)
    BY <2>2 DEF UnreadIs
  <2>4. Read(p) \in Int
    BY <1>1 DEF Read
  <2>5. QED
    BY <1>2, <2>2, <2>3, <2>4
<1>4. UnreadIs'
  <2>1. Len(unread'[p]) <= sent[p]
    BY <1>1 DEF Reads, UnreadIs
  <2>2. ASSUME NEW i \in 1 .. Len(unread'[p])
        PROVE  IsByteOf(unread'[p][i], p) /\ (p \in Dev => unread'[p][i].kind = "byte")
    BY <1>3 DEF UnreadIs
  <2>3. \A q \in Peer \ {p} : unread'[q] = unread[q]
    BY DEF Reads
  <2>4. ASSUME NEW q \in Peer
        PROVE  /\ Len(unread'[q]) <= sent'[q]
               /\ \A i \in 1 .. Len(unread'[q]) :
                     /\ IsByteOf(unread'[q][i], q)
                     /\ unread'[q][i].at = Read(q)' + i
                     /\ q \in Dev => unread'[q][i].kind = "byte"
    <3>1. CASE q = p
      BY <1>3, <2>1, <2>2, <3>1
    <3>2. CASE q # p
      BY <1>2, <2>3, <3>2 DEF UnreadIs
    <3>3. QED
      BY <3>1, <3>2
  <2>5. QED
    BY <2>4 DEF UnreadIs, IsByteOf
<1>5. QED
  BY <1>2, <1>4

\* What a peer sends comes last.
LEMMA SendsLast ==
    ASSUME TypeOK, UnreadIs, ByteTypes', NEW p \in Peer, SendsEffect(p)
    PROVE  UnreadIs' /\ \A q \in Peer : Read(q)' = Read(q)
<1>1. \A q \in Peer : Len(unread[q]) \in Nat /\ sent[q] \in Nat
  BY Types
<1>2. sent'[p] = sent[p] + 1 /\ \A q \in Peer \ {p} : sent'[q] = sent[q]
  BY Types DEF SendsEffect
<1>3. \A q \in Peer : Read(q)' = Read(q)
  BY <1>1, <1>2 DEF Read, SendsEffect
<1>4. ASSUME NEW i \in 1 .. Len(unread'[p])
      PROVE  /\ IsByteOf(unread'[p][i], p) /\ unread'[p][i].at = Read(p) + i
             /\ p \in Dev => unread'[p][i].kind = "byte"
  <2>1. CASE i \in 1 .. Len(unread[p])
    BY <2>1 DEF SendsEffect, UnreadIs
  <2>2. CASE i = Len(unread[p]) + 1
    BY <1>1, <2>2 DEF SendsEffect, Read
  <2>3. QED
    BY <1>1, <2>1, <2>2 DEF SendsEffect
<1>5. UnreadIs'
  BY <1>1, <1>2, <1>3, <1>4 DEF UnreadIs, SendsEffect, IsByteOf
<1>6. QED
  BY <1>3, <1>5

\* What is unread stays the end of what was sent, and what has been read is
\* never unread again.
LEMMA UnreadStep ==
    ASSUME TypeOK, SP!IInv, UnreadIs, [Next]_vars
    PROVE  UnreadIs' /\ \A p \in Peer : Read(p) \in Nat /\ Read(p)' \in Nat /\ Read(p)' >= Read(p)
<1> DEFINE Grown == UnreadIs' /\ \A p \in Peer : Read(p)' >= Read(p)
<1>1. ByteTypes'
  BY EffectCases
<1>2. \A p \in Peer : Read(p) \in Nat
  <2>1. \A p \in Peer : Len(unread[p]) \in Nat /\ sent[p] \in Nat
    BY Types
  <2>2. QED
    BY <2>1 DEF UnreadIs, Read
<1>3. ASSUME NEW p \in Peer, NEW n \in Nat, Reads(p, n), sent' = sent PROVE Grown
  BY <1>1, <1>2, <1>3, ReadsNext
<1>4. ASSUME UNCHANGED <<sent, unread>> PROVE Grown
  BY <1>2, <1>4 DEF UnreadIs, Read
<1>5. ASSUME NEW p \in Peer, SendsEffect(p) PROVE Grown
  BY <1>1, <1>2, <1>5, SendsLast
<1>6. ASSUME Quiet PROVE Grown
  BY <1>4, <1>6 DEF Quiet
<1>7. ASSUME NEW c \in Client, NEW n \in Nat, DialEffect(c, n) PROVE Grown
  BY <1>3, <1>7 DEF DialEffect, Peer
<1>8. ASSUME NEW c \in Client, ReplyEffect(c) PROVE Grown
  BY <1>4, <1>8 DEF ReplyEffect
<1>9. ASSUME NEW c \in Client, NEW s \in Seq(Cell), NEW n \in Nat, ForwardEffect(c, s, n)
      PROVE  Grown
  BY <1>4, <1>9 DEF ForwardEffect
<1>10. ASSUME NEW c \in Client, NEW dir \in {"up", "down"}, NEW n \in Nat, CopyEffect(c, dir, n)
      PROVE  Grown
  <2>1. From(c, dir) \in Peer
    BY <1>10 DEF CopyEffect, From, Peer
  <2>2. QED
    BY <1>3, <1>10, <2>1 DEF CopyEffect
<1>11. ASSUME NEW c \in Client, NEW dir \in {"up", "down"}, NEW n \in Nat, CarryEffect(c, dir, n)
       PROVE  Grown
  BY <1>4, <1>11 DEF CarryEffect
<1>12. ASSUME NEW d \in Dev, NEW n \in Nat, TakesEffect(d, n) PROVE Grown
  BY <1>3, <1>12 DEF TakesEffect, Peer
<1> HIDE DEF Grown
<1>13. Grown
  BY <1>5, <1>6, <1>7, <1>8, <1>9, <1>10, <1>11, <1>12, EffectCases
<1>14. UnreadIs' => \A p \in Peer : Read(p)' \in Nat
  <2>1. \A p \in Peer : Len(unread'[p]) \in Nat /\ sent'[p] \in Nat
    BY <1>1 DEF ByteTypes
  <2>2. QED
    BY <2>1 DEF UnreadIs, Read
<1>15. QED
  BY <1>2, <1>13, <1>14 DEF Grown

\* What Sessions promises of every step.
LEMMA HandlersOnward ==
    ASSUME TypeOK, [Next]_vars
    PROVE  /\ \A b \in Client : SP!Onward(b)
           /\ \A d \in Dev : conn'[d] = "open" => conn[d] = "open"
<1>1. SP!TypeOK /\ [SP!Next]_(SP!vars) /\ SP!SessionsAssumption
  BY RefinesStep, SameSessionsNext, SameSessions, BridgeAssumption DEF TypeOK, BridgeAssumption
<1>2. QED
  BY <1>1, SP!OnwardStep, SP!NeverReopened

\* Who reads what: only the copy from the client reads a client after the Dial.
LEMMA ReadBy ==
    ASSUME TypeOK, SP!IInv, UnreadIs, [Next]_vars, NEW c \in Client, Read(c)' # Read(c)
    PROVE  \/ \E n \in Nat : DialEffect(c, n) /\ Read(c)' = Read(c) + n
           \/ \E n \in Nat : CopyEffect(c, "up", n) /\ Read(c)' = Read(c) + n
<1>1. ByteTypes' /\ c \in Peer /\ c \notin Dev
  BY EffectCases, BridgeAssumption DEF Peer, BridgeAssumption
<1>2. ASSUME UNCHANGED <<sent, unread>> PROVE FALSE
  BY <1>2 DEF Read
<1>3. ASSUME NEW d \in Dev, NEW n \in Nat, Reads(d, n), sent' = sent PROVE FALSE
  BY <1>1, <1>3, ReadsNext DEF Peer
<1>4. ASSUME NEW p \in Peer, SendsEffect(p) PROVE FALSE
  BY <1>1, <1>4, SendsLast
<1>5. ASSUME NEW b \in Client, NEW n \in Nat, Reads(b, n), sent' = sent
      PROVE  b = c /\ Read(c)' = Read(c) + n
  BY <1>1, <1>5, ReadsNext DEF Peer
<1>6. ASSUME NEW b \in Client, NEW n \in Nat, DialEffect(b, n)
      PROVE  DialEffect(c, n) /\ Read(c)' = Read(c) + n
  <2>1. b = c /\ Read(c)' = Read(c) + n
    BY <1>5, <1>6 DEF DialEffect
  <2>2. QED
    BY <1>6, <2>1
<1>7. ASSUME NEW b \in Client, NEW dir \in {"up", "down"}, NEW n \in Nat, CopyEffect(b, dir, n)
      PROVE  CopyEffect(c, "up", n) /\ Read(c)' = Read(c) + n
  <2>1. CASE dir = "up"
    <3>1. b = c /\ Read(c)' = Read(c) + n
      BY <1>5, <1>7, <2>1 DEF CopyEffect, From
    <3>2. QED
      BY <1>7, <2>1, <3>1
  <2>2. CASE dir = "down"
    BY <1>3, <1>7, <2>2 DEF CopyEffect, From
  <2>3. QED
    BY <2>1, <2>2
<1>8. ASSUME NEW b \in Client, NEW s \in Seq(Cell), NEW n \in Nat, ForwardEffect(b, s, n)
      PROVE  FALSE
  BY <1>2, <1>8 DEF ForwardEffect
<1>9. ASSUME NEW b \in Client, NEW dir \in {"up", "down"}, NEW n \in Nat, CarryEffect(b, dir, n)
      PROVE  FALSE
  BY <1>2, <1>9 DEF CarryEffect
<1>10. ASSUME Quiet PROVE FALSE
  BY <1>2, <1>10 DEF Quiet
<1>11. ASSUME NEW b \in Client, ReplyEffect(b) PROVE FALSE
  BY <1>2, <1>11 DEF ReplyEffect
<1>12. ASSUME NEW d \in Dev, NEW n \in Nat, TakesEffect(d, n) PROVE FALSE
  BY <1>3, <1>12 DEF TakesEffect
<1>13. QED
  BY <1>4, <1>6, <1>7, <1>8, <1>9, <1>10, <1>11, <1>12, EffectCases

\* The buffered data changes with the Dial only.
LEMMA BufferedBy ==
    ASSUME TypeOK, SP!IInv, [Next]_vars, NEW c \in Client
    PROVE  buffered'[c] = buffered[c] \/ \E n \in Nat : DialEffect(c, n)
<1>1. ASSUME NEW b \in Client, NEW n \in Nat, DialEffect(b, n)
      PROVE  buffered'[c] = buffered[c] \/ DialEffect(c, n)
  <2>1. CASE b = c
    BY <1>1, <2>1
  <2>2. CASE b # c
    BY <1>1, <2>2 DEF DialEffect
  <2>3. QED
    BY <2>1, <2>2
<1>2. ASSUME buffered' = buffered PROVE buffered'[c] = buffered[c]
  BY <1>2
<1>3. Quiet => buffered' = buffered
  BY DEF Quiet
<1>4. ASSUME NEW b \in Client PROVE ReplyEffect(b) => buffered' = buffered
  BY DEF ReplyEffect
<1>5. ASSUME NEW b \in Client, NEW s \in Seq(Cell), NEW n \in Nat
      PROVE  ForwardEffect(b, s, n) => buffered' = buffered
  BY DEF ForwardEffect
<1>6. ASSUME NEW b \in Client, NEW dir \in {"up", "down"}, NEW n \in Nat
      PROVE  CopyEffect(b, dir, n) \/ CarryEffect(b, dir, n) => buffered' = buffered
  BY DEF CopyEffect, CarryEffect
<1>7. ASSUME NEW d \in Dev, NEW n \in Nat PROVE TakesEffect(d, n) => buffered' = buffered
  BY DEF TakesEffect
<1>8. ASSUME NEW p \in Peer PROVE SendsEffect(p) => buffered' = buffered
  BY DEF SendsEffect
<1>9. QED
  BY <1>1, <1>2, <1>3, <1>4, <1>5, <1>6, <1>7, <1>8, EffectCases

\* BufferedIs is kept.
LEMMA BufferedStep ==
    ASSUME TypeOK, SP!IInv, UnreadIs, BufferedIs, [Next]_vars
    PROVE  BufferedIs'
<1> SUFFICES ASSUME NEW c \in Client
             PROVE  /\ \A i \in 1 .. Len(buffered'[c]) :
                          IsByteOf(buffered'[c][i], c) /\ buffered'[c][i].at = i
                    /\ Len(buffered'[c]) <= Read(c)'
                    /\ cpc'[c] = "idle" => Read(c)' = 0
                    /\ cpc'[c] \in SP!BeforeRun => Read(c)' = Len(buffered'[c])
  BY DEF BufferedIs, IsByteOf
<1>1. /\ c \in Peer /\ Read(c) \in Nat /\ Len(unread[c]) \in Nat /\ Len(buffered[c]) \in Nat
      /\ Read(c)' \in Nat /\ Read(c)' >= Read(c) /\ SP!Onward(c)
  BY UnreadStep, HandlersOnward, Types DEF Peer
<1>2. ASSUME NEW n \in Nat, DialEffect(c, n)
      PROVE  /\ \A i \in 1 .. Len(buffered'[c]) :
                   IsByteOf(buffered'[c][i], c) /\ buffered'[c][i].at = i
             /\ Len(buffered'[c]) = Read(c)' /\ cpc'[c] # "idle"
  <2>1. Read(c) = 0 /\ Len(buffered'[c]) = n /\ n <= Len(unread[c])
    BY <1>2 DEF DialEffect, BufferedIs, Reads
  <2>2. Read(c)' = n
    BY <1>1, <1>2, <2>1, ReadsNext, EffectCases DEF DialEffect
  <2>3. ASSUME NEW i \in 1 .. n
        PROVE  IsByteOf(buffered'[c][i], c) /\ buffered'[c][i].at = i
    BY <1>1, <1>2, <2>1 DEF DialEffect, UnreadIs
  <2>4. cpc'[c] # "idle"
    BY <1>2, Types DEF DialEffect
  <2>5. QED
    BY <2>1, <2>2, <2>3, <2>4
<1>3. ASSUME NEW n \in Nat, CopyEffect(c, "up", n)
      PROVE  buffered'[c] = buffered[c] /\ cpc'[c] \notin SP!BeforeRun
  BY <1>3 DEF CopyEffect, SP!IInv, SP!CopyingInsideRun, SP!BeforeRun, SP!Early
<1>4. CASE \E n \in Nat : DialEffect(c, n)
  BY <1>1, <1>2, <1>4
<1>5. CASE ~\E n \in Nat : DialEffect(c, n)
  <2>1. buffered'[c] = buffered[c]
    BY <1>5, BufferedBy
  <2>2. /\ \A i \in 1 .. Len(buffered[c]) : IsByteOf(buffered[c][i], c) /\ buffered[c][i].at = i
        /\ Len(buffered[c]) <= Read(c)'
    BY <1>1 DEF BufferedIs
  <2>3. CASE Read(c)' = Read(c)
    BY <1>1, <2>2, <2>1, <2>3 DEF BufferedIs, SP!Onward
  <2>4. CASE \E n \in Nat : CopyEffect(c, "up", n)
    <3>1. cpc'[c] \notin SP!BeforeRun /\ cpc'[c] # "idle"
      BY <1>3, <2>4 DEF SP!BeforeRun, SP!Early
    <3>2. QED
      BY <2>2, <2>1, <3>1
  <2>5. QED
    BY <1>5, <2>3, <2>4, ReadBy
<1>6. QED
  BY <1>4, <1>5

\* Only a copy's own read and write change what it holds.
LEMMA HeldBy ==
    ASSUME TypeOK, SP!IInv, [Next]_vars, NEW c \in Client, NEW dir \in {"up", "down"}
    PROVE  \/ held'[c][dir] = held[c][dir]
           \/ \E n \in Nat : CopyEffect(c, dir, n) \/ CarryEffect(c, dir, n)
<1>1. ASSUME held' = held PROVE held'[c][dir] = held[c][dir]
  BY <1>1
<1>2. ASSUME NEW b \in Client, NEW way \in {"up", "down"}, NEW n \in Nat,
             CopyEffect(b, way, n) \/ CarryEffect(b, way, n)
      PROVE  \/ held'[c][dir] = held[c][dir]
             \/ CopyEffect(c, dir, n) \/ CarryEffect(c, dir, n)
  <2>1. CASE b = c /\ way = dir
    BY <1>2, <2>1
  <2>2. CASE ~(b = c /\ way = dir)
    BY <1>2, <2>2 DEF CopyEffect, CarryEffect
  <2>3. QED
    BY <2>1, <2>2
<1>3. Quiet => held' = held
  BY DEF Quiet
<1>4. ASSUME NEW b \in Client, NEW n \in Nat
      PROVE  DialEffect(b, n) \/ ReplyEffect(b) => held' = held
  BY DEF DialEffect, ReplyEffect
<1>5. ASSUME NEW b \in Client, NEW s \in Seq(Cell), NEW n \in Nat
      PROVE  ForwardEffect(b, s, n) => held' = held
  BY DEF ForwardEffect
<1>6. ASSUME NEW d \in Dev, NEW n \in Nat PROVE TakesEffect(d, n) => held' = held
  BY DEF TakesEffect
<1>7. ASSUME NEW p \in Peer PROVE SendsEffect(p) => held' = held
  BY DEF SendsEffect
<1>8. 0 \in Nat
  OBVIOUS
<1>9. QED
  BY <1>1, <1>2, <1>3, <1>4, <1>5, <1>6, <1>7, <1>8, EffectCases

\* Only handleClient forwards.
LEMMA ForwardBy ==
    ASSUME TypeOK, SP!IInv, [Next]_vars, NEW c \in Client
    PROVE  \/ forward'[c] = forward[c]
           \/ \E s \in Seq(Cell), n \in Nat : ForwardEffect(c, s, n)
<1>1. ASSUME forward' = forward PROVE forward'[c] = forward[c]
  BY <1>1
<1>2. ASSUME NEW b \in Client, NEW s \in Seq(Cell), NEW n \in Nat, ForwardEffect(b, s, n)
      PROVE  forward'[c] = forward[c] \/ ForwardEffect(c, s, n)
  <2>1. CASE b = c
    BY <1>2, <2>1
  <2>2. CASE b # c
    BY <1>2, <2>2, Types DEF ForwardEffect
  <2>3. QED
    BY <2>1, <2>2
<1>3. Quiet => forward' = forward
  BY DEF Quiet
<1>4. ASSUME NEW b \in Client, NEW n \in Nat
      PROVE  DialEffect(b, n) \/ ReplyEffect(b) => forward' = forward
  BY DEF DialEffect, ReplyEffect
<1>5. ASSUME NEW b \in Client, NEW dir \in {"up", "down"}, NEW n \in Nat
      PROVE  CopyEffect(b, dir, n) \/ CarryEffect(b, dir, n) => forward' = forward
  BY DEF CopyEffect, CarryEffect
<1>6. ASSUME NEW d \in Dev, NEW n \in Nat PROVE TakesEffect(d, n) => forward' = forward
  BY DEF TakesEffect
<1>7. ASSUME NEW p \in Peer PROVE SendsEffect(p) => forward' = forward
  BY DEF SendsEffect
<1>8. 0 \in Nat
  OBVIOUS
<1>9. QED
  BY <1>1, <1>2, <1>3, <1>4, <1>5, <1>6, <1>7, <1>8, EffectCases

\* The reply, what is forwarded and the copies' writes are all that a peer gets.
LEMMA ReceivedBy ==
    ASSUME TypeOK, SP!IInv, [Next]_vars, NEW p \in Peer
    PROVE  \/ received'[p] = received[p]
           \/ p \in Client /\ ReplyEffect(p)
           \/ \E b \in Client, s \in Seq(Cell), n \in Nat :
                 dev[b] = p /\ ForwardEffect(b, s, n)
           \/ \E b \in Client, dir \in {"up", "down"}, n \in Nat :
                 To(b, dir) = p /\ CarryEffect(b, dir, n)
<1>1. ASSUME received' = received PROVE received'[p] = received[p]
  BY <1>1
<1>2. ASSUME NEW b \in Client, ReplyEffect(b)
      PROVE  received'[p] = received[p] \/ (p \in Client /\ ReplyEffect(p))
  <2>1. CASE b = p
    BY <1>2, <2>1
  <2>2. CASE b # p
    BY <1>2, <2>2 DEF ReplyEffect, Writes
  <2>3. QED
    BY <2>1, <2>2
<1>3. ASSUME NEW b \in Client, NEW s \in Seq(Cell), NEW n \in Nat, ForwardEffect(b, s, n),
             dev[b] # p
      PROVE  received'[p] = received[p]
  BY <1>3 DEF ForwardEffect, Writes
<1>4. ASSUME NEW b \in Client, NEW dir \in {"up", "down"}, NEW n \in Nat,
             CarryEffect(b, dir, n), To(b, dir) # p
      PROVE  received'[p] = received[p]
  BY <1>4 DEF CarryEffect, Writes
<1>5. Quiet => received' = received
  BY DEF Quiet
<1>6. ASSUME NEW b \in Client, NEW n \in Nat PROVE DialEffect(b, n) => received' = received
  BY DEF DialEffect
<1>7. ASSUME NEW b \in Client, NEW dir \in {"up", "down"}, NEW n \in Nat
      PROVE  CopyEffect(b, dir, n) => received' = received
  BY DEF CopyEffect
<1>8. ASSUME NEW d \in Dev, NEW n \in Nat PROVE TakesEffect(d, n) => received' = received
  BY DEF TakesEffect
<1>9. ASSUME NEW q \in Peer PROVE SendsEffect(q) => received' = received
  BY DEF SendsEffect
<1>10. QED
  BY <1>1, <1>2, <1>3, <1>4, <1>5, <1>6, <1>7, <1>8, <1>9, EffectCases

\* A copy starts with Run, when all is forwarded, and does not end with bytes in its
\* buf; the bridge comes with the reply.
LEMMA CopyingBy ==
    ASSUME TypeOK, SP!IInv, [Next]_vars, NEW c \in Client
    PROVE  /\ \/ copying'[c] \subseteq copying[c]
              \/ cpc[c] = "bridge" /\ forward[c] = "nothing"
           /\ \A dir \in copying[c] \ copying'[c] : held'[c][dir] = <<>>
           /\ cpc'[c] = "bridge" => cpc[c] = "bridge" \/ ReplyEffect(c)
<1> USE Types
<1> DEFINE Goal == /\ \/ copying'[c] \subseteq copying[c]
                      \/ cpc[c] = "bridge" /\ forward[c] = "nothing"
                   /\ \A dir \in copying[c] \ copying'[c] : held'[c][dir] = <<>>
                   /\ cpc'[c] = "bridge" => cpc[c] = "bridge" \/ ReplyEffect(c)
<1>1. ASSUME UNCHANGED <<cpc, copying>> PROVE Goal
  BY <1>1
<1>2. ASSUME Quiet PROVE Goal
  BY <1>2 DEF Quiet
<1>3. ASSUME NEW b \in Client, ReplyEffect(b) PROVE Goal
  <2>1. copying' = copying /\ (b # c => cpc'[c] = cpc[c])
    BY <1>3 DEF ReplyEffect
  <2>2. QED
    BY <1>3, <2>1
<1>4. ASSUME NEW b \in Client, NEW n \in Nat, DialEffect(b, n) PROVE Goal
  BY <1>4 DEF DialEffect
<1>5. ASSUME NEW b \in Client, NEW dir \in {"up", "down"}, NEW n \in Nat,
             CarryEffect(b, dir, n)
      PROVE  Goal
  <2>1. cpc' = cpc /\ held'[b][dir] = <<>>
    BY <1>5 DEF CarryEffect
  <2>2. \/ copying' = copying
        \/ copying' = [copying EXCEPT ![b] = @ \ {dir}]
    BY <1>5 DEF CarryEffect
  <2>3. copying'[c] \subseteq copying[c] /\ (copying[c] \ copying'[c] # {} => b = c)
    BY <2>2
  <2>4. \A way \in copying[c] \ copying'[c] : b = c /\ way = dir
    BY <2>2
  <2>5. QED
    BY <2>1, <2>3, <2>4
<1>6. ASSUME NEW b \in Client, NEW s \in Seq(Cell), NEW n \in Nat
      PROVE  ForwardEffect(b, s, n) => UNCHANGED <<cpc, copying>>
  BY DEF ForwardEffect
<1>7. ASSUME NEW b \in Client, NEW dir \in {"up", "down"}, NEW n \in Nat
      PROVE  CopyEffect(b, dir, n) => UNCHANGED <<cpc, copying>>
  BY DEF CopyEffect
<1>8. ASSUME NEW d \in Dev, NEW n \in Nat
      PROVE  TakesEffect(d, n) => UNCHANGED <<cpc, copying>>
  BY DEF TakesEffect
<1>9. ASSUME NEW p \in Peer PROVE SendsEffect(p) => UNCHANGED <<cpc, copying>>
  BY DEF SendsEffect
<1> HIDE DEF Goal
<1>10. Goal
  BY <1>1, <1>2, <1>3, <1>4, <1>5, <1>6, <1>7, <1>8, <1>9, EffectCases
<1>11. QED
  BY <1>10 DEF Goal

\* HeldCopying, UpHeld and DownHeld are kept.
LEMMA HeldStep ==
    ASSUME TypeOK, SP!IInv, ByteInv, [Next]_vars, BufferedIs'
    PROVE  HeldCopying' /\ UpHeld' /\ DownHeld'
<1> USE DEF ByteInv
<1>1. /\ ByteTypes'
      /\ \A p \in Peer : Read(p) \in Nat /\ Read(p)' \in Nat /\ Read(p)' >= Read(p)
      /\ \A c \in Client : c \in Peer /\ SP!Onward(c)
      /\ \A c \in Client : Len(buffered[c]) \in Nat
  BY EffectCases, UnreadStep, HandlersOnward, Types DEF Peer
<1>2. ASSUME NEW c \in Client, NEW dir \in {"up", "down"}, held'[c][dir] # <<>>
      PROVE  dir \in copying'[c]
  <2>1. dir \in copying[c] \/ \E n \in Nat : CopyEffect(c, dir, n) \/ CarryEffect(c, dir, n)
    BY <1>2, HeldBy DEF HeldCopying, S!Direction
  <2>2. dir \in copying[c]
    BY <2>1 DEF CopyEffect, CarryEffect
  <2>3. QED
    BY <1>2, <2>2, CopyingBy
<1>3. HeldCopying'
  BY <1>2 DEF HeldCopying, S!Direction
<1>4. ASSUME NEW c \in Client
      PROVE  /\ Len(buffered'[c]) + Len(held'[c]["up"]) <= Read(c)'
             /\ \A i \in 1 .. Len(held'[c]["up"]) :
                   /\ IsByteOf(held'[c]["up"][i], c)
                   /\ held'[c]["up"][i].at = Read(c)' - Len(held'[c]["up"]) + i
  <2>1. CASE held'[c]["up"] = <<>>
    BY <1>1, <2>1 DEF BufferedIs
  <2>2. ASSUME NEW n \in Nat, CopyEffect(c, "up", n)
        PROVE  /\ Len(held'[c]["up"]) = n /\ Read(c)' = Read(c) + n /\ buffered' = buffered
               /\ \A i \in 1 .. n : held'[c]["up"][i] = unread[c][i] /\ i <= Len(unread[c])
               /\ Len(buffered[c]) <= Read(c)
    <3>1. From(c, "up") = c
      BY DEF From
    <3>2. Len(unread[c]) \in Nat
      BY <1>1, Types
    <3>3. sent' = sent /\ Reads(c, n) /\ n <= Len(unread[c])
      <4>1. sent' = sent /\ Reads(c, n)
        BY <2>2, <3>1 DEF CopyEffect
      <4>2. QED
        BY <3>2, <4>1 DEF Reads
    <3>4. Read(c)' = Read(c) + n
      BY <1>1, <3>3, ReadsNext
    <3>5. QED
      BY <2>2, <3>1, <3>2, <3>3, <3>4 DEF CopyEffect, BufferedIs
  <2>3. ASSUME NEW n \in Nat, CopyEffect(c, "up", n)
        PROVE  /\ Len(buffered'[c]) + Len(held'[c]["up"]) <= Read(c)'
               /\ \A i \in 1 .. Len(held'[c]["up"]) :
                     /\ IsByteOf(held'[c]["up"][i], c)
                     /\ held'[c]["up"][i].at = Read(c)' - Len(held'[c]["up"]) + i
    <3>1. \A i \in 1 .. n : IsByteOf(unread[c][i], c) /\ unread[c][i].at = Read(c) + i
      BY <1>1, <2>2, <2>3, Types DEF UnreadIs
    <3>2. /\ Len(held'[c]["up"]) = n /\ Read(c)' = Read(c) + n /\ buffered' = buffered
          /\ \A i \in 1 .. n : held'[c]["up"][i] = unread[c][i]
          /\ Len(buffered[c]) <= Read(c)
      BY <2>2, <2>3
    <3>3. Read(c) \in Nat /\ Len(buffered[c]) \in Nat
      BY <1>1
    <3>4. Len(buffered'[c]) + Len(held'[c]["up"]) <= Read(c)'
      BY <3>2, <3>3
    <3>5. ASSUME NEW i \in 1 .. n
          PROVE  held'[c]["up"][i].at = Read(c)' - Len(held'[c]["up"]) + i
      <4>1. held'[c]["up"][i].at = Read(c) + i
        BY <3>1, <3>2
      <4>2. Read(c) + i = (Read(c) + n) - n + i
        BY <3>3
      <4>3. QED
        BY <3>2, <4>1, <4>2
    <3>6. QED
      BY <3>1, <3>2, <3>4, <3>5
  <2>4. CASE held'[c]["up"] = held[c]["up"] /\ held[c]["up"] # <<>> /\ ~\E n \in Nat : CopyEffect(c, "up", n)
    <3>1. "up" \in copying[c] /\ cpc[c] # "idle"
      BY <2>4 DEF HeldCopying, S!Direction, SP!IInv, SP!CopyingInsideRun
    <3>2. ~\E n \in Nat : DialEffect(c, n)
      BY <3>1 DEF DialEffect
    <3>3. buffered'[c] = buffered[c] /\ Read(c)' = Read(c)
      BY <2>4, <3>2, BufferedBy, ReadBy
    <3>4. QED
      BY <2>4, <3>3 DEF UpHeld
  <2>5. ASSUME NEW n \in Nat, CarryEffect(c, "up", n) PROVE held'[c]["up"] = <<>>
    BY <2>5 DEF CarryEffect
  <2>6. QED
    BY <2>1, <2>3, <2>4, <2>5, HeldBy
<1>5. UpHeld'
  BY <1>4 DEF UpHeld, IsByteOf
<1>6. ASSUME NEW c \in Client, NEW i \in 1 .. Len(held'[c]["down"])
      PROVE  /\ IsByteOf(held'[c]["down"][i], dev'[c])
             /\ held'[c]["down"][i].kind = "byte"
             /\ held'[c]["down"][1].at >= 1
             /\ held'[c]["down"][i].at = held'[c]["down"][1].at + i - 1
             /\ held'[c]["down"][i].at <= Read(dev[c])'
  <2> DEFINE Piece(d, h, r) == /\ IsByteOf(h[i], d) /\ h[i].kind = "byte" /\ h[1].at >= 1
                               /\ h[i].at = h[1].at + i - 1 /\ h[i].at <= r
  <2>1. ASSUME NEW n \in Nat, NEW d \in Dev, d = dev[c], CopyEffect(c, "down", n)
        PROVE  dev'[c] = d /\ Piece(d, held'[c]["down"], Read(d)')
    <3>1. From(c, "down") = d /\ d \in Peer /\ dev'[c] = d
      BY <2>1 DEF From, CopyEffect, Peer
    <3>2. Len(unread[d]) \in Nat
      BY <3>1, Types
    <3>3. /\ n > 0 /\ sent' = sent /\ Reads(d, n)
          /\ Len(held'[c]["down"]) = n /\ \A j \in 1 .. n : held'[c]["down"][j] = unread[d][j]
      BY <2>1, <3>1 DEF CopyEffect
    <3>4. n <= Len(unread[d])
      BY <3>2, <3>3 DEF Reads
    <3>5. Read(d)' = Read(d) + n
      BY <1>1, <3>1, <3>3, ReadsNext
    <3>6. \A j \in 1 .. n : /\ IsByteOf(unread[d][j], d) /\ unread[d][j].kind = "byte"
                            /\ unread[d][j].at = Read(d) + j
      BY <3>1, <3>2, <3>4 DEF UnreadIs
    <3>7. /\ held'[c]["down"][i].at = Read(d) + i /\ held'[c]["down"][1].at = Read(d) + 1
          /\ IsByteOf(held'[c]["down"][i], d) /\ held'[c]["down"][i].kind = "byte"
      BY <3>3, <3>6
    <3>8. QED
      BY <1>1, <3>1, <3>3, <3>5, <3>7
  <2>2. ASSUME NEW d \in Dev, d = dev[c], held'[c]["down"] = held[c]["down"]
        PROVE  dev'[c] = d /\ Piece(d, held'[c]["down"], Read(d)')
    <3>1. "down" \in copying[c] /\ cpc[c] # "lookUp"
      BY <2>2 DEF HeldCopying, S!Direction, SP!IInv, SP!CopyingInsideRun
    <3>2. dev'[c] = d /\ d \in Peer
      BY <1>1, <2>2, <3>1 DEF SP!Onward, Peer
    <3>3. Piece(d, held[c]["down"], Read(d))
      BY <2>2 DEF DownHeld
    <3>4. held[c]["down"][i] \in Cell
      BY <2>2, Types
    <3>5. held[c]["down"][i].at \in Nat
      BY <3>4 DEF Cell
    <3>6. QED
      BY <1>1, <2>2, <3>2, <3>3, <3>5
  <2>3. ASSUME NEW n \in Nat, CarryEffect(c, "down", n) PROVE FALSE
    BY <2>3 DEF CarryEffect
  <2>4. dev[c] \in Dev
    <3>1. \/ held'[c]["down"] = held[c]["down"]
          \/ \E n \in Nat : CopyEffect(c, "down", n)
      BY <2>3, HeldBy
    <3>2. "down" \in copying[c]
      BY <3>1 DEF HeldCopying, S!Direction, CopyEffect
    <3>3. QED
      BY <3>2, AtBridge
  <2>5. PICK d \in Dev : d = dev[c]
    BY <2>4
  <2>6. dev'[c] = d /\ Piece(d, held'[c]["down"], Read(d)')
    BY <2>1, <2>2, <2>3, <2>5, HeldBy
  <2>7. Read(dev[c])' = Read(d)'
    BY <2>6 DEF Read
  <2>8. QED
    BY <2>6, <2>7
<1>7. DownHeld'
  BY <1>6 DEF DownHeld, IsByteOf
<1>8. QED
  BY <1>3, <1>5, <1>7

\* Handshaken is kept.
LEMMA HandshakenStep ==
    ASSUME TypeOK, SP!IInv, Handshaken, [Next]_vars
    PROVE  Handshaken'
<1> SUFFICES ASSUME NEW c \in Client
             PROVE  /\ cpc'[c] \in SP!Early => forward'[c] = "presets" /\ received'[c] = <<>>
                    /\ copying'[c] # {} => forward'[c] = "nothing"
                    /\ copying'[c] # {} \/ cpc'[c] = "bridge" =>
                          received'[c] # <<>> /\ received'[c][1] = Own("reply", c)
  BY DEF Handshaken, Own, Byte
<1>1. c \in Peer /\ c \notin Dev /\ SP!Onward(c)
  BY HandlersOnward, BridgeAssumption DEF Peer, BridgeAssumption
<1>2. copying[c] # {} => cpc[c] \notin SP!Early \cup {"bridge"}
  BY DEF SP!IInv, SP!CopyingInsideRun, SP!Early
<1>3. ASSUME received'[c] # received[c]
      PROVE  \/ ReplyEffect(c)
             \/ /\ received'[c] # <<>> /\ received'[c][1] = Own("reply", c)
                /\ copying[c] # {} /\ cpc'[c] = cpc[c]
  <2>1. CASE ReplyEffect(c)
    BY <2>1
  <2>2. ASSUME NEW b \in Client, NEW s \in Seq(Cell), NEW n \in Nat,
               dev[b] = c, ForwardEffect(b, s, n)
        PROVE  FALSE
    BY <1>1, <2>2 DEF ForwardEffect
  <2>3. ASSUME NEW b \in Client, NEW dir \in {"up", "down"}, NEW n \in Nat,
               To(b, dir) = c, CarryEffect(b, dir, n)
        PROVE  /\ received'[c] # <<>> /\ received'[c][1] = Own("reply", c)
               /\ copying[c] # {} /\ cpc'[c] = cpc[c]
    <3>1. b = c /\ dir = "down" /\ copying[c] # {} /\ cpc' = cpc
      BY <1>1, <2>3 DEF CarryEffect, To
    <3>2. /\ received[c] # <<>> /\ received[c][1] = Own("reply", c)
          /\ received[c] \in Seq(Cell) /\ 1 \in 1 .. Len(received[c])
      BY <1>1, <3>1, Types DEF Handshaken
    <3>3. /\ n \in Nat /\ Len(received'[c]) = Len(received[c]) + n
          /\ \A i \in 1 .. Len(received[c]) : received'[c][i] = received[c][i]
      BY <2>3 DEF CarryEffect, Writes
    <3>4. QED
      BY <3>1, <3>2, <3>3
  <2>4. QED
    BY <1>1, <1>3, <2>1, <2>2, <2>3, ReceivedBy
<1>4. ASSUME ReplyEffect(c)
      PROVE  /\ copying' = copying /\ cpc[c] \in SP!Early /\ forward[c] = "presets"
             /\ \/ cpc'[c] = "refused"
                \/ /\ cpc'[c] = "bridge"
                   /\ received'[c] # <<>> /\ received'[c][1] = Own("reply", c)
  <2>1. /\ copying' = copying /\ cpc[c] \in SP!Early
        /\ cpc'[c] = "refused" \/ (cpc'[c] = "bridge" /\ Writes(c, <<Own("reply", c)>>, 1))
    BY <1>4, Types DEF ReplyEffect, SP!Early
  <2>2. received[c] = <<>> /\ forward[c] = "presets"
    BY <2>1 DEF Handshaken
  <2>3. Writes(c, <<Own("reply", c)>>, 1) =>
            received'[c] # <<>> /\ received'[c][1] = Own("reply", c)
    BY <2>2 DEF Writes
  <2>4. QED
    BY <2>1, <2>2, <2>3
<1>5. forward'[c] # forward[c] => cpc[c] = "bridge" /\ cpc' = cpc /\ copying' = copying
  BY ForwardBy DEF ForwardEffect
<1>6. cpc'[c] \in SP!Early => forward'[c] = "presets" /\ received'[c] = <<>>
  BY <1>1, <1>2, <1>3, <1>4, <1>5 DEF Handshaken, SP!Onward, SP!Early
<1>7. copying'[c] # {} => forward'[c] = "nothing"
  BY <1>2, <1>5, CopyingBy DEF Handshaken
<1>8. copying'[c] # {} \/ cpc'[c] = "bridge" =>
         received'[c] # <<>> /\ received'[c][1] = Own("reply", c)
  BY <1>2, <1>3, <1>4, CopyingBy DEF Handshaken
<1>9. QED
  BY <1>6, <1>7, <1>8

(***************************************************************************)
(* What arrives at a device.                                               *)
(***************************************************************************)

\* How much of what the client c has sent is neither in its connection nor in the
\* copy's buf.
Passed(c) == Read(c) - Len(held[c]["up"])

\* Nothing comes back to the connection or the buf.
LEMMA PassedGrows ==
    ASSUME TypeOK, SP!IInv, ByteInv, [Next]_vars, NEW c \in Client
    PROVE  /\ Passed(c) \in Nat /\ Passed(c)' \in Nat /\ Passed(c) <= Passed(c)'
           /\ Passed(c) <= Read(c) /\ Passed(c)' <= Read(c)'
           /\ Len(buffered[c]) <= Passed(c)
<1>1. /\ c \in Peer /\ Read(c) \in Nat /\ Read(c)' \in Nat /\ Read(c)' >= Read(c)
      /\ Len(held[c]["up"]) \in Nat /\ Len(held'[c]["up"]) \in Nat
      /\ Len(buffered[c]) \in Nat /\ Len(buffered'[c]) \in Nat
  <2>1. /\ held' \in [Client -> [{"up", "down"} -> Seq(Cell)]]
        /\ buffered' \in [Client -> Seq(Cell)]
    BY EffectCases DEF ByteTypes
  <2>2. QED
    BY <2>1, Types, UnreadStep DEF Peer, ByteInv
<1>2. BufferedIs' /\ UpHeld'
  BY BufferedStep, HeldStep DEF ByteInv
<1>3. /\ Len(buffered[c]) + Len(held[c]["up"]) <= Read(c)
      /\ Len(buffered'[c]) + Len(held'[c]["up"]) <= Read(c)'
  BY <1>2 DEF UpHeld, ByteInv
<1>4. ASSUME NEW b \in Nat, NEW h \in Nat, NEW r \in Nat, b + h <= r
      PROVE  r - h \in Nat /\ r - h <= r /\ b <= r - h
  BY <1>4
<1>5. Passed(c) \in Nat /\ Passed(c) <= Read(c) /\ Len(buffered[c]) <= Passed(c)
  <2>1. PICK b \in Nat, h \in Nat, r \in Nat :
          b = Len(buffered[c]) /\ h = Len(held[c]["up"]) /\ r = Read(c)
    BY <1>1
  <2>2. b + h <= r
    BY <1>3, <2>1
  <2>3. Passed(c) = r - h
    BY <2>1 DEF Passed
  <2>4. QED
    BY <1>4, <2>1, <2>2, <2>3
<1>6. Passed(c)' \in Nat /\ Passed(c)' <= Read(c)'
  <2>1. PICK b \in Nat, h \in Nat, r \in Nat :
          b = Len(buffered'[c]) /\ h = Len(held'[c]["up"]) /\ r = Read(c)'
    BY <1>1
  <2>2. b + h <= r
    BY <1>3, <2>1
  <2>3. Passed(c)' = r - h
    BY <2>1 DEF Passed
  <2>4. QED
    BY <1>4, <2>1, <2>2, <2>3
<1>7. ASSUME held'[c]["up"] = held[c]["up"] PROVE Passed(c) <= Passed(c)'
  <2>1. PICK h \in Nat, q \in Nat, r \in Nat :
          h = Len(held[c]["up"]) /\ q = Read(c) /\ r = Read(c)'
    BY <1>1
  <2>2. Passed(c) = q - h /\ Passed(c)' = r - h /\ q <= r
    BY <1>1, <1>7, <2>1 DEF Passed
  <2>3. QED
    BY <2>2
<1>8. ASSUME NEW n \in Nat, CopyEffect(c, "up", n) PROVE Passed(c) <= Passed(c)'
  <2>1. Len(held[c]["up"]) = 0 /\ Len(held'[c]["up"]) = n /\ Reads(c, n) /\ sent' = sent
    BY <1>8 DEF CopyEffect, From
  <2>2. Read(c)' = Read(c) + n
    BY <1>1, <2>1, ReadsNext, EffectCases DEF ByteInv
  <2>3. QED
    BY <1>1, <2>1, <2>2 DEF Passed
<1>9. ASSUME NEW n \in Nat, CarryEffect(c, "up", n) PROVE Passed(c) <= Passed(c)'
  <2>1. Len(held'[c]["up"]) = 0
    BY <1>9 DEF CarryEffect
  <2>2. QED
    BY <1>1, <2>1 DEF Passed
<1>10. QED
  BY <1>5, <1>6, <1>7, <1>8, <1>9, HeldBy

\* The port settings of the client b arrive at its device d.
PresetArrives(b, d, s, n) ==
    /\ dev[b] = d /\ Writes(d, s, n)
    /\ Len(s) <= 1 /\ \A i \in 1 .. Len(s) : s[i] = Own("preset", b)
    /\ forward[b] # "nothing" /\ sent' = sent /\ counted' = counted

\* The first n bytes of s, which b has sent behind its first m bytes, arrive at d
\* and follow what is there of b.
BytesArrive(b, d, s, n, m) ==
    /\ dev[b] = d /\ dev'[b] = d /\ forward'[b] = "nothing" /\ Writes(d, s, n)
    /\ \A i \in 1 .. Len(s) : IsByteOf(s[i], b) /\ s[i].at = m + i
    /\ m + Len(s) <= Passed(b)'
    /\ \A j \in 1 .. Len(received[d]) :
          IsByteOf(received[d][j], b) => received[d][j].at <= m
    /\ \/ m = 0 /\ Len(s) = Len(buffered[b]) /\ counted'[b]["up"] = counted[b]["up"]
       \/ m >= Len(buffered[b]) /\ counted'[b]["up"] = counted[b]["up"] + n
    /\ \A a \in Client \ {b} : counted'[a]["up"] = counted[a]["up"]
    /\ sent' = sent /\ buffered' = buffered

\* What handleClient forwards arrives as port settings or as the buffered bytes.
LEMMA ForwardArrives ==
    ASSUME TypeOK, SP!IInv, ByteInv, [Next]_vars, NEW b \in Client,
           NEW s \in Seq(Cell), NEW n \in Nat, ForwardEffect(b, s, n)
    PROVE  \/ PresetArrives(b, dev[b], s, n)
           \/ BytesArrive(b, dev[b], s, n, 0)
<1>1. /\ Writes(dev[b], s, n) /\ cpc[b] = "bridge" /\ dev[b] \in Dev
      /\ UNCHANGED <<dev, sent, buffered, counted>>
      /\ forward[b] # "nothing"
  BY DEF ForwardEffect
<1>2. CASE Len(s) <= 1 /\ \A i \in 1 .. Len(s) : s[i] = Own("preset", b)
  BY <1>1, <1>2 DEF PresetArrives
<1>3. CASE forward[b] = "buffered" /\ s = buffered[b]
  <2>1. forward'[b] = "nothing"
    BY <1>3, Types DEF ForwardEffect
  <2>2. \A i \in 1 .. Len(s) : IsByteOf(s[i], b) /\ s[i].at = 0 + i
    BY <1>3 DEF ByteInv, BufferedIs
  <2>3. 0 + Len(s) <= Passed(b)'
    BY <1>3, PassedGrows, Types
  <2>4. \A j \in 1 .. Len(received[dev[b]]) : ~IsByteOf(received[dev[b]][j], b)
    BY <1>1 DEF ByteInv, AtDevice
  <2>5. QED
    BY <1>1, <1>3, <2>1, <2>2, <2>3, <2>4 DEF BytesArrive
<1>4. QED
  BY <1>2, <1>3 DEF ForwardEffect

\* What the copy from the client carries arrives behind all that was there.
LEMMA CarryArrives ==
    ASSUME TypeOK, SP!IInv, ByteInv, [Next]_vars, NEW b \in Client,
           NEW n \in Nat, CarryEffect(b, "up", n)
    PROVE  BytesArrive(b, dev[b], held[b]["up"], n, Passed(b))
<1>1. /\ Writes(dev[b], held[b]["up"], n) /\ "up" \in copying[b] /\ dev[b] \in Dev
      /\ UNCHANGED <<dev, sent, buffered, forward>>
      /\ counted'[b]["up"] = counted[b]["up"] + n
      /\ \A a \in Client \ {b} : counted'[a]["up"] = counted[a]["up"]
      /\ held'[b]["up"] = <<>>
  BY DEF CarryEffect, To
<1>2. forward'[b] = "nothing"
  BY <1>1 DEF ByteInv, Handshaken
<1>3. \A i \in 1 .. Len(held[b]["up"]) :
         IsByteOf(held[b]["up"][i], b) /\ held[b]["up"][i].at = Passed(b) + i
  BY DEF ByteInv, UpHeld, Passed
<1>4. /\ b \in Peer /\ Read(b) \in Nat /\ Read(b)' \in Nat /\ Read(b)' >= Read(b)
      /\ Len(held[b]["up"]) \in Nat
  BY UnreadStep, Types DEF Peer, ByteInv
<1>5. Passed(b) + Len(held[b]["up"]) <= Passed(b)'
  <2>1. Len(held'[b]["up"]) = 0
    BY <1>1
  <2>2. QED
    BY <1>4, <2>1 DEF Passed
<1>6. \A j \in 1 .. Len(received[dev[b]]) :
         IsByteOf(received[dev[b]][j], b) => received[dev[b]][j].at <= Passed(b)
  BY <1>1 DEF ByteInv, AtDevice, Passed
<1>7. Passed(b) >= Len(buffered[b])
  BY PassedGrows, Types
<1>8. QED
  BY <1>1, <1>2, <1>3, <1>5, <1>6, <1>7 DEF BytesArrive

\* Nothing else arrives at a device.
LEMMA DeviceGets ==
    ASSUME TypeOK, SP!IInv, ByteInv, [Next]_vars, NEW d \in Dev
    PROVE  \/ received'[d] = received[d]
           \/ \E b \in Client, s \in Seq(Cell), n \in Nat :
                 \/ PresetArrives(b, d, s, n)
                 \/ \E m \in Nat : BytesArrive(b, d, s, n, m)
<1>1. d \in Peer /\ d \notin Client
  BY BridgeAssumption DEF Peer, BridgeAssumption
<1>2. ASSUME NEW b \in Client, NEW s \in Seq(Cell), NEW n \in Nat,
             dev[b] = d, ForwardEffect(b, s, n)
      PROVE  PresetArrives(b, d, s, n) \/ BytesArrive(b, d, s, n, 0)
  BY <1>2, ForwardArrives
<1>3. ASSUME NEW b \in Client, NEW dir \in {"up", "down"}, NEW n \in Nat,
             To(b, dir) = d, CarryEffect(b, dir, n)
      PROVE  \E s \in Seq(Cell), m \in Nat : BytesArrive(b, d, s, n, m)
  <2>1. dir = "up" /\ dev[b] = d
    BY <1>1, <1>3 DEF To
  <2>2. BytesArrive(b, d, held[b]["up"], n, Passed(b))
    BY <1>3, <2>1, CarryArrives
  <2>3. held[b]["up"] \in Seq(Cell) /\ Passed(b) \in Nat
    BY PassedGrows, Types
  <2>4. QED
    BY <2>2, <2>3
<1>4. 0 \in Nat
  OBVIOUS
<1>5. QED
  BY <1>1, <1>2, <1>3, <1>4, ReceivedBy

\* A client whose bytes have reached a device stays there.
LEMMA StaysAtDevice ==
    ASSUME TypeOK, SP!IInv, ByteInv, [Next]_vars, NEW d \in Dev, NEW c \in Client,
           NEW i \in 1 .. Len(received[d]), IsByteOf(received[d][i], c)
    PROVE  /\ dev'[c] = d /\ forward'[c] = "nothing"
           /\ received[d][i].at \in 1 .. Passed(c)'
<1>1. dev[c] = d /\ forward[c] = "nothing" /\ received[d][i].at \in 1 .. Passed(c)
  BY DEF ByteInv, AtDevice, Passed
<1>2. cpc[c] \notin SP!Early
  BY <1>1 DEF ByteInv, Handshaken
<1>3. dev'[c] = d
  BY <1>1, <1>2, HandlersOnward DEF SP!Onward, SP!Early
<1>4. forward'[c] = "nothing"
  BY <1>1, ForwardBy DEF ForwardEffect
<1>5. received[d][i].at \in 1 .. Passed(c)'
  BY <1>1, PassedGrows
<1>6. QED
  BY <1>3, <1>4, <1>5

\* AtDevice is kept.
LEMMA AtDeviceStep ==
    ASSUME TypeOK, SP!IInv, ByteInv, [Next]_vars
    PROVE  AtDevice'
<1> SUFFICES ASSUME NEW d \in Dev, NEW c \in Client, NEW i \in 1 .. Len(received'[d]),
                    IsByteOf(received'[d][i], c)
             PROVE  /\ dev'[c] = d /\ forward'[c] = "nothing"
                    /\ received'[d][i].at \in 1 .. Passed(c)'
                    /\ \A j \in i + 1 .. Len(received'[d]) :
                          IsByteOf(received'[d][j], c) => received'[d][i].at < received'[d][j].at
  BY DEF AtDevice, IsByteOf, Passed
<1> DEFINE Goal == /\ dev'[c] = d /\ forward'[c] = "nothing"
                   /\ received'[d][i].at \in 1 .. Passed(c)'
                   /\ \A j \in i + 1 .. Len(received'[d]) :
                         IsByteOf(received'[d][j], c) => received'[d][i].at < received'[d][j].at
<1>1. /\ d \in Peer /\ Len(received[d]) \in Nat /\ Len(received'[d]) \in Nat
      /\ Passed(c) \in Nat /\ Passed(c)' \in Nat /\ Passed(c) <= Passed(c)'
  <2>1. received' \in [Peer -> Seq(Cell)]
    BY EffectCases DEF ByteTypes
  <2>2. QED
    BY <2>1, PassedGrows, Types DEF Peer
<1>2. ASSUME i <= Len(received[d]), received'[d][i] = received[d][i]
      PROVE  /\ dev'[c] = d /\ forward'[c] = "nothing"
             /\ received'[d][i].at \in 1 .. Passed(c)'
             /\ \A j \in i + 1 .. Len(received[d]) :
                   IsByteOf(received[d][j], c) => received'[d][i].at < received[d][j].at
  BY <1>1, <1>2, StaysAtDevice DEF ByteInv, AtDevice
<1>3. ASSUME received'[d] = received[d] PROVE Goal
  BY <1>1, <1>2, <1>3
<1>4. ASSUME NEW b \in Client, NEW s \in Seq(Cell), NEW n \in Nat, Writes(d, s, n),
             \A k \in 1 .. n : ~IsByteOf(s[k], c)
      PROVE  Goal
  <2>1. \A j \in 1 .. Len(received[d]) : received'[d][j] = received[d][j]
    BY <1>4 DEF Writes
  <2>2. ASSUME NEW j \in Len(received[d]) + 1 .. Len(received'[d])
        PROVE  ~IsByteOf(received'[d][j], c)
    <3>1. j - Len(received[d]) \in 1 .. n /\ j = Len(received[d]) + (j - Len(received[d]))
      BY <1>1, <1>4 DEF Writes
    <3>2. received'[d][j] = s[j - Len(received[d])]
      BY <1>4, <3>1 DEF Writes
    <3>3. QED
      BY <1>4, <3>1, <3>2
  <2>3. i <= Len(received[d])
    BY <1>1, <2>2
  <2>4. received'[d][i] = received[d][i]
    BY <1>1, <2>1, <2>3
  <2>5. ASSUME NEW j \in i + 1 .. Len(received'[d]), IsByteOf(received'[d][j], c)
        PROVE  received'[d][i].at < received'[d][j].at
    <3>1. j \in i + 1 .. Len(received[d]) /\ j \in 1 .. Len(received[d])
      BY <1>1, <2>2, <2>5
    <3>2. received'[d][j] = received[d][j]
      BY <2>1, <3>1
    <3>3. QED
      BY <1>2, <2>3, <2>4, <2>5, <3>1, <3>2
  <2>6. QED
    BY <1>2, <2>3, <2>4, <2>5
<1>5. ASSUME NEW b \in Client, NEW s \in Seq(Cell), NEW n \in Nat, PresetArrives(b, d, s, n)
      PROVE  Goal
  <2>1. Writes(d, s, n) /\ \A k \in 1 .. n : ~IsByteOf(s[k], c)
    <3>1. Len(s) \in Nat /\ n \in 0 .. Len(s)
      BY <1>5 DEF PresetArrives, Writes
    <3>2. \A k \in 1 .. n : s[k] = Own("preset", b)
      BY <1>5, <3>1 DEF PresetArrives
    <3>3. QED
      BY <1>5, <3>2 DEF PresetArrives, Own, Byte, IsByteOf
  <2>2. QED
    BY <1>4, <2>1
<1>6. ASSUME NEW b \in Client, NEW s \in Seq(Cell), NEW n \in Nat, NEW m \in Nat,
             BytesArrive(b, d, s, n, m)
      PROVE  Goal
  <2>1. /\ Len(s) \in Nat /\ n \in 0 .. Len(s) /\ Writes(d, s, n)
        /\ \A k \in 1 .. n : IsByteOf(s[k], b) /\ s[k].at = m + k
    BY <1>6 DEF BytesArrive, Writes
  <2>2. CASE b # c
    BY <1>4, <2>1, <2>2 DEF IsByteOf
  <2>3. CASE b = c
    <3>1. PICK l \in Nat, k \in Nat : l = Len(received[d]) /\ k = Len(received'[d])
      BY <1>1
    <3>2. \A j \in 1 .. l : received'[d][j] = received[d][j]
      BY <2>1, <3>1 DEF Writes
    <3>3. ASSUME NEW j \in l + 1 .. k
          PROVE  received'[d][j].at = m + (j - l) /\ j - l \in 1 .. n
      <4>1. k = l + n
        BY <2>1, <3>1 DEF Writes
      <4>2. j - l \in 1 .. n /\ j = l + (j - l)
        BY <2>1, <4>1
      <4>3. received'[d][l + (j - l)] = s[j - l]
        BY <2>1, <3>1, <4>2 DEF Writes
      <4>4. QED
        BY <2>1, <4>2, <4>3
    <3>4. m + n <= Passed(c)' /\ dev'[c] = d /\ forward'[c] = "nothing"
      BY <1>1, <1>6, <2>1, <2>3 DEF BytesArrive
    <3>5. CASE i <= l
      <4>1. received'[d][i] = received[d][i] /\ i \in 1 .. l
        BY <3>1, <3>2, <3>5
      <4>2. received'[d][i].at <= m /\ received'[d][i].at \in 1 .. Passed(c)'
        BY <1>2, <1>6, <2>3, <3>1, <3>5, <4>1 DEF BytesArrive
      <4>3. ASSUME NEW j \in i + 1 .. k, IsByteOf(received'[d][j], c)
            PROVE  received'[d][i].at < received'[d][j].at
        <5>1. CASE j <= l
          <6>1. j \in i + 1 .. l /\ j \in 1 .. l
            BY <4>1, <5>1
          <6>2. received'[d][j] = received[d][j]
            BY <3>2, <6>1
          <6>3. IsByteOf(received[d][j], c)
            BY <4>3, <6>2
          <6>4. \A e \in i + 1 .. Len(received[d]) :
                   IsByteOf(received[d][e], c) => received'[d][i].at < received[d][e].at
            BY <1>2, <3>1, <3>5, <4>1
          <6>5. received'[d][i].at < received[d][j].at
            BY <3>1, <6>1, <6>3, <6>4
          <6>6. QED
            BY <6>2, <6>5, Zenon
        <5>2. CASE j > l
          <6>1. j \in l + 1 .. k
            BY <4>1, <5>2
          <6>2. received'[d][j].at = m + (j - l) /\ j - l \in 1 .. n
            BY <3>3, <6>1
          <6>3. PICK e \in Nat, g \in Nat :
                  e = received'[d][i].at /\ g = received'[d][j].at
            BY <1>1, <4>2, <6>2
          <6>4. e <= m /\ g > m
            BY <4>2, <6>2, <6>3
          <6>5. QED
            BY <6>3, <6>4
        <5>3. QED
          BY <4>1, <5>1, <5>2
      <4>4. QED
        BY <3>1, <3>4, <4>2, <4>3
    <3>6. CASE i > l
      <4>1. i \in l + 1 .. k
        BY <3>1, <3>6
      <4>2. received'[d][i].at = m + (i - l) /\ i - l \in 1 .. n
        BY <3>3, <4>1
      <4>3. received'[d][i].at \in 1 .. Passed(c)'
        BY <1>1, <2>1, <3>4, <4>2
      <4>4. ASSUME NEW j \in i + 1 .. k
            PROVE  received'[d][i].at < received'[d][j].at
        <5>1. j \in l + 1 .. k
          BY <4>1
        <5>2. received'[d][j].at = m + (j - l)
          BY <3>3, <5>1
        <5>3. QED
          BY <4>1, <4>2, <5>2
      <4>5. QED
        BY <3>1, <3>4, <4>3, <4>4
    <3>7. QED
      BY <3>1, <3>5, <3>6
  <2>4. QED
    BY <2>2, <2>3
<1> HIDE DEF Goal
<1>7. Goal
  BY <1>3, <1>5, <1>6, DeviceGets
<1>8. QED
  BY <1>7 DEF Goal


(***************************************************************************)
(* What arrives at a client.                                               *)
(***************************************************************************)

\* A client gets the reply, as the first thing, and what the copy from its device
\* carries.
LEMMA ClientGets ==
    ASSUME TypeOK, SP!IInv, ByteInv, [Next]_vars, NEW c \in Client
    PROVE  \/ received'[c] = received[c]
           \/ ReplyEffect(c) /\ received[c] = <<>>
           \/ \E n \in Nat : CarryEffect(c, "down", n)
<1>1. c \in Peer /\ c \notin Dev
  BY BridgeAssumption DEF Peer, BridgeAssumption
<1>2. ReplyEffect(c) => received[c] = <<>>
  BY DEF ReplyEffect, ByteInv, Handshaken, SP!Early
<1>3. ASSUME NEW b \in Client, NEW s \in Seq(Cell), NEW n \in Nat,
             dev[b] = c, ForwardEffect(b, s, n)
      PROVE  FALSE
  BY <1>1, <1>3 DEF ForwardEffect
<1>4. ASSUME NEW b \in Client, NEW dir \in {"up", "down"}, NEW n \in Nat,
             To(b, dir) = c, CarryEffect(b, dir, n)
      PROVE  CarryEffect(c, "down", n)
  <2>1. b = c /\ dir = "down"
    BY <1>1, <1>4 DEF CarryEffect, To
  <2>2. QED
    BY <1>4, <2>1
<1>5. QED
  BY <1>1, <1>2, <1>3, <1>4, ReceivedBy

\* Once a client has heard of the proxy, it keeps its device.
LEMMA KeepsDevice ==
    ASSUME TypeOK, SP!IInv, ByteInv, [Next]_vars, NEW c \in Client, received[c] # <<>>
    PROVE  dev'[c] = dev[c]
<1>1. cpc[c] # "lookUp"
  BY DEF ByteInv, Handshaken, SP!Early
<1>2. QED
  BY <1>1, HandlersOnward DEF SP!Onward

\* AtClient is kept.
LEMMA AtClientStep ==
    ASSUME TypeOK, SP!IInv, ByteInv, [Next]_vars
    PROVE  AtClient'
<1> SUFFICES ASSUME NEW c \in Client, NEW i \in 2 .. Len(received'[c])
             PROVE  /\ IsByteOf(received'[c][i], dev'[c])
                    /\ received'[c][i].kind = "byte"
                    /\ received'[c][i].at \in 1 .. Read(dev[c])'
                    /\ held'[c]["down"] # <<>> => received'[c][i].at < held'[c]["down"][1].at
                    /\ \A j \in i + 1 .. Len(received'[c]) :
                          received'[c][i].at < received'[c][j].at
  BY DEF AtClient, IsByteOf
<1> DEFINE Goal == /\ IsByteOf(received'[c][i], dev'[c])
                   /\ received'[c][i].kind = "byte"
                   /\ received'[c][i].at \in 1 .. Read(dev[c])'
                   /\ held'[c]["down"] # <<>> => received'[c][i].at < held'[c]["down"][1].at
                   /\ \A j \in i + 1 .. Len(received'[c]) :
                         received'[c][i].at < received'[c][j].at
<1>1. /\ c \in Peer /\ received[c] \in Seq(Cell)
      /\ Len(received[c]) \in Nat /\ Len(received'[c]) \in Nat
  <2>1. received' \in [Peer -> Seq(Cell)]
    BY EffectCases DEF ByteTypes
  <2>2. QED
    BY <2>1, Types DEF Peer
<1>2. ASSUME ReplyEffect(c), received[c] = <<>> PROVE FALSE
  <2>1. Len(received'[c]) = 1
    BY <1>2 DEF ReplyEffect, Writes
  <2>2. QED
    BY <2>1
<1>3. received[c] # <<>>
  <2>1. CASE \E n \in Nat : CarryEffect(c, "down", n)
    BY <2>1 DEF CarryEffect, ByteInv, Handshaken
  <2>2. CASE received'[c] = received[c]
    BY <2>2
  <2>3. QED
    BY <1>2, <2>1, <2>2, ClientGets
<1>4. dev'[c] = dev[c]
  BY <1>3, KeepsDevice
<1>5. PICK l \in Nat, k \in Nat : l = Len(received[c]) /\ k = Len(received'[c]) /\ l >= 1
  BY <1>1, <1>3
\* Nothing arrives.
<1>6. ASSUME received'[c] = received[c] PROVE Goal
  <2>1. k = l
    BY <1>5, <1>6
  <2>2. PICK d \in Peer : d = dev[c]
    <3>1. IsByteOf(received[c][i], dev[c]) /\ received[c][i] \in Cell
      BY <1>1, <1>5, <1>6 DEF ByteInv, AtClient
    <3>2. QED
      BY <3>1 DEF IsByteOf, Cell
  <2>3. /\ IsByteOf(received[c][i], d) /\ received[c][i].kind = "byte"
        /\ received[c][i].at \in 1 .. Read(d)
        /\ held[c]["down"] # <<>> => received[c][i].at < held[c]["down"][1].at
        /\ \A j \in i + 1 .. Len(received[c]) : received[c][i].at < received[c][j].at
    BY <1>6, <2>2 DEF ByteInv, AtClient
  <2>4. Read(d) \in Nat /\ Read(d)' \in Nat /\ Read(d) <= Read(d)' /\ Read(dev[c])' = Read(d)'
    <3>1. Read(dev[c])' = Read(d)'
      BY <1>4, <2>2 DEF Read
    <3>2. QED
      BY <3>1, UnreadStep DEF ByteInv
  <2>5. received[c][i].at \in 1 .. Read(dev[c])'
    BY <2>3, <2>4
  <2>6. ASSUME held'[c]["down"] # <<>>
        PROVE  received[c][i].at < held'[c]["down"][1].at
    <3>1. CASE held'[c]["down"] = held[c]["down"]
      BY <2>3, <2>6, <3>1
    <3>2. ASSUME NEW n \in Nat, CopyEffect(c, "down", n)
          PROVE  received[c][i].at < held'[c]["down"][1].at
      <4>1. d \in Dev /\ Reads(d, n) /\ n > 0
        BY <2>2, <3>2 DEF CopyEffect, From
      <4>2. held'[c]["down"][1] = unread[d][1]
        BY <2>2, <3>2, <4>1 DEF CopyEffect, From
      <4>3. Len(unread[d]) \in Nat /\ n \in 0 .. Len(unread[d])
        BY <4>1, Types DEF Reads, Peer
      <4>4. unread[d][1].at = Read(d) + 1
        BY <4>1, <4>3 DEF ByteInv, UnreadIs
      <4>5. QED
        BY <2>3, <2>4, <4>2, <4>4
    <3>3. ASSUME NEW n \in Nat, CarryEffect(c, "down", n) PROVE FALSE
      BY <2>6, <3>3 DEF CarryEffect
    <3>4. QED
      BY <3>1, <3>2, <3>3, HeldBy
  <2>7. QED
    BY <1>4, <1>6, <2>2, <2>3, <2>5, <2>6
\* The copy from the device writes.
<1>7. ASSUME NEW n \in Nat, CarryEffect(c, "down", n) PROVE Goal
  <2>1. PICK d \in Dev : d = dev[c]
    BY <1>7 DEF CarryEffect
  <2>2. PICK h \in Seq(Cell) : h = held[c]["down"]
    BY Types
  <2>3. /\ n \in 0 .. Len(h) /\ held'[c]["down"] = <<>> /\ k = l + n
        /\ \A j \in 1 .. l : received'[c][j] = received[c][j]
        /\ \A j \in 1 .. n : received'[c][l + j] = h[j]
    BY <1>5, <1>7, <2>2 DEF CarryEffect, Writes, To
  <2>4. d \in Peer /\ Read(d) \in Nat /\ Read(d)' \in Nat /\ Read(d) <= Read(d)'
        /\ Read(dev[c])' = Read(d)'
    <3>1. Read(dev[c])' = Read(d)'
      BY <1>4, <2>1 DEF Read
    <3>2. QED
      BY <3>1, UnreadStep DEF ByteInv, Peer
  <2>5. PICK m \in Nat : \A j \in 1 .. Len(h) :
          /\ IsByteOf(h[j], d) /\ h[j].kind = "byte"
          /\ h[j].at = m + j /\ h[j].at <= Read(d) /\ m + 1 = h[1].at
    <3>1. CASE h = <<>>
      BY <3>1
    <3>2. CASE h # <<>>
      <4>1. 1 \in 1 .. Len(h) /\ h[1] \in Cell
        BY <3>2
      <4>2. h[1].at \in Nat /\ h[1].at >= 1
        BY <2>2, <4>1 DEF Cell, ByteInv, DownHeld
      <4>3. PICK m \in Nat : m + 1 = h[1].at
        <5>1. h[1].at - 1 \in Nat /\ (h[1].at - 1) + 1 = h[1].at
          BY <4>2
        <5>2. QED
          BY <5>1
      <4>4. \A j \in 1 .. Len(h) : /\ IsByteOf(h[j], d) /\ h[j].kind = "byte"
                                   /\ h[j].at = h[1].at + j - 1 /\ h[j].at <= Read(d)
        BY <2>1, <2>2 DEF ByteInv, DownHeld
      <4>5. QED
        BY <4>3, <4>4
    <3>3. QED
      BY <3>1, <3>2
  <2>6. ASSUME NEW j \in l + 1 .. k
        PROVE  /\ IsByteOf(received'[c][j], d) /\ received'[c][j].kind = "byte"
               /\ received'[c][j].at = m + (j - l) /\ j - l \in 1 .. n
               /\ received'[c][j].at \in 1 .. Read(d)' /\ m + 1 = h[1].at
    <3>1. j - l \in 1 .. n /\ j = l + (j - l) /\ j - l \in 1 .. Len(h)
      BY <2>3
    <3>2. received'[c][l + (j - l)] = h[j - l]
      BY <2>3, <3>1
    <3>3. received'[c][j].at = m + (j - l) /\ received'[c][j].at <= Read(d)
      BY <2>5, <3>1, <3>2
    <3>4. received'[c][j].at \in 1 .. Read(d)'
      BY <2>4, <3>1, <3>3
    <3>5. QED
      BY <2>5, <3>1, <3>2, <3>3, <3>4
  <2>7. CASE i <= l
    <3>1. i \in 2 .. Len(received[c]) /\ received'[c][i] = received[c][i]
      BY <1>5, <2>3, <2>7
    <3>2. /\ IsByteOf(received[c][i], d) /\ received[c][i].kind = "byte"
          /\ received[c][i].at \in 1 .. Read(d)
          /\ h # <<>> => received[c][i].at < h[1].at
          /\ \A j \in i + 1 .. l : received[c][i].at < received[c][j].at
      BY <1>5, <2>1, <2>2, <3>1 DEF ByteInv, AtClient
    <3>3. received[c][i].at \in 1 .. Read(dev[c])'
      BY <2>4, <3>2
    <3>4. ASSUME NEW j \in i + 1 .. k PROVE received'[c][i].at < received'[c][j].at
      <4>1. CASE j <= l
        <5>1. j \in i + 1 .. l /\ j \in 1 .. l
          BY <3>1, <4>1
        <5>2. received'[c][j] = received[c][j]
          BY <2>3, <5>1
        <5>3. received[c][i].at < received[c][j].at
          BY <3>2, <5>1
        <5>4. QED
          BY <3>1, <5>2, <5>3, Zenon
      <4>2. CASE j > l
        <5>1. j \in l + 1 .. k
          BY <3>1, <4>2
        <5>2. received'[c][j].at = m + (j - l) /\ j - l \in 1 .. n /\ m + 1 = h[1].at
          BY <2>6, <5>1
        <5>3. PICK a \in Nat, e \in Nat, g \in Nat :
                a = received[c][i].at /\ g = received'[c][j].at /\ e = h[1].at
          <6>1. received[c][i].at \in Nat
            BY <2>4, <3>2
          <6>2. m + (j - l) \in Nat /\ m + 1 \in Nat
            BY <5>2
          <6>3. received'[c][j].at \in Nat /\ h[1].at \in Nat
            BY <5>2, <6>2
          <6>4. QED
            BY <6>1, <6>3
        <5>4. a < e /\ e <= g
          <6>1. h # <<>>
            BY <2>3, <5>2
          <6>2. QED
            BY <3>2, <5>2, <5>3, <6>1
        <5>5. a < g
          BY <5>4
        <5>6. QED
          BY <3>1, <5>3, <5>5, Zenon
      <4>3. QED
        BY <4>1, <4>2, <3>1
    <3>5. QED
      BY <1>4, <1>5, <2>1, <2>3, <3>1, <3>2, <3>3, <3>4
  <2>8. CASE i > l
    <3>1. i \in l + 1 .. k
      BY <1>5, <2>8
    <3>2. /\ IsByteOf(received'[c][i], d) /\ received'[c][i].kind = "byte"
          /\ received'[c][i].at = m + (i - l) /\ received'[c][i].at \in 1 .. Read(d)'
      BY <2>6, <3>1
    <3>3. ASSUME NEW j \in i + 1 .. k PROVE received'[c][i].at < received'[c][j].at
      <4>1. j \in l + 1 .. k
        BY <3>1
      <4>2. received'[c][j].at = m + (j - l)
        BY <2>6, <4>1
      <4>3. QED
        BY <3>1, <3>2, <4>2
    <3>4. QED
      BY <1>4, <1>5, <2>1, <2>3, <2>4, <3>2, <3>3
  <2>9. QED
    BY <1>5, <2>7, <2>8
<1> HIDE DEF Goal
<1>8. Goal
  BY <1>2, <1>6, <1>7, ClientGets
<1>9. QED
  BY <1>8 DEF Goal


\* The reply or the refusal is all that a client has then got.
LEMMA FirstWord ==
    ASSUME NEW c \in Client, ReplyEffect(c), received[c] = <<>>
    PROVE  /\ Len(received'[c]) = 1
           /\ received'[c][1] \in {Own("reply", c), Own("refusal", c)}
<1>1. ASSUME NEW b, Writes(c, <<b>>, 1)
      PROVE  Len(received'[c]) = 1 /\ received'[c][1] = b
  <2>1. Len(received[c]) = 0
    OBVIOUS
  <2>2. Len(received'[c]) = 1 /\ received'[c][0 + 1] = <<b>>[1]
    BY <1>1, <2>1 DEF Writes
  <2>3. QED
    BY <2>2
<1>2. QED
  BY <1>1 DEF ReplyEffect

\* HandshakeFirst is kept.
LEMMA HandshakeFirstStep ==
    ASSUME TypeOK, SP!IInv, ByteInv, [Next]_vars
    PROVE  HandshakeFirst'
<1>1. ASSUME NEW c \in Client, received'[c] # <<>>
      PROVE  \/ received'[c][1] = Own("reply", c)
             \/ received'[c][1] = Own("refusal", c) /\ Len(received'[c]) = 1
  <2>1. c \in Peer /\ received[c] \in Seq(Cell)
    BY Types DEF Peer
  <2>2. CASE received'[c] = received[c]
    BY <1>1, <2>2 DEF ByteInv, HandshakeFirst
  <2>3. CASE ReplyEffect(c) /\ received[c] = <<>>
    BY <2>3, FirstWord
  <2>4. ASSUME NEW n \in Nat, CarryEffect(c, "down", n)
        PROVE  received'[c][1] = Own("reply", c)
    <3>1. received[c] # <<>> /\ received[c][1] = Own("reply", c)
      BY <2>4 DEF CarryEffect, ByteInv, Handshaken
    <3>2. 1 \in 1 .. Len(received[c])
      BY <2>1, <3>1
    <3>3. received'[c][1] = received[c][1]
      BY <2>4, <3>2 DEF CarryEffect, Writes, To
    <3>4. QED
      BY <3>1, <3>3
  <2>5. QED
    BY <2>2, <2>3, <2>4, ClientGets
<1>2. ASSUME NEW c \in Client, NEW d \in Dev,
             NEW i \in 1 .. Len(received'[d]), NEW j \in 1 .. Len(received'[d]),
             received'[d][i] = Own("preset", c), IsByteOf(received'[d][j], c)
      PROVE  i < j
  <2>1. d \in Peer /\ Len(received[d]) \in Nat /\ Len(received'[d]) \in Nat
    <3>1. received' \in [Peer -> Seq(Cell)]
      BY EffectCases DEF ByteTypes
    <3>2. QED
      BY <3>1, Types DEF Peer
  <2>2. PICK l \in Nat, k \in Nat : l = Len(received[d]) /\ k = Len(received'[d])
    BY <2>1
  <2>3. CASE received'[d] = received[d]
    BY <1>2, <2>3 DEF ByteInv, HandshakeFirst
  <2>4. ~IsByteOf(Own("preset", c), c)
    BY DEF IsByteOf, Own, Byte
  <2>5. ASSUME NEW b \in Client, NEW s \in Seq(Cell), NEW n \in Nat, Writes(d, s, n),
               \/ \A e \in 1 .. n : s[e] # Own("preset", c)
               \/ /\ \A e \in 1 .. n : ~IsByteOf(s[e], c)
                  /\ \A e \in 1 .. l : ~IsByteOf(received[d][e], c)
        PROVE  i < j
    <3>1. k = l + n /\ \A e \in 1 .. l : received'[d][e] = received[d][e]
      BY <2>2, <2>5 DEF Writes
    <3>2. ASSUME NEW e \in l + 1 .. k
          PROVE  e - l \in 1 .. n /\ received'[d][e] = s[e - l]
      <4>1. e - l \in 1 .. n /\ e = l + (e - l)
        BY <3>1
      <4>2. received'[d][l + (e - l)] = s[e - l]
        BY <2>2, <2>5, <4>1 DEF Writes
      <4>3. QED
        BY <4>1, <4>2
    <3>3. i \in 1 .. k /\ j \in 1 .. k
      BY <2>2
    <3>4. CASE \A e \in 1 .. n : s[e] # Own("preset", c)
      <4>1. i \in 1 .. l
        <5>1. i \notin l + 1 .. k
          BY <1>2, <3>2, <3>4
        <5>2. QED
          BY <3>3, <5>1
      <4>2. received[d][i] = Own("preset", c)
        BY <1>2, <3>1, <4>1
      <4>3. CASE j \in 1 .. l
        <5>1. IsByteOf(received[d][j], c)
          BY <1>2, <3>1, <4>3
        <5>2. QED
          BY <2>2, <4>1, <4>2, <4>3, <5>1 DEF ByteInv, HandshakeFirst
      <4>4. CASE j \notin 1 .. l
        BY <3>3, <4>1, <4>4
      <4>5. QED
        BY <4>3, <4>4
    <3>5. ASSUME \A e \in 1 .. n : ~IsByteOf(s[e], c),
                 \A e \in 1 .. l : ~IsByteOf(received[d][e], c)
          PROVE  FALSE
      <4>1. CASE j \in 1 .. l
        BY <1>2, <3>1, <3>5, <4>1
      <4>2. CASE j \in l + 1 .. k
        BY <1>2, <3>2, <3>5, <4>2
      <4>3. QED
        BY <3>3, <4>1, <4>2
    <3>6. QED
      BY <2>5, <3>4, <3>5
  <2>6. ASSUME NEW b \in Client, NEW s \in Seq(Cell), NEW n \in Nat, PresetArrives(b, d, s, n)
        PROVE  i < j
    <3>1. Len(s) \in Nat /\ n \in 0 .. Len(s) /\ Writes(d, s, n)
      BY <2>6 DEF PresetArrives, Writes
    <3>2. \A e \in 1 .. n : s[e] = Own("preset", b)
      BY <2>6, <3>1 DEF PresetArrives
    <3>3. CASE b = c
      <4>1. \A e \in 1 .. l : ~IsByteOf(received[d][e], c)
        BY <2>2, <2>6, <3>3 DEF PresetArrives, ByteInv, AtDevice
      <4>2. QED
        BY <2>4, <2>5, <3>1, <3>2, <3>3, <4>1
    <3>4. CASE b # c
      <4>1. Own("preset", b) # Own("preset", c)
        BY <3>4 DEF Own, Byte
      <4>2. QED
        BY <2>5, <3>1, <3>2, <4>1
    <3>5. QED
      BY <3>3, <3>4
  <2>7. ASSUME NEW b \in Client, NEW s \in Seq(Cell), NEW n \in Nat, NEW m \in Nat,
               BytesArrive(b, d, s, n, m)
        PROVE  i < j
    <3>1. /\ Len(s) \in Nat /\ n \in 0 .. Len(s) /\ Writes(d, s, n)
          /\ \A e \in 1 .. n : IsByteOf(s[e], b)
      BY <2>7 DEF BytesArrive, Writes
    <3>2. \A e \in 1 .. n : s[e] # Own("preset", c)
      BY <3>1 DEF IsByteOf, Own, Byte
    <3>3. QED
      BY <2>5, <3>1, <3>2
  <2>8. QED
    BY <2>3, <2>6, <2>7, DeviceGets
<1>3. QED
  BY <1>1, <1>2 DEF HandshakeFirst, IsByteOf

(***************************************************************************)
(* Nothing is lost on the way to the device.                               *)
(***************************************************************************)

\* UpCover is kept.
LEMMA UpCoverStep ==
    ASSUME TypeOK, SP!IInv, ByteInv, UpCover, [Next]_vars
    PROVE  UpCover'
<1> SUFFICES ASSUME NEW c \in Client, forward'[c] = "nothing",
                    cpc'[c] = "bridge" \/ "up" \in copying'[c],
                    conn'[dev'[c]] = "open", ~KeepaliveOn,
                    NEW k \in Dropped(c)' + 1 .. Passed(c)'
             PROVE  \E i \in 1 .. Len(received'[dev'[c]]) :
                       /\ IsByteOf(received'[dev'[c]][i], c)
                       /\ received'[dev'[c]][i].at = k
  BY DEF UpCover, IsByteOf, Passed
<1>1. cpc[c] = "bridge" \/ "up" \in copying[c]
  <2>1. ~ReplyEffect(c)
    <3>1. ReplyEffect(c) => forward'[c] = "presets"
      BY DEF ReplyEffect, ByteInv, Handshaken, SP!Early
    <3>2. QED
      BY <3>1
  <2>2. QED
    BY <2>1, CopyingBy
<1>2. PICK d \in Dev : d = dev[c]
  BY <1>1, AtBridge
<1>3. cpc[c] \notin {"idle", "lookUp"} /\ (copying[c] # {} => cpc[c] # "bridge")
  BY <1>1 DEF SP!IInv, SP!CopyingInsideRun
<1>4. dev'[c] = d /\ conn[d] = "open" /\ conn[dev[c]] = "open"
  BY <1>2, <1>3, HandlersOnward DEF SP!Onward
<1>5. buffered'[c] = buffered[c]
  BY <1>3, BufferedBy DEF DialEffect
<1>6. Dropped(c)' = Dropped(c) /\ Dropped(c) \in {0, Len(buffered[c])}
  BY <1>5 DEF Dropped, IsVcom
<1>7. /\ Passed(c) \in Nat /\ Passed(c)' \in Nat /\ Passed(c) <= Passed(c)'
      /\ Read(c) \in Nat /\ Read(c)' \in Nat /\ d \in Peer /\ c \in Peer
      /\ Len(received[d]) \in Nat /\ Len(received'[d]) \in Nat
      /\ Len(buffered[c]) \in Nat /\ Dropped(c) \in Nat
  <2>1. received' \in [Peer -> Seq(Cell)]
    BY EffectCases DEF ByteTypes
  <2>2. d \in Peer /\ c \in Peer
    BY DEF Peer
  <2>3. /\ Len(received[d]) \in Nat /\ Len(received'[d]) \in Nat
        /\ Len(buffered[c]) \in Nat
    BY <2>1, <2>2, Types
  <2>4. Read(c) \in Nat /\ Read(c)' \in Nat
    BY <2>2, UnreadStep DEF ByteInv
  <2>5. Passed(c) \in Nat /\ Passed(c)' \in Nat /\ Passed(c) <= Passed(c)'
    BY PassedGrows
  <2>6. Dropped(c) \in Nat
    BY <1>6, <2>3
  <2>7. QED
    BY <2>2, <2>3, <2>4, <2>5, <2>6
\* What is there stays there.
<1>8. ASSUME NEW i \in 1 .. Len(received[d])
      PROVE  i \in 1 .. Len(received'[d]) /\ received'[d][i] = received[d][i]
  <2>1. ASSUME NEW s \in Seq(Cell), NEW n \in Nat, Writes(d, s, n)
        PROVE  i \in 1 .. Len(received'[d]) /\ received'[d][i] = received[d][i]
    BY <1>7, <2>1 DEF Writes
  <2>2. QED
    BY <2>1, DeviceGets DEF PresetArrives, BytesArrive
\* What has been forwarded.
<1>9. ASSUME NEW s \in Seq(Cell), NEW n \in Nat, ForwardEffect(c, s, n)
      PROVE  \E i \in 1 .. Len(received'[d]) :
                IsByteOf(received'[d][i], c) /\ received'[d][i].at = k
  <2>1. /\ forward[c] = "buffered" /\ n = Len(s) /\ Writes(d, s, n)
        /\ s = buffered[c] \/ IsVcom(buffered[c])
        /\ cpc[c] = "bridge" /\ UNCHANGED <<sent, unread, held>>
    BY <1>2, <1>4, <1>9, Types DEF ForwardEffect
  <2>2. held[c]["up"] = <<>>
    BY <1>3, <2>1 DEF ByteInv, HeldCopying, S!Direction
  <2>3. Passed(c)' = Len(buffered[c])
    <3>1. Len(held'[c]["up"]) = 0 /\ Read(c)' = Read(c)
      BY <2>1, <2>2 DEF Read
    <3>2. Read(c) = Len(buffered[c])
      BY <2>1 DEF ByteInv, BufferedIs, SP!BeforeRun
    <3>3. QED
      BY <1>7, <3>1, <3>2 DEF Passed
  <2>4. ~IsVcom(buffered[c]) /\ k \in 1 .. Len(buffered[c])
    <3>1. CASE IsVcom(buffered[c])
      <4>1. Dropped(c)' = Len(buffered[c])
        BY <1>6, <3>1 DEF Dropped
      <4>2. QED
        BY <1>7, <2>3, <4>1
    <3>2. CASE ~IsVcom(buffered[c])
      <4>1. Dropped(c)' = 0
        BY <1>6, <3>2 DEF Dropped
      <4>2. QED
        BY <2>3, <3>2, <4>1
    <3>3. QED
      BY <3>1, <3>2
  <2>5. IsByteOf(buffered[c][k], c) /\ buffered[c][k].at = k
    BY <2>4 DEF ByteInv, BufferedIs
  <2>6. /\ Len(received[d]) + k \in 1 .. Len(received'[d])
        /\ received'[d][Len(received[d]) + k] = buffered[c][k]
    BY <1>7, <2>1, <2>4 DEF Writes
  <2>7. QED
    BY <2>5, <2>6
\* What the copy has carried.
<1>10. ASSUME NEW n \in Nat, CarryEffect(c, "up", n), k > Passed(c)
       PROVE  \E i \in 1 .. Len(received'[d]) :
                 IsByteOf(received'[d][i], c) /\ received'[d][i].at = k
  <2>1. PICK h \in Seq(Cell) : h = held[c]["up"]
    BY Types
  <2>2. n = Len(h) /\ Writes(d, h, n)
    <3>1. "up" \in copying[c] /\ copying[c] \subseteq {"up", "down"} /\ cpc' = cpc
      BY <1>10, Types DEF CarryEffect
    <3>2. copying'[c] # copying[c] \ {"up"}
      BY <1>3, <3>1
    <3>3. copying' = [copying EXCEPT ![c] = @ \ {"up"}] => copying'[c] = copying[c] \ {"up"}
      BY Types
    <3>4. QED
      BY <1>2, <1>10, <2>1, <3>2, <3>3 DEF CarryEffect, To
  <2>3. Passed(c)' = Read(c) /\ Passed(c) = Read(c) - Len(h)
    <3>1. Len(held'[c]["up"]) = 0 /\ Read(c)' = Read(c)
      BY <1>10 DEF CarryEffect, Read
    <3>2. QED
      BY <1>7, <2>1, <3>1 DEF Passed
  <2>4. PICK g \in 1 .. Len(h) : k = Passed(c) + g
    <3>1. PICK p \in Nat, q \in Nat, l \in Nat :
            p = Passed(c) /\ q = Passed(c)' /\ l = Len(h) /\ q - l = p
      BY <1>7, <2>3
    <3>2. k \in Nat /\ k <= q /\ k > p
      BY <1>6, <1>7, <1>10, <3>1
    <3>3. q = p + l
      BY <3>1
    <3>4. PICK e \in Nat : e = k
      BY <3>2
    <3>5. e - p \in 1 .. l /\ e = p + (e - p)
      BY <3>2, <3>3, <3>4
    <3>6. QED
      BY <3>1, <3>4, <3>5
  <2>5. IsByteOf(h[g], c) /\ h[g].at = Passed(c) + g
    BY <2>1 DEF ByteInv, UpHeld, Passed
  <2>6. /\ Len(received[d]) + g \in 1 .. Len(received'[d])
        /\ received'[d][Len(received[d]) + g] = h[g]
    BY <1>7, <2>2 DEF Writes
  <2>7. QED
    BY <2>4, <2>5, <2>6
<1>11. CASE forward[c] # "nothing"
  BY <1>4, <1>9, <1>11, ForwardBy
<1>12. CASE forward[c] = "nothing" /\ k <= Passed(c)
  <2>1. \E i \in 1 .. Len(received[d]) :
           IsByteOf(received[d][i], c) /\ received[d][i].at = k
    <3>1. k \in Dropped(c) + 1 .. Passed(c)
      BY <1>6, <1>7, <1>12
    <3>2. \A e \in Dropped(c) + 1 .. Passed(c) :
             \E i \in 1 .. Len(received[dev[c]]) :
                IsByteOf(received[dev[c]][i], c) /\ received[dev[c]][i].at = e
      BY <1>1, <1>4, <1>12 DEF UpCover, Passed
    <3>3. QED
      BY <1>2, <3>1, <3>2
  <2>2. QED
    BY <1>4, <1>8, <2>1
<1>13. CASE k > Passed(c)
  <2>1. ASSUME NEW n \in Nat, CopyEffect(c, "up", n) PROVE FALSE
    <3>1. Len(held[c]["up"]) = 0 /\ Len(held'[c]["up"]) = n /\ Reads(c, n) /\ sent' = sent
      BY <2>1 DEF CopyEffect, From
    <3>2. Read(c)' = Read(c) + n
      BY <1>7, <3>1, ReadsNext, EffectCases DEF ByteInv
    <3>3. Passed(c)' = Passed(c)
      BY <1>7, <3>1, <3>2 DEF Passed
    <3>4. QED
      BY <1>6, <1>7, <1>13, <3>3
  <2>2. CASE held'[c]["up"] = held[c]["up"]
    <3>1. Read(c)' = Read(c)
      BY <1>3, <2>1, ReadBy DEF DialEffect, ByteInv
    <3>2. Passed(c)' = Passed(c)
      BY <2>2, <3>1 DEF Passed
    <3>3. QED
      BY <1>6, <1>7, <1>13, <3>2
  <2>3. QED
    BY <1>4, <1>10, <1>13, <2>1, <2>2, HeldBy
<1>14. QED
  BY <1>6, <1>7, <1>11, <1>12, <1>13


(***************************************************************************)
(* The counters.                                                           *)
(***************************************************************************)

\* How Above grows with a sequence.
LEMMA AboveGrows ==
    ASSUME NEW m \in Nat, NEW s, NEW t, Len(s) \in Nat, Len(t) \in Nat, Len(s) <= Len(t),
           \A i \in 1 .. Len(s) : t[i] = s[i]
    PROVE  /\ Above(m, s) \in Nat
           /\ (\A i \in Len(s) + 1 .. Len(t) : t[i] > m)
              => Above(m, t) = Above(m, s) + (Len(t) - Len(s))
           /\ (\A i \in Len(s) + 1 .. Len(t) : ~(t[i] > m)) => Above(m, t) = Above(m, s)
           /\ (\A i \in 1 .. Len(s) : ~(s[i] > m)) => Above(m, s) = 0
<1>1. PICK l \in Nat, k \in Nat : l = Len(s) /\ k = Len(t) /\ l <= k
  OBVIOUS
<1> DEFINE A == {i \in 1 .. l : s[i] > m}
           B == {i \in 1 .. k : t[i] > m}
           N == l + 1 .. k
<1>2. Above(m, s) = Cardinality(A) /\ Above(m, t) = Cardinality(B)
  BY <1>1 DEF Above
<1>3. IsFiniteSet(A) /\ Cardinality(A) \in Nat
  <2>1. IsFiniteSet(1 .. l)
    BY FS_Interval, 1 \in Int, l \in Int
  <2>2. A \in SUBSET (1 .. l)
    OBVIOUS
  <2>3. QED
    BY <2>1, <2>2, FS_Subset, FS_CardinalityType
<1>4. IsFiniteSet(N) /\ Cardinality(N) = k - l
  <2>1. l + 1 \in Int /\ k \in Int
    OBVIOUS
  <2>2. IsFiniteSet(N) /\ Cardinality(N) = IF l + 1 > k THEN 0 ELSE k - (l + 1) + 1
    BY <2>1, FS_Interval
  <2>3. QED
    BY <1>1, <2>2
<1>5. ASSUME \A i \in N : t[i] > m PROVE Cardinality(B) = Cardinality(A) + (k - l)
  <2>1. B = A \cup N /\ A \cap N = {}
    BY <1>1, <1>5
  <2> HIDE DEF A, B, N
  <2>2. Cardinality(A \cup N) = Cardinality(A) + Cardinality(N) - Cardinality(A \cap N)
    BY <1>3, <1>4, FS_Union
  <2>3. Cardinality(A \cap N) = 0
    BY <2>1, FS_EmptySet
  <2>4. Cardinality(B) = Cardinality(A) + Cardinality(N) - Cardinality(A \cap N)
    BY <2>1, <2>2
  <2>5. QED
    BY <1>3, <1>4, <2>3, <2>4
<1>6. ASSUME \A i \in N : ~(t[i] > m) PROVE B = A
  BY <1>1, <1>6
<1>7. ASSUME \A i \in 1 .. l : ~(s[i] > m) PROVE Cardinality(A) = 0
  <2>1. A = {}
    BY <1>7
  <2>2. QED
    BY <2>1, FS_EmptySet
<1> HIDE DEF A, B
<1>8. QED
  BY <1>1, <1>2, <1>3, <1>5, <1>6, <1>7

\* How the positions above m of what p has sent grow with a stream.
LEMMA PositionsGrow ==
    ASSUME NEW m \in Nat, NEW p, NEW s, NEW t, Len(s) \in Nat, Len(t) \in Nat, Len(s) <= Len(t),
           \A i \in 1 .. Len(s) : t[i] = s[i]
    PROVE  /\ Above(m, Positions(p, s)) \in Nat
           /\ (\A i \in Len(s) + 1 .. Len(t) : IsByteOf(t[i], p) /\ t[i].at > m)
              => Above(m, Positions(p, t)) = Above(m, Positions(p, s)) + (Len(t) - Len(s))
           /\ (\A i \in Len(s) + 1 .. Len(t) : ~(IsByteOf(t[i], p) /\ t[i].at > m))
              => Above(m, Positions(p, t)) = Above(m, Positions(p, s))
           /\ (\A i \in 1 .. Len(s) : ~(IsByteOf(s[i], p) /\ s[i].at > m))
              => Above(m, Positions(p, s)) = 0
<1> DEFINE S1 == Positions(p, s)
           T1 == Positions(p, t)
<1>1. /\ Len(S1) = Len(s)
      /\ \A i \in 1 .. Len(s) : S1[i] = IF IsByteOf(s[i], p) THEN s[i].at ELSE 0
      /\ Len(T1) = Len(t)
      /\ \A i \in 1 .. Len(t) : T1[i] = IF IsByteOf(t[i], p) THEN t[i].at ELSE 0
  BY DEF Positions
<1>2. \A i \in 1 .. Len(S1) : T1[i] = S1[i]
  BY <1>1
<1>3. ~(0 > m)
  OBVIOUS
<1>4. \A i \in 1 .. Len(t) : T1[i] > m <=> (IsByteOf(t[i], p) /\ t[i].at > m)
  BY <1>1, <1>3
<1>5. \A i \in 1 .. Len(s) : S1[i] > m <=> (IsByteOf(s[i], p) /\ s[i].at > m)
  BY <1>1, <1>3
<1>6. \A i \in Len(s) + 1 .. Len(t) : i \in 1 .. Len(t)
  OBVIOUS
<1> HIDE DEF S1, T1
<1>7. /\ Above(m, S1) \in Nat
      /\ (\A i \in Len(S1) + 1 .. Len(T1) : T1[i] > m)
         => Above(m, T1) = Above(m, S1) + (Len(T1) - Len(S1))
      /\ (\A i \in Len(S1) + 1 .. Len(T1) : ~(T1[i] > m)) => Above(m, T1) = Above(m, S1)
      /\ (\A i \in 1 .. Len(S1) : ~(S1[i] > m)) => Above(m, S1) = 0
  <2>1. Len(S1) \in Nat /\ Len(T1) \in Nat /\ Len(S1) <= Len(T1)
    BY <1>1
  <2>2. QED
    BY <1>2, <2>1, AboveGrows
<1>8. QED
  BY <1>1, <1>4, <1>5, <1>6, <1>7 DEF S1, T1


\* Only a copy's write counts.
LEMMA CountedBy ==
    ASSUME TypeOK, SP!IInv, [Next]_vars, NEW c \in Client, NEW dir \in {"up", "down"}
    PROVE  \/ counted'[c][dir] = counted[c][dir]
           \/ \E n \in Nat : CarryEffect(c, dir, n)
<1>1. ASSUME counted' = counted PROVE counted'[c][dir] = counted[c][dir]
  BY <1>1
<1>2. ASSUME NEW b \in Client, NEW way \in {"up", "down"}, NEW n \in Nat, CarryEffect(b, way, n)
      PROVE  counted'[c][dir] = counted[c][dir] \/ CarryEffect(c, dir, n)
  <2>1. CASE b = c /\ way = dir
    BY <1>2, <2>1
  <2>2. CASE ~(b = c /\ way = dir)
    BY <1>2, <2>2 DEF CarryEffect
  <2>3. QED
    BY <2>1, <2>2
<1>3. Quiet => counted' = counted
  BY DEF Quiet
<1>4. ASSUME NEW b \in Client, NEW n \in Nat
      PROVE  DialEffect(b, n) \/ ReplyEffect(b) => counted' = counted
  BY DEF DialEffect, ReplyEffect
<1>5. ASSUME NEW b \in Client, NEW s \in Seq(Cell), NEW n \in Nat
      PROVE  ForwardEffect(b, s, n) => counted' = counted
  BY DEF ForwardEffect
<1>6. ASSUME NEW b \in Client, NEW way \in {"up", "down"}, NEW n \in Nat
      PROVE  CopyEffect(b, way, n) => counted' = counted
  BY DEF CopyEffect
<1>7. ASSUME NEW d \in Dev, NEW n \in Nat PROVE TakesEffect(d, n) => counted' = counted
  BY DEF TakesEffect
<1>8. ASSUME NEW p \in Peer PROVE SendsEffect(p) => counted' = counted
  BY DEF SendsEffect
<1>9. QED
  BY <1>1, <1>2, <1>3, <1>4, <1>5, <1>6, <1>7, <1>8, EffectCases

\* t is r and, behind it, the first n elements of s.
Extends(t, r, s, n) ==
    /\ n <= Len(s) /\ Len(t) = Len(r) + n
    /\ \A i \in 1 .. Len(r) : t[i] = r[i]
    /\ \A i \in 1 .. n : t[Len(r) + i] = s[i]

\* The first n elements of s are p's bytes beyond m, or none of them is.
Counting(s, n, p, m) == \A i \in 1 .. n : IsByteOf(s[i], p) /\ s[i].at > m
Ignored(s, n, p, m) == \A i \in 1 .. n : ~(IsByteOf(s[i], p) /\ s[i].at > m)

\* How the positions grow when the first n elements of s arrive.
LEMMA ArrivalsGrow ==
    ASSUME NEW m \in Nat, NEW p, NEW r \in Seq(Cell), NEW t \in Seq(Cell),
           NEW s \in Seq(Cell), NEW n \in Nat, Extends(t, r, s, n)
    PROVE  /\ Counting(s, n, p, m)
              => Above(m, Positions(p, t)) = Above(m, Positions(p, r)) + n
           /\ Ignored(s, n, p, m)
              => Above(m, Positions(p, t)) = Above(m, Positions(p, r))
<1>1. /\ n <= Len(s) /\ Len(t) = Len(r) + n
      /\ \A i \in 1 .. Len(r) : t[i] = r[i]
      /\ \A i \in 1 .. n : t[Len(r) + i] = s[i]
  BY DEF Extends
<1>2. PICK l \in Nat, k \in Nat : l = Len(r) /\ k = Len(t) /\ k = l + n
  BY <1>1
<1>3. ASSUME NEW i \in l + 1 .. k PROVE i - l \in 1 .. n /\ t[i] = s[i - l]
  <2>1. i - l \in 1 .. n /\ i = l + (i - l)
    BY <1>2
  <2>2. t[l + (i - l)] = s[i - l]
    BY <1>1, <1>2, <2>1
  <2>3. QED
    BY <2>1, <2>2
<1>4. Len(r) \in Nat /\ Len(t) \in Nat /\ Len(r) <= Len(t)
  BY <1>2
<1>5. (\A i \in 1 .. Len(r) : t[i] = r[i]) /\ Len(t) - Len(r) = n
  <2>1. k - l = n
    BY <1>2
  <2>2. QED
    BY <1>1, <1>2, <2>1
<1>6. (\A i \in Len(r) + 1 .. Len(t) : IsByteOf(t[i], p) /\ t[i].at > m)
      => Above(m, Positions(p, t)) = Above(m, Positions(p, r)) + (Len(t) - Len(r))
  <2>1. \A i \in 1 .. Len(r) : t[i] = r[i]
    BY <1>5
  <2>2. QED
    BY <1>4, <2>1, PositionsGrow
<1>7. (\A i \in Len(r) + 1 .. Len(t) : ~(IsByteOf(t[i], p) /\ t[i].at > m))
      => Above(m, Positions(p, t)) = Above(m, Positions(p, r))
  <2>1. \A i \in 1 .. Len(r) : t[i] = r[i]
    BY <1>5
  <2>2. QED
    BY <1>4, <2>1, PositionsGrow
<1>8. ASSUME Counting(s, n, p, m)
      PROVE  Above(m, Positions(p, t)) = Above(m, Positions(p, r)) + n
  <2>1. \A i \in Len(r) + 1 .. Len(t) : IsByteOf(t[i], p) /\ t[i].at > m
    BY <1>2, <1>3, <1>8 DEF Counting
  <2>2. QED
    BY <1>5, <1>6, <2>1
<1>9. ASSUME Ignored(s, n, p, m)
      PROVE  Above(m, Positions(p, t)) = Above(m, Positions(p, r))
  <2>1. \A i \in Len(r) + 1 .. Len(t) : ~(IsByteOf(t[i], p) /\ t[i].at > m)
    BY <1>2, <1>3, <1>9 DEF Ignored
  <2>2. QED
    BY <1>7, <2>1
<1>10. QED
  BY <1>8, <1>9

\* Nothing counts in an empty stream.
LEMMA AboveEmpty ==
    ASSUME NEW m
    PROVE  Above(m, <<>>) = 0
<1>1. {i \in 1 .. Len(<<>>) : <<>>[i] > m} = {}
  OBVIOUS
<1>2. QED
  BY <1>1, FS_EmptySet DEF Above

\* Nothing counts in a stream without the sender's bytes above m.
LEMMA NothingAbove ==
    ASSUME NEW m \in Nat, NEW p, NEW s \in Seq(Cell),
           \A i \in 1 .. Len(s) : ~(IsByteOf(s[i], p) /\ s[i].at > m)
    PROVE  Above(m, Positions(p, s)) = 0
<1>1. Len(s) \in Nat /\ Len(s) <= Len(s)
  OBVIOUS
<1>2. QED
  BY <1>1, PositionsGrow

\* BytesOut is kept right.
LEMMA CountsDownStep ==
    ASSUME TypeOK, SP!IInv, ByteInv, [Next]_vars,
           NEW c \in Client, counted[c]["down"] = Above(0, GotDown(c))
    PROVE  counted'[c]["down"] = Above(0, GotDown(c)')
<1>1. /\ c \in Peer /\ received[c] \in Seq(Cell) /\ received'[c] \in Seq(Cell)
      /\ Len(received[c]) \in Nat /\ Len(received'[c]) \in Nat
  <2>1. received' \in [Peer -> Seq(Cell)]
    BY EffectCases DEF ByteTypes
  <2>2. QED
    BY <2>1, Types DEF Peer
<1>2. ASSUME received[c] = <<>>
      PROVE  counted'[c]["down"] = 0
  <2>1. Above(0, GotDown(c)) = 0
    <3>1. \A i \in 1 .. Len(received[c]) : ~(IsByteOf(received[c][i], dev[c]) /\ received[c][i].at > 0)
      BY <1>2
    <3>2. Above(0, Positions(dev[c], received[c])) = 0
      BY <1>1, <3>1, NothingAbove
    <3>3. QED
      BY <3>2, AboveEmpty DEF GotDown
  <2>2. ASSUME NEW n \in Nat, CarryEffect(c, "down", n) PROVE FALSE
    BY <1>2, <2>2 DEF CarryEffect, ByteInv, Handshaken
  <2>3. QED
    BY <2>1, <2>2, CountedBy
<1>3. CASE received[c] = <<>>
  <2>1. \A i \in 1 .. Len(received'[c]) :
           ~(IsByteOf(received'[c][i], dev'[c]) /\ received'[c][i].at > 0)
    <3>1. CASE received'[c] = received[c]
      BY <1>3, <3>1
    <3>2. CASE ReplyEffect(c)
      <4>1. /\ Len(received'[c]) = 1
            /\ received'[c][1] \in {Own("reply", c), Own("refusal", c)}
        BY <1>3, <3>2, FirstWord
      <4>2. \A i \in 1 .. Len(received'[c]) :
               received'[c][i] \in {Own("reply", c), Own("refusal", c)}
        BY <4>1
      <4>3. QED
        BY <4>2 DEF Own, Byte, IsByteOf
    <3>3. ASSUME NEW n \in Nat, CarryEffect(c, "down", n) PROVE FALSE
      BY <1>3, <3>3 DEF CarryEffect, ByteInv, Handshaken
    <3>4. QED
      BY <3>1, <3>2, <3>3, ClientGets
  <2>2. Above(0, Positions(dev'[c], received'[c])) = 0
    BY <1>1, <2>1, NothingAbove
  <2>3. QED
    BY <1>2, <1>3, <2>2, AboveEmpty DEF GotDown
<1>4. CASE received[c] # <<>>
  <2>1. dev'[c] = dev[c]
    BY <1>4, KeepsDevice
  <2>2. CASE dev[c] = None
    <3>1. GotDown(c)' = GotDown(c)
      BY <2>1, <2>2 DEF GotDown
    <3>2. ASSUME NEW n \in Nat, CarryEffect(c, "down", n) PROVE FALSE
      BY <2>2, <3>2, BridgeAssumption DEF CarryEffect, BridgeAssumption, S!SessionsAssumption
    <3>3. QED
      BY <3>1, <3>2, CountedBy
  <2>3. ASSUME dev[c] # None, NEW n \in Nat, CarryEffect(c, "down", n)
        PROVE  counted'[c]["down"] = Above(0, GotDown(c)')
    <3>1. PICK d : d = dev[c] /\ GotDown(c) = Positions(d, received[c])
                   /\ GotDown(c)' = Positions(d, received'[c])
      BY <2>1, <2>3 DEF GotDown
    <3>2. PICK h \in Seq(Cell) : h = held[c]["down"]
      BY Types
    <3>3. PICK r \in Seq(Cell), t \in Seq(Cell) : r = received[c] /\ t = received'[c]
      BY <1>1
    <3>4. /\ n \in 0 .. Len(h) /\ Len(t) = Len(r) + n
          /\ \A j \in 1 .. Len(r) : t[j] = r[j]
          /\ \A j \in 1 .. n : t[Len(r) + j] = h[j]
          /\ counted'[c]["down"] = counted[c]["down"] + n
      BY <2>3, <3>2, <3>3 DEF CarryEffect, Writes, To
    <3>5. \A j \in 1 .. n : IsByteOf(h[j], d) /\ h[j].at > 0
      <4>1. ASSUME NEW j \in 1 .. n PROVE IsByteOf(h[j], d) /\ h[j].at > 0
        <5>1. 1 \in 1 .. Len(h) /\ j \in 1 .. Len(h)
          BY <3>4
        <5>2. h[1] \in Cell
          BY <5>1
        <5>3. PICK e \in Nat : e = h[1].at
          BY <5>2 DEF Cell
        <5>4. IsByteOf(h[j], d) /\ e >= 1 /\ h[j].at = e + j - 1
          BY <3>1, <3>2, <5>1, <5>3 DEF ByteInv, DownHeld
        <5>5. QED
          BY <5>4
      <4>2. QED
        BY <4>1
    <3>6. Extends(t, r, h, n)
      BY <3>4 DEF Extends
    <3>7. Counting(h, n, d, 0)
      BY <3>5 DEF Counting
    <3>8. Above(0, Positions(d, received'[c])) = Above(0, Positions(d, received[c])) + n
      BY <3>3, <3>6, <3>7, 0 \in Nat, ArrivalsGrow
    <3>9. QED
      BY <3>1, <3>4, <3>8
  <2>4. CASE dev[c] # None /\ received'[c] = received[c]
    <3>1. GotDown(c)' = GotDown(c)
      BY <2>1, <2>4 DEF GotDown
    <3>2. QED
      BY <2>3, <2>4, <3>1, CountedBy
  <2>5. QED
    BY <1>4, <2>2, <2>3, <2>4, ClientGets
<1>5. QED
  BY <1>3, <1>4


\* BytesIn is kept right.
LEMMA CountsUpStep ==
    ASSUME TypeOK, SP!IInv, SP!IInv', ByteInv, [Next]_vars,
           NEW c \in Client, counted[c]["up"] = Above(Len(buffered[c]), GotUp(c))
    PROVE  counted'[c]["up"] = Above(Len(buffered'[c]), GotUp(c)')
<1>1. /\ received' \in [Peer -> Seq(Cell)] /\ buffered' \in [Client -> Seq(Cell)]
      /\ \A d \in Dev : received[d] \in Seq(Cell) /\ received'[d] \in Seq(Cell)
      /\ Len(buffered[c]) \in Nat /\ Len(buffered'[c]) \in Nat
  <2>1. received' \in [Peer -> Seq(Cell)] /\ buffered' \in [Client -> Seq(Cell)]
    BY EffectCases DEF ByteTypes
  <2>2. QED
    BY <2>1, Types DEF Peer
<1>2. dev[c] \in Dev \cup {None} /\ dev'[c] \in Dev \cup {None}
  BY Types DEF SP!IInv, SP!TypeOK
<1>3. BufferedIs' /\ AtDevice' /\ Handshaken'
  BY BufferedStep, AtDeviceStep, HandshakenStep DEF ByteInv
\* Before the bridge nothing counts.
<1>4. CASE forward[c] # "nothing"
  <2>1. counted[c]["up"] = 0
    <3>1. ASSUME NEW d \in Dev PROVE Above(Len(buffered[c]), Positions(c, received[d])) = 0
      <4>1. \A i \in 1 .. Len(received[d]) : ~IsByteOf(received[d][i], c)
        BY <1>4 DEF ByteInv, AtDevice
      <4>2. QED
        BY <1>1, <4>1, NothingAbove
    <3>2. Above(Len(buffered[c]), <<>>) = 0
      BY AboveEmpty
    <3>3. QED
      BY <1>2, <3>1, <3>2 DEF GotUp
  <2>2. counted'[c]["up"] = 0
    <3>1. ASSUME NEW n \in Nat, CarryEffect(c, "up", n) PROVE FALSE
      BY <1>4, <3>1 DEF CarryEffect, ByteInv, Handshaken
    <3>2. QED
      BY <2>1, <3>1, CountedBy
  <2>3. ASSUME NEW d \in Dev PROVE Above(Len(buffered'[c]), Positions(c, received'[d])) = 0
    <3>1. ASSUME NEW i \in 1 .. Len(received'[d]), IsByteOf(received'[d][i], c)
          PROVE  ~(received'[d][i].at > Len(buffered'[c]))
      <4>1. forward'[c] = "nothing" /\ received'[d][i].at \in 1 .. Passed(c)'
        BY <1>3, <3>1 DEF AtDevice, IsByteOf, Passed
      <4>2. cpc'[c] = "bridge"
        BY <1>4, <4>1, ForwardBy DEF ForwardEffect
      <4>3. Read(c)' = Len(buffered'[c])
        BY <1>3, <4>2 DEF BufferedIs, SP!BeforeRun
      <4>4. PICK a \in Nat, b \in Nat, p \in Nat :
              a = received'[d][i].at /\ b = Len(buffered'[c]) /\ p = Passed(c)'
        BY <1>1, <4>1, PassedGrows
      <4>5. a <= p /\ p <= b
        BY <4>1, <4>3, <4>4, PassedGrows
      <4>6. QED
        BY <4>4, <4>5
    <3>2. QED
      BY <1>1, <3>1, NothingAbove
  <2>4. Above(Len(buffered'[c]), <<>>) = 0
    BY AboveEmpty
  <2>5. GotUp(c)' = IF dev'[c] = None THEN <<>> ELSE Positions(c, received'[dev'[c]])
    BY DEF GotUp
  <2>6. QED
    BY <1>2, <2>2, <2>3, <2>4, <2>5
\* From then on the copy's writes count.
<1>5. CASE forward[c] = "nothing"
  <2>1. cpc[c] \notin SP!Early
    BY <1>5 DEF ByteInv, Handshaken
  <2>2. dev'[c] = dev[c] /\ buffered'[c] = buffered[c]
    BY <2>1, HandlersOnward, BufferedBy DEF SP!Onward, SP!Early, DialEffect
  <2>3. CASE dev[c] = None
    <3>1. GotUp(c)' = GotUp(c)
      BY <2>2, <2>3 DEF GotUp
    <3>2. ASSUME NEW n \in Nat, CarryEffect(c, "up", n) PROVE FALSE
      BY <2>3, <3>2, BridgeAssumption DEF CarryEffect, BridgeAssumption, S!SessionsAssumption
    <3>3. QED
      BY <2>2, <3>1, <3>2, CountedBy
  <2>4. ASSUME NEW d \in Dev, dev[c] = d
        PROVE  counted'[c]["up"] = Above(Len(buffered'[c]), GotUp(c)')
    <3>1. PICK r \in Seq(Cell), t \in Seq(Cell), m \in Nat :
            r = received[d] /\ t = received'[d] /\ m = Len(buffered[c])
      BY <1>1
    <3>2. d # None
      BY BridgeAssumption DEF BridgeAssumption, S!SessionsAssumption
    <3>3. /\ counted[c]["up"] = Above(m, Positions(c, r))
          /\ Above(Len(buffered'[c]), GotUp(c)') = Above(m, Positions(c, t))
      BY <2>2, <2>4, <3>1, <3>2 DEF GotUp
    <3>4. ASSUME r = t PROVE counted'[c]["up"] = counted[c]["up"]
      <4>1. ASSUME NEW n \in Nat, CarryEffect(c, "up", n)
            PROVE  counted'[c]["up"] = counted[c]["up"]
        <5>1. /\ Len(t) = Len(r) + n /\ counted'[c]["up"] = counted[c]["up"] + n
              /\ counted[c]["up"] \in Nat
          BY <2>4, <3>1, <4>1, Types DEF CarryEffect, Writes, To
        <5>2. n = 0
          BY <3>4, <5>1
        <5>3. QED
          BY <5>1, <5>2
      <4>2. QED
        BY <4>1, CountedBy
    <3>5. ASSUME NEW s \in Seq(Cell), NEW n \in Nat, Writes(d, s, n)
          PROVE  n \in 0 .. Len(s) /\ Extends(t, r, s, n)
      BY <3>1, <3>5 DEF Writes, Extends
    <3>6. ASSUME NEW s \in Seq(Cell), NEW n \in Nat, Writes(d, s, n), Ignored(s, n, c, m)
          PROVE  Above(m, Positions(c, t)) = Above(m, Positions(c, r))
      <4>1. Extends(t, r, s, n)
        BY <3>5, <3>6
      <4>2. Ignored(s, n, c, m) => Above(m, Positions(c, t)) = Above(m, Positions(c, r))
        BY <4>1, ArrivalsGrow
      <4>3. QED
        BY <3>6, <4>2
    <3>7. ASSUME NEW s \in Seq(Cell), NEW n \in Nat, Writes(d, s, n), Counting(s, n, c, m)
          PROVE  Above(m, Positions(c, t)) = Above(m, Positions(c, r)) + n
      BY <3>5, <3>7, ArrivalsGrow
    <3>8. ASSUME NEW b \in Client, NEW s \in Seq(Cell), NEW n \in Nat, PresetArrives(b, d, s, n)
          PROVE  counted'[c]["up"] = Above(m, Positions(c, t))
      <4>1. /\ Writes(d, s, n) /\ counted' = counted
            /\ \A i \in 1 .. Len(s) : s[i] = Own("preset", b)
        BY <3>8 DEF PresetArrives
      <4>2. \A i \in 1 .. n : s[i] = Own("preset", b)
        BY <3>5, <4>1
      <4>3. Ignored(s, n, c, m)
        BY <4>2 DEF Own, Byte, IsByteOf, Ignored
      <4>4. QED
        BY <3>3, <3>6, <4>1, <4>3
    <3>9. ASSUME NEW b \in Client, NEW s \in Seq(Cell), NEW n \in Nat, NEW m1 \in Nat,
                 BytesArrive(b, d, s, n, m1)
          PROVE  counted'[c]["up"] = Above(m, Positions(c, t))
      <4>1. /\ Writes(d, s, n) /\ \A i \in 1 .. Len(s) : IsByteOf(s[i], b) /\ s[i].at = m1 + i
            /\ \/ m1 = 0 /\ Len(s) = Len(buffered[b]) /\ counted'[b]["up"] = counted[b]["up"]
               \/ m1 >= Len(buffered[b]) /\ counted'[b]["up"] = counted[b]["up"] + n
            /\ \A a \in Client \ {b} : counted'[a]["up"] = counted[a]["up"]
        BY <3>9 DEF BytesArrive
      <4>2. Len(s) \in Nat /\ \A i \in 1 .. n : IsByteOf(s[i], b) /\ s[i].at = m1 + i /\ i <= Len(s)
        <5>1. Len(s) \in Nat /\ n \in 0 .. Len(s)
          BY <3>5, <4>1
        <5>2. QED
          BY <4>1, <5>1
      <4>3. CASE b # c
        <5>1. Ignored(s, n, c, m)
          BY <4>2, <4>3 DEF IsByteOf, Ignored
        <5>2. QED
          BY <3>3, <3>6, <4>1, <4>3, <5>1
      <4>4. CASE b = c /\ m1 = 0 /\ Len(s) = m /\ counted'[c]["up"] = counted[c]["up"]
        <5>1. Ignored(s, n, c, m)
          BY <4>2, <4>4 DEF Ignored
        <5>2. QED
          BY <3>3, <3>6, <4>1, <4>4, <5>1
      <4>5. CASE b = c /\ m1 >= m /\ counted'[c]["up"] = counted[c]["up"] + n
        <5>1. Counting(s, n, c, m)
          BY <4>2, <4>5 DEF Counting
        <5>2. Above(m, Positions(c, t)) = Above(m, Positions(c, r)) + n
          BY <3>7, <4>1, <5>1
        <5>3. QED
          BY <3>3, <4>5, <5>2
      <4>6. QED
        BY <3>1, <4>1, <4>3, <4>4, <4>5
    <3>10. counted'[c]["up"] = Above(m, Positions(c, t))
      BY <3>1, <3>3, <3>4, <3>8, <3>9, DeviceGets
    <3>11. QED
      BY <3>3, <3>10
  <2>5. QED
    BY <1>2, <2>3, <2>4
<1>6. QED
  BY <1>4, <1>5


\* Positions is a sequence as long as what it is taken of.
LEMMA PositionsSeq ==
    ASSUME NEW p, NEW s \in Seq(Cell)
    PROVE  /\ Positions(p, s) \in Seq(Nat) /\ Len(Positions(p, s)) = Len(s)
           /\ \A i \in 1 .. Len(s) :
                 Positions(p, s)[i] = IF IsByteOf(s[i], p) THEN s[i].at ELSE 0
<1>1. Len(s) \in Nat /\ \A i \in 1 .. Len(s) : s[i].at \in Nat
  <2>1. \A i \in 1 .. Len(s) : s[i] \in Cell
    OBVIOUS
  <2>2. QED
    BY <2>1 DEF Cell
<1>2. \A i \in 1 .. Len(s) : (IF IsByteOf(s[i], p) THEN s[i].at ELSE 0) \in Nat
  BY <1>1
<1>3. QED
  BY <1>1, <1>2 DEF Positions

(***************************************************************************)
(* The theorems.                                                           *)
(***************************************************************************)

\* The types are kept, and with them the bound on what a peer sends.
LEMMA TypeStep ==
    ASSUME TypeOK, SP!IInv, SP!IInv', ByteInv, UnreadIs', BufferedIs', [Next]_vars
    PROVE  TypeOK'
<1>1. S!TypeOK'
  <2>1. SP!TypeOK'
    BY DEF SP!IInv
  <2>2. QED
    BY <2>1
       DEF S!TypeOK, SP!TypeOK, S!ConnState, SP!ConnState, S!Phase, SP!Phase, S!Marked,
           SP!Marked, S!Leaving, SP!Leaving, S!Held, SP!Held, S!Direction, SP!Direction
<1>2. ByteTypes'
  BY EffectCases
<1>3. \A p \in Peer : sent'[p] <= MaxSent[p]
  <2>1. ASSUME NEW p \in Peer PROVE sent[p] \in Nat /\ MaxSent[p] \in Nat /\ sent[p] <= MaxSent[p]
    BY Types, BridgeAssumption DEF BridgeAssumption, TypeOK
  <2>2. ASSUME sent' = sent PROVE \A p \in Peer : sent'[p] <= MaxSent[p]
    BY <2>1, <2>2
  <2>3. ASSUME NEW q \in Peer, SendsEffect(q) PROVE \A p \in Peer : sent'[p] <= MaxSent[p]
    BY <2>1, <2>3, Types DEF SendsEffect
  <2>4. Quiet => sent' = sent
    BY DEF Quiet
  <2>5. ASSUME NEW c \in Client, NEW n \in Nat
        PROVE  DialEffect(c, n) \/ ReplyEffect(c) => sent' = sent
    BY DEF DialEffect, ReplyEffect
  <2>6. ASSUME NEW c \in Client, NEW s \in Seq(Cell), NEW n \in Nat
        PROVE  ForwardEffect(c, s, n) => sent' = sent
    BY DEF ForwardEffect
  <2>7. ASSUME NEW c \in Client, NEW dir \in {"up", "down"}, NEW n \in Nat
        PROVE  CopyEffect(c, dir, n) \/ CarryEffect(c, dir, n) => sent' = sent
    BY DEF CopyEffect, CarryEffect
  <2>8. ASSUME NEW d \in Dev, NEW n \in Nat PROVE TakesEffect(d, n) => sent' = sent
    BY DEF TakesEffect
  <2>9. QED
    BY <2>2, <2>3, <2>4, <2>5, <2>6, <2>7, <2>8, EffectCases
<1>4. \A p \in Peer : Len(unread'[p]) <= sent'[p]
  BY DEF UnreadIs
<1>5. ASSUME NEW c \in Client PROVE Len(buffered'[c]) <= sent'[c]
  <2>1. /\ c \in Peer /\ Len(unread'[c]) \in Nat /\ sent'[c] \in Nat /\ Len(buffered'[c]) \in Nat
    BY <1>2 DEF ByteTypes, Peer
  <2>2. Len(buffered'[c]) <= Read(c)'
    BY DEF BufferedIs
  <2>3. QED
    BY <2>1, <2>2 DEF Read
<1>6. QED
  BY <1>1, <1>2, <1>3, <1>4, <1>5 DEF TypeOK, ByteTypes, S!Direction

\* The bytes start right.
LEMMA InvInit == Init => ByteInv /\ UpCover /\ CountsCarried /\ Unassigned
<1> SUFFICES ASSUME Init PROVE ByteInv /\ UpCover /\ CountsCarried /\ Unassigned
  OBVIOUS
<1>1. /\ \A p \in Peer : unread[p] = <<>> /\ received[p] = <<>> /\ sent[p] = 0
      /\ \A c \in Client :
            /\ buffered[c] = <<>> /\ forward[c] = "presets" /\ cpc[c] = "idle"
            /\ copying[c] = {} /\ dev[c] = None
            /\ \A dir \in {"up", "down"} : held[c][dir] = <<>> /\ counted[c][dir] = 0
            /\ c \in Peer
      /\ \A d \in Dev : d \in Peer
  BY DEF Init, S!Init, S!Direction, Peer
<1>2. \A p \in Peer : Read(p) = 0 /\ Len(unread[p]) = 0
  BY <1>1 DEF Read
<1>3. UnreadIs
  BY <1>1, <1>2 DEF UnreadIs
<1>4. BufferedIs
  BY <1>1, <1>2 DEF BufferedIs
<1>5. HeldCopying /\ UpHeld /\ DownHeld
  <2>1. HeldCopying
    BY <1>1 DEF HeldCopying, S!Direction
  <2>2. ASSUME NEW c \in Client
        PROVE  Len(buffered[c]) = 0 /\ Len(held[c]["up"]) = 0 /\ Len(held[c]["down"]) = 0
               /\ Read(c) = 0
    BY <1>1, <1>2
  <2>3. ASSUME NEW c \in Client
        PROVE  /\ Len(buffered[c]) + Len(held[c]["up"]) <= Read(c)
               /\ 1 .. Len(held[c]["up"]) = {} /\ 1 .. Len(held[c]["down"]) = {}
    <3>1. 1 .. 0 = {} /\ 0 + 0 <= 0
      OBVIOUS
    <3>2. QED
      BY <2>2, <3>1
  <2>4. UpHeld /\ DownHeld
    BY <2>3 DEF UpHeld, DownHeld
  <2>5. QED
    BY <2>1, <2>4
<1>6. Handshaken
  BY <1>1 DEF Handshaken
<1>7. AtDevice /\ AtClient /\ HandshakeFirst
  BY <1>1 DEF AtDevice, AtClient, HandshakeFirst
<1>8. UpCover
  BY <1>1 DEF UpCover
<1>9. CountsCarried
  <2>1. \A m \in Nat : Above(m, <<>>) = 0
    BY AboveEmpty
  <2>2. QED
    BY <1>1, <2>1 DEF CountsCarried, GotUp, GotDown
<1>10. Unassigned
  BY <1>1 DEF Unassigned
<1>11. QED
  BY <1>3, <1>4, <1>5, <1>6, <1>7, <1>8, <1>9, <1>10 DEF ByteInv

\* Every step keeps the invariant.
LEMMA InvStep ==
    ASSUME TypeOK, SP!IInv, SP!IInv', ByteInv, UpCover, CountsCarried,
           Unassigned, [Next]_vars
    PROVE  IInv'
<1>1. UnreadIs'
  BY UnreadStep DEF ByteInv
<1>2. BufferedIs'
  BY BufferedStep DEF ByteInv
<1>3. HeldCopying' /\ UpHeld' /\ DownHeld'
  BY <1>2, HeldStep
<1>4. Handshaken'
  BY HandshakenStep DEF ByteInv
<1>5. AtDevice' /\ AtClient' /\ HandshakeFirst'
  BY AtDeviceStep, AtClientStep, HandshakeFirstStep
<1>6. UpCover'
  BY UpCoverStep
<1>7. TypeOK'
  BY <1>1, <1>2, TypeStep
<1>8. CountsCarried'
  <2>1. ASSUME NEW c \in Client PROVE counted'[c]["down"] = Above(0, GotDown(c)')
    BY CountsDownStep DEF CountsCarried
  <2>2. ASSUME NEW c \in Client
        PROVE  counted'[c]["up"] = Above(Len(buffered'[c]), GotUp(c)')
    BY CountsUpStep DEF CountsCarried
  <2>3. QED
    BY <2>1, <2>2 DEF CountsCarried, Above
<1>9. Unassigned'
  BY HandlersOnward DEF Unassigned, SP!Onward
<1>10. QED
  BY <1>1, <1>2, <1>3, <1>4, <1>5, <1>6, <1>7, <1>8, <1>9 DEF IInv, ByteInv

\* The invariant holds in every reachable state.
THEOREM Invariant == Spec => []IInv
<1>1. Init /\ SP!IInv => IInv
  <2>1. ASSUME Init, SP!IInv PROVE TypeOK
    <3>1. S!TypeOK
      BY <2>1, SameSessions DEF SP!IInv
    <3>2. \A T : <<>> \in Seq(T)
      BY EmptySeq
    <3>3. /\ sent \in [Peer -> Nat] /\ unread \in [Peer -> Seq(Cell)]
          /\ received \in [Peer -> Seq(Cell)] /\ buffered \in [Client -> Seq(Cell)]
          /\ forward \in [Client -> {"presets", "buffered", "nothing"}]
          /\ since \in [Client -> Nat]
          /\ held \in [Client -> [S!Direction -> Seq(Cell)]]
          /\ counted \in [Client -> [S!Direction -> Nat]]
      BY <2>1, <3>2 DEF Init
    <3>4. /\ \A p \in Peer : sent[p] <= MaxSent[p] /\ Len(unread[p]) <= sent[p]
          /\ \A c \in Client : Len(buffered[c]) <= sent[c]
      BY <2>1, BridgeAssumption DEF Init, BridgeAssumption, Peer
    <3>5. QED
      BY <3>1, <3>3, <3>4 DEF TypeOK
  <2>2. QED
    BY <2>1, InvInit DEF IInv
<1>2. IInv /\ SP!IInv' /\ [Next]_vars => IInv'
  BY InvStep DEF IInv
<1>3. QED
  BY <1>1, <1>2, SessionsInvariant, PTL DEF Spec

\* The types of the variables: what is unread or buffered is no more than was sent,
\* and what is sent keeps its bound.
THEOREM TypeCorrect == Spec => []TypeOK
<1>1. IInv => TypeOK
  BY DEF IInv
<1>2. QED
  BY <1>1, Invariant, PTL


\* What the copy holds and what is unread, one behind the other.
LEMMA Coming ==
    ASSUME NEW c \in Client, NEW h \in Seq(Cell), NEW u \in Seq(Cell), NEW q \in Int,
           \A i \in 1 .. Len(h) : IsByteOf(h[i], c) /\ h[i].at = q + i,
           \A i \in 1 .. Len(u) : IsByteOf(u[i], c) /\ u[i].at = q + Len(h) + i
    PROVE  Positions(c, h \o u) = [i \in 1 .. Len(h \o u) |-> q + i]
<1>1. PICK l \in Nat, m \in Nat : l = Len(h) /\ m = Len(u)
  OBVIOUS
<1>2. /\ Len(h \o u) = l + m
      /\ \A i \in 1 .. l + m : (h \o u)[i] = IF i <= l THEN h[i] ELSE u[i - l]
  BY <1>1, ConcatProperties
<1>3. ASSUME NEW i \in 1 .. l + m
      PROVE  IsByteOf((h \o u)[i], c) /\ (h \o u)[i].at = q + i
  <2>1. CASE i <= l
    <3>1. (h \o u)[i] = h[i] /\ i \in 1 .. l
      BY <1>2, <2>1
    <3>2. QED
      BY <1>1, <3>1
  <2>2. CASE i > l
    <3>1. PICK j \in 1 .. m : j = i - l
      BY <2>2
    <3>2. IsByteOf(u[j], c) /\ u[j].at = q + l + j
      BY <1>1
    <3>3. (h \o u)[i] = u[j]
      BY <1>2, <2>2, <3>1
    <3>4. q + l + j = q + i
      BY <3>1
    <3>5. QED
      BY <3>2, <3>3, <3>4
  <2>3. i <= l \/ i > l
    OBVIOUS
  <2>4. QED
    BY <2>1, <2>2, <2>3
<1>4. QED
  BY <1>2, <1>3 DEF Positions

\* Of what the client has sent, everything but that has passed.
LEMMA ComingRest ==
    ASSUME TypeOK, NEW c \in Client
    PROVE  sent[c] - Len(held[c]["up"] \o unread[c]) = Passed(c) /\ Passed(c) \in Int
<1>1. PICK h \in Seq(Cell), u \in Seq(Cell), k \in Nat :
        h = held[c]["up"] /\ u = unread[c] /\ k = sent[c]
  BY Types DEF Peer
<1>2. PICK l \in Nat, m \in Nat : l = Len(h) /\ m = Len(u)
  OBVIOUS
<1>3. Len(h \o u) = l + m
  BY <1>2, ConcatProperties
<1>4. k - (l + m) = (k - m) - l /\ (k - m) - l \in Int
  OBVIOUS
<1>5. Passed(c) = (k - m) - l
  BY <1>1, <1>2 DEF Passed, Read
<1>6. QED
  BY <1>1, <1>3, <1>4, <1>5

\* From the client to the device nothing is lost between handleClient's bufio.Reader,
\* copyWithActivity's buf and the connection while the device is connected and no
\* keepalive sets write deadlines, except for what is pipelined behind a USR-VCOM packet.
THEOREM NothingLostUp == Spec => []UpKept
<1>1. IInv => UpKept
  <2> SUFFICES ASSUME IInv, NEW c \in Client, cpc[c] = "run", "up" \in copying[c],
                      conn[dev[c]] = "open", ~KeepaliveOn
               PROVE  LET coming == held[c]["up"] \o unread[c]
                          carried == sent[c] - Len(coming)
                      IN  /\ \A k \in Dropped(c) + 1 .. carried :
                                \E i \in 1 .. Len(GotUp(c)) : GotUp(c)[i] = k
                          /\ Positions(c, coming) = [i \in 1 .. Len(coming) |-> carried + i]
    BY DEF UpKept
  <2>1. TypeOK /\ forward[c] = "nothing" /\ c \in Peer
    BY DEF IInv, ByteInv, Handshaken, Peer
  <2>2. PICK r \in Seq(Cell) : r = received[dev[c]] /\ dev[c] # None
    <3>1. dev[c] \in Dev /\ dev[c] # None
      BY BridgeAssumption, Types
         DEF IInv, BridgeAssumption, S!SessionsAssumption, S!Held, S!Marked, S!Leaving
    <3>2. QED
      BY <2>1, <3>1, Types DEF Peer
  <2>3. sent[c] - Len(held[c]["up"] \o unread[c]) = Passed(c) /\ Passed(c) \in Int
    BY <2>1, ComingRest
  <2>4. ASSUME NEW k \in Dropped(c) + 1 .. Passed(c)
        PROVE  \E i \in 1 .. Len(GotUp(c)) : GotUp(c)[i] = k
    <3>1. PICK i \in 1 .. Len(r) : IsByteOf(r[i], c) /\ r[i].at = k
      BY <2>1, <2>2 DEF IInv, UpCover, Passed
    <3>2. GotUp(c) = Positions(c, r)
      BY <2>2 DEF GotUp
    <3>3. i \in 1 .. Len(Positions(c, r)) /\ Positions(c, r)[i] = k
      BY <3>1, PositionsSeq
    <3>4. QED
      BY <3>2, <3>3
  <2>5. Positions(c, held[c]["up"] \o unread[c])
        = [i \in 1 .. Len(held[c]["up"] \o unread[c]) |-> Passed(c) + i]
    <3>1. PICK h \in Seq(Cell), u \in Seq(Cell), l \in Nat, q \in Int, x \in Int :
            h = held[c]["up"] /\ u = unread[c] /\ l = Len(h) /\ q = Passed(c) /\ x = Read(c)
      <4>1. /\ held[c]["up"] \in Seq(Cell) /\ unread[c] \in Seq(Cell) /\ sent[c] \in Nat
        BY <2>1, Types
      <4>2. Len(held[c]["up"]) \in Nat /\ Len(unread[c]) \in Nat
        BY <4>1
      <4>3. Read(c) \in Int
        BY <4>1, <4>2 DEF Read
      <4>4. QED
        BY <2>3, <4>1, <4>2, <4>3
    <3>2. x = q + l
      BY <3>1 DEF Passed
    <3>3. \A i \in 1 .. Len(h) : IsByteOf(h[i], c) /\ h[i].at = x - l + i
      BY <3>1 DEF IInv, ByteInv, UpHeld
    <3>4. \A i \in 1 .. Len(h) : IsByteOf(h[i], c) /\ h[i].at = q + i
      BY <3>2, <3>3
    <3>5. \A i \in 1 .. Len(u) : IsByteOf(u[i], c) /\ u[i].at = x + i
      BY <2>1, <3>1 DEF IInv, ByteInv, UnreadIs
    <3>6. \A i \in 1 .. Len(u) : IsByteOf(u[i], c) /\ u[i].at = q + Len(h) + i
      BY <3>1, <3>2, <3>5
    <3>7. Positions(c, h \o u) = [i \in 1 .. Len(h \o u) |-> q + i]
      BY <3>4, <3>6, Coming
    <3>8. QED
      BY <3>1, <3>7
  <2>6. QED
    BY <2>3, <2>4, <2>5
<1>2. QED
  BY <1>1, Invariant, PTL

\* A client's first word from the proxy is the reply to its AT command, and its port
\* settings are at the device before its bytes (handleClient 453-482).
THEOREM HandshakeOrder == Spec => []HandshakeFirst
<1>1. IInv => HandshakeFirst
  BY DEF IInv, ByteInv
<1>2. QED
  BY <1>1, Invariant, PTL

\* BytesIn and BytesOut are what was carried, whatever fails (copyWithActivity).
THEOREM CountsTrue == Spec => []CountsCarried
<1>1. IInv => CountsCarried
  BY DEF IInv
<1>2. QED
  BY <1>1, Invariant, PTL

(***************************************************************************)
(* In both directions a session is a pipe.                                 *)
(***************************************************************************)

\* A sequence of the right length with the right elements is the concatenation.
LEMMA Joined ==
    ASSUME NEW T, NEW g \in Seq(T), NEW f \in Seq(T), NEW t \in Seq(T),
           Len(t) = Len(g) + Len(f),
           \A i \in 1 .. Len(g) : t[i] = g[i],
           \A i \in 1 .. Len(f) : t[Len(g) + i] = f[i]
    PROVE  t = g \o f
<1>1. PICK l \in Nat, m \in Nat : l = Len(g) /\ m = Len(f)
  OBVIOUS
<1>2. /\ g \o f \in Seq(T) /\ Len(g \o f) = l + m
      /\ \A i \in 1 .. l + m : (g \o f)[i] = IF i <= l THEN g[i] ELSE f[i - l]
  BY <1>1, ConcatProperties
<1>3. ASSUME NEW i \in 1 .. l + m PROVE t[i] = (g \o f)[i]
  <2>1. CASE i <= l
    BY <1>1, <1>2, <2>1
  <2>2. CASE i > l
    <3>1. PICK j \in 1 .. m : j = i - l /\ i = l + j
      BY <2>2
    <3>2. t[l + j] = f[j]
      BY <1>1
    <3>3. (g \o f)[i] = f[j]
      BY <1>2, <2>2, <3>1
    <3>4. QED
      BY <3>1, <3>2, <3>3
  <2>3. i <= l \/ i > l
    OBVIOUS
  <2>4. QED
    BY <2>1, <2>2, <2>3
<1>4. Len(t) = l + m
  BY <1>1
<1>5. QED
  BY <1>2, <1>3, <1>4, SeqEqual

\* A function on 1 .. n is a sequence.
LEMMA FunctionSeq ==
    ASSUME NEW n \in Nat, NEW f \in [1 .. n -> Nat]
    PROVE  f \in Seq(Nat) /\ Len(f) = n
  OBVIOUS

\* f is the positions, in what p has sent, of the first n elements of s.
Places(f, s, n, p) ==
    /\ Len(f) = n
    /\ \A i \in 1 .. n : f[i] = IF IsByteOf(s[i], p) THEN s[i].at ELSE 0

\* What arrives is appended, position by position.
LEMMA Appended ==
    ASSUME NEW p, NEW r \in Seq(Cell), NEW t \in Seq(Cell), NEW s \in Seq(Cell),
           NEW n \in Nat, Extends(t, r, s, n), NEW f \in Seq(Nat), Places(f, s, n, p)
    PROVE  Positions(p, t) = Positions(p, r) \o f
<1>1. PICK l \in Nat, k \in Nat : l = Len(r) /\ k = Len(t) /\ k = l + n
  <2>1. Len(t) = Len(r) + n
    BY DEF Extends
  <2>2. QED
    BY <2>1
<1>2. (\A i \in 1 .. l : t[i] = r[i]) /\ (\A i \in 1 .. n : t[l + i] = s[i])
  BY <1>1 DEF Extends
<1>3. PICK g \in Seq(Nat) :
        /\ g = Positions(p, r) /\ Len(g) = l
        /\ \A i \in 1 .. l : g[i] = IF IsByteOf(r[i], p) THEN r[i].at ELSE 0
  BY <1>1, PositionsSeq
<1>4. PICK h \in Seq(Nat) :
        /\ h = Positions(p, t) /\ Len(h) = k
        /\ \A i \in 1 .. k : h[i] = IF IsByteOf(t[i], p) THEN t[i].at ELSE 0
  <2>1. /\ Positions(p, t) \in Seq(Nat) /\ Len(Positions(p, t)) = Len(t)
        /\ \A i \in 1 .. Len(t) :
              Positions(p, t)[i] = IF IsByteOf(t[i], p) THEN t[i].at ELSE 0
    BY PositionsSeq
  <2>2. QED
    BY <1>1, <2>1
<1>5. ASSUME NEW i \in 1 .. l PROVE h[i] = g[i]
  <2>1. i \in 1 .. k
    BY <1>1
  <2>2. QED
    BY <1>2, <1>3, <1>4, <2>1
<1>6. ASSUME NEW i \in 1 .. n PROVE h[l + i] = f[i]
  <2>1. l + i \in 1 .. k
    BY <1>1
  <2>2. t[l + i] = s[i]
    BY <1>2
  <2>3. QED
    BY <1>4, <2>1, <2>2 DEF Places
<1>7. /\ Len(h) = Len(g) + Len(f) /\ \A i \in 1 .. Len(g) : h[i] = g[i]
      /\ \A i \in 1 .. Len(f) : h[Len(g) + i] = f[i]
  BY <1>1, <1>3, <1>4, <1>5, <1>6 DEF Places
<1>8. h = g \o f
  BY <1>7, Joined
<1>9. QED
  BY <1>3, <1>4, <1>8

\* What a run of n bytes of others leaves, and one of the sender's bytes from first on.
Zeros(n) == [i \in 1 .. n |-> 0]
Run(first, n) == [i \in 1 .. n |-> first + i - 1]

\* None of the first n elements of s is a byte of p, or they are a run of p's bytes.
NoneOf(s, n, p) == \A i \in 1 .. n : ~IsByteOf(s[i], p)
RunOf(s, n, p, first) == \A i \in 1 .. n : IsByteOf(s[i], p) /\ s[i].at = first + i - 1

\* Where nothing arrives, nothing is appended.
LEMMA NothingArrives ==
    ASSUME NEW g \in Seq(Nat)
    PROVE  0 \in 0 .. Len(g) /\ g = g \o Zeros(0)
<1>1. Zeros(0) = <<>>
  BY DEF Zeros
<1>2. QED
  BY <1>1, ConcatEmptySeq

\* What arrives of others leaves zeros.
LEMMA ZerosArrive ==
    ASSUME NEW p, NEW r \in Seq(Cell), NEW t \in Seq(Cell), NEW s \in Seq(Cell),
           NEW n \in Nat, Extends(t, r, s, n), NoneOf(s, n, p)
    PROVE  /\ n \in 0 .. Len(Positions(p, t))
           /\ Positions(p, t) = Positions(p, r) \o Zeros(n)
<1>1. PICK f \in [1 .. n -> Nat] : f = Zeros(n) /\ \A i \in 1 .. n : f[i] = 0
  <2>1. Zeros(n) \in [1 .. n -> Nat] /\ \A i \in 1 .. n : Zeros(n)[i] = 0
    BY DEF Zeros
  <2>2. QED
    BY <2>1
<1>2. Positions(p, t) = Positions(p, r) \o f
  <2>1. f \in Seq(Nat) /\ Len(f) = n
    BY FunctionSeq
  <2>2. Places(f, s, n, p)
    BY <1>1, <2>1 DEF Places, NoneOf
  <2>3. ASSUME NEW e \in Seq(Nat), Places(e, s, n, p)
        PROVE  Positions(p, t) = Positions(p, r) \o e
    BY <2>3, Appended
  <2>4. QED
    BY <2>1, <2>2, <2>3
<1>3. n \in 0 .. Len(t)
  <2>1. Len(t) = Len(r) + n
    BY DEF Extends
  <2>2. QED
    BY <2>1
<1>4. QED
  BY <1>1, <1>2, <1>3, PositionsSeq

\* What arrives of p leaves the positions that follow each other.
LEMMA RunArrives ==
    ASSUME NEW p, NEW r \in Seq(Cell), NEW t \in Seq(Cell), NEW s \in Seq(Cell),
           NEW n \in Nat, NEW first \in Nat \ {0}, Extends(t, r, s, n), RunOf(s, n, p, first)
    PROVE  Positions(p, t) = Positions(p, r) \o Run(first, n)
<1>1. \A i \in 1 .. n : first + i - 1 \in Nat
  OBVIOUS
<1>2. PICK f \in [1 .. n -> Nat] : f = Run(first, n) /\ \A i \in 1 .. n : f[i] = first + i - 1
  <2>1. /\ Run(first, n) \in [1 .. n -> Nat]
        /\ \A i \in 1 .. n : Run(first, n)[i] = first + i - 1
    BY <1>1 DEF Run
  <2>2. QED
    BY <2>1
<1>3. f \in Seq(Nat) /\ Len(f) = n
  BY FunctionSeq
<1>4. Places(f, s, n, p)
  BY <1>2, <1>3 DEF Places, RunOf
<1>5. Positions(p, t) = Positions(p, r) \o f
  <2>1. ASSUME NEW e \in Seq(Nat), Places(e, s, n, p)
        PROVE  Positions(p, t) = Positions(p, r) \o e
    BY <2>1, Appended
  <2>2. QED
    BY <1>3, <1>4, <2>1
<1>6. QED
  BY <1>2, <1>5


\* Nothing of the client arrives: a step of the pipe.
LEMMA UpOthers ==
    ASSUME NEW c \in Client, sent'[c] >= sent[c], NEW n \in 0 .. Len(GotUp(c)'),
           GotUp(c)' = GotUp(c) \o Zeros(n)
    PROVE  Up!Others(c)
  BY DEF Up!Others, Zeros

\* A run of the client's bytes arrives: a step of the pipe.
LEMMA UpDelivers ==
    ASSUME NEW c \in Client, sent'[c] = sent[c], NEW first \in 1 .. sent[c],
           \A i \in 1 .. Len(GotUp(c)) : GotUp(c)[i] < first,
           NEW n \in 1 .. sent[c] - first + 1,
           GotUp(c)' = GotUp(c) \o Run(first, n)
    PROVE  Up!Delivers(c)
  BY DEF Up!Delivers, Run

\* What a peer has sent grows.
LEMMA SentGrows ==
    ASSUME TypeOK, SP!IInv, [Next]_vars, NEW p \in Peer
    PROVE  sent[p] \in Nat /\ sent'[p] \in Nat /\ sent'[p] >= sent[p]
<1>1. sent \in [Peer -> Nat] /\ sent' \in [Peer -> Nat]
  BY Types, EffectCases DEF ByteTypes
<1>2. ASSUME sent' = sent PROVE sent'[p] >= sent[p]
  BY <1>1, <1>2
<1>3. ASSUME NEW q \in Peer, SendsEffect(q) PROVE sent'[p] >= sent[p]
  BY <1>1, <1>3 DEF SendsEffect
<1>4. Quiet => sent' = sent
  BY DEF Quiet
<1>5. ASSUME NEW c \in Client, NEW n \in Nat
      PROVE  DialEffect(c, n) \/ ReplyEffect(c) => sent' = sent
  BY DEF DialEffect, ReplyEffect
<1>6. ASSUME NEW c \in Client, NEW s \in Seq(Cell), NEW n \in Nat
      PROVE  ForwardEffect(c, s, n) => sent' = sent
  BY DEF ForwardEffect
<1>7. ASSUME NEW c \in Client, NEW dir \in {"up", "down"}, NEW n \in Nat
      PROVE  CopyEffect(c, dir, n) \/ CarryEffect(c, dir, n) => sent' = sent
  BY DEF CopyEffect, CarryEffect
<1>8. ASSUME NEW d \in Dev, NEW n \in Nat PROVE TakesEffect(d, n) => sent' = sent
  BY DEF TakesEffect
<1>9. QED
  BY <1>1, <1>2, <1>3, <1>4, <1>5, <1>6, <1>7, <1>8, EffectCases

\* While a client has its device, what arrives there is a step of the pipe.
LEMMA UpArrives ==
    ASSUME IInv, IInv', [Next]_vars, NEW c \in Client, NEW d \in Dev, dev[c] = d, dev'[c] = d
    PROVE  Up!Others(c) \/ Up!Delivers(c)
<1>1. PICK r \in Seq(Cell), t \in Seq(Cell) : r = received[d] /\ t = received'[d]
  <2>1. received \in [Peer -> Seq(Cell)] /\ received' \in [Peer -> Seq(Cell)] /\ d \in Peer
    BY DEF IInv, TypeOK, Peer
  <2>2. QED
    BY <2>1
<1>2. GotUp(c) = Positions(c, r) /\ GotUp(c)' = Positions(c, t)
  <2>1. d # None
    BY BridgeAssumption DEF BridgeAssumption, S!SessionsAssumption
  <2>2. QED
    BY <1>1, <2>1 DEF GotUp
<1>3. sent[c] \in Nat /\ sent'[c] \in Nat /\ sent'[c] >= sent[c]
  BY SentGrows DEF IInv, Peer
<1>4. Positions(c, r) \in Seq(Nat) /\ Positions(c, t) \in Seq(Nat)
  BY PositionsSeq
<1>5. ASSUME t = r PROVE Up!Others(c)
  <2>1. /\ 0 \in 0 .. Len(Positions(c, t))
        /\ Positions(c, t) = Positions(c, r) \o Zeros(0)
    BY <1>4, <1>5, NothingArrives
  <2>2. QED
    BY <1>2, <1>3, <2>1, UpOthers
<1>6. ASSUME NEW s \in Seq(Cell), NEW n \in Nat, Writes(d, s, n), NoneOf(s, n, c)
      PROVE  Up!Others(c)
  <2>1. Extends(t, r, s, n)
    BY <1>1, <1>6 DEF Writes, Extends
  <2>2. n \in 0 .. Len(Positions(c, t)) /\ Positions(c, t) = Positions(c, r) \o Zeros(n)
    BY <1>6, <2>1, ZerosArrive
  <2>3. QED
    BY <1>2, <1>3, <2>2, UpOthers
<1>7. ASSUME NEW b \in Client, NEW s \in Seq(Cell), NEW n \in Nat, PresetArrives(b, d, s, n)
      PROVE  Up!Others(c)
  <2>1. Writes(d, s, n) /\ \A i \in 1 .. Len(s) : s[i] = Own("preset", b)
    BY <1>7 DEF PresetArrives
  <2>2. \A i \in 1 .. n : s[i] = Own("preset", b)
    BY <2>1 DEF Writes
  <2>3. QED
    BY <1>6, <2>1, <2>2 DEF Own, Byte, IsByteOf, NoneOf
<1>8. ASSUME NEW b \in Client, NEW s \in Seq(Cell), NEW n \in Nat, NEW m \in Nat,
             BytesArrive(b, d, s, n, m)
      PROVE  Up!Others(c) \/ Up!Delivers(c)
  <2>1. /\ Writes(d, s, n) /\ sent' = sent
        /\ \A i \in 1 .. Len(s) : IsByteOf(s[i], b) /\ s[i].at = m + i
        /\ m + Len(s) <= Passed(b)'
        /\ \A j \in 1 .. Len(r) : IsByteOf(r[j], b) => r[j].at <= m
    BY <1>1, <1>8 DEF BytesArrive
  <2>2. PICK l \in Nat : l = Len(s) /\ n \in 0 .. l
    BY <2>1 DEF Writes
  <2>3. \A i \in 1 .. n : IsByteOf(s[i], b) /\ s[i].at = m + i
    BY <2>1, <2>2
  <2>4. CASE b # c
    BY <1>6, <2>1, <2>3, <2>4 DEF IsByteOf, NoneOf
  <2>5. CASE n = 0
    <3>1. NoneOf(s, n, c)
      BY <2>5 DEF NoneOf
    <3>2. QED
      BY <1>6, <2>1, <3>1
  <2>6. CASE b = c /\ n > 0
    <3>1. Extends(t, r, s, n)
      BY <1>1, <2>1 DEF Writes, Extends
    <3>2. PICK first \in Nat \ {0} : first = m + 1
      OBVIOUS
    <3>3. RunOf(s, n, c, first)
      <4>1. ASSUME NEW i \in 1 .. n PROVE IsByteOf(s[i], c) /\ s[i].at = first + i - 1
        <5>1. IsByteOf(s[i], c) /\ s[i].at = m + i
          BY <2>3, <2>6
        <5>2. m + i = first + i - 1
          BY <3>2
        <5>3. QED
          BY <5>1, <5>2
      <4>2. QED
        BY <4>1 DEF RunOf
    <3>4. Positions(c, t) = Positions(c, r) \o Run(first, n)
      BY <3>1, <3>3, RunArrives
    <3>5. \A i \in 1 .. Len(Positions(c, r)) : Positions(c, r)[i] < first
      <4>1. ASSUME NEW i \in 1 .. Len(r) PROVE Positions(c, r)[i] < first
        <5>1. Positions(c, r)[i] = IF IsByteOf(r[i], c) THEN r[i].at ELSE 0
          BY PositionsSeq
        <5>2. r[i].at \in Nat
          <6>1. r[i] \in Cell
            OBVIOUS
          <6>2. QED
            BY <6>1 DEF Cell
        <5>3. IsByteOf(r[i], c) => r[i].at <= m
          BY <2>1, <2>6
        <5>4. QED
          BY <3>2, <5>1, <5>2, <5>3
      <4>2. QED
        BY <4>1, PositionsSeq
    <3>6. PICK p \in Nat, k \in Nat : p = Passed(c)' /\ k = sent[c] /\ m + l <= p /\ p <= k
      <4>1. Passed(c)' \in Nat /\ Passed(c)' <= Read(c)'
        BY PassedGrows DEF IInv
      <4>2. Len(unread'[c]) \in Nat
        <5>1. unread' \in [Peer -> Seq(Cell)] /\ c \in Peer
          BY DEF IInv, TypeOK, Peer
        <5>2. QED
          BY <5>1
      <4>3. Read(c)' = sent[c] - Len(unread'[c])
        BY <2>1 DEF Read
      <4>4. m + l <= Passed(c)'
        BY <2>1, <2>2, <2>6
      <4>5. Passed(c)' <= sent[c]
        BY <1>3, <4>1, <4>2, <4>3
      <4>6. QED
        BY <1>3, <4>1, <4>4, <4>5
    <3>7. first \in 1 .. k /\ n \in 1 .. k - first + 1
      BY <2>2, <2>6, <3>2, <3>6
    <3>8. first \in 1 .. sent[c] /\ n \in 1 .. sent[c] - first + 1 /\ sent'[c] = sent[c]
      BY <2>1, <3>6, <3>7
    <3>9. Up!Delivers(c)
      BY <1>2, <3>4, <3>5, <3>8, UpDelivers
    <3>10. QED
      BY <3>9
  <2>7. QED
    BY <2>2, <2>4, <2>5, <2>6
<1>9. QED
  BY <1>1, <1>5, <1>7, <1>8, DeviceGets DEF IInv


\* Until the lookup a client has no device, and no device has a byte of it.
LEMMA DeviceChanges ==
    ASSUME IInv, IInv', [Next]_vars, NEW c \in Client, dev'[c] # dev[c]
    PROVE  /\ dev[c] = None /\ cpc[c] = "lookUp" /\ forward'[c] # "nothing"
           /\ received[c] = <<>> /\ received'[c] = <<>>
<1>1. cpc[c] = "lookUp"
  BY HandlersOnward DEF IInv, SP!Onward
<1>2. dev[c] = None
  BY <1>1 DEF IInv, Unassigned
<1>3. forward[c] = "presets" /\ received[c] = <<>>
  BY <1>1 DEF IInv, ByteInv, Handshaken, SP!Early
<1>4. forward'[c] # "nothing"
  <2>1. forward'[c] = forward[c] \/ cpc[c] = "bridge"
    BY ForwardBy DEF ForwardEffect, IInv
  <2>2. QED
    BY <1>1, <1>3, <2>1
<1>5. ~ReplyEffect(c)
  BY <1>1 DEF ReplyEffect
<1>6. ASSUME NEW n \in Nat, CarryEffect(c, "down", n) PROVE FALSE
  BY <1>3, <1>6 DEF CarryEffect, IInv, ByteInv, Handshaken
<1>7. received'[c] = received[c]
  BY <1>5, <1>6, ClientGets DEF IInv
<1>8. QED
  BY <1>1, <1>2, <1>3, <1>4, <1>7

\* Every step is a step of the pipe from the client to its device.
LEMMA UpStep ==
    ASSUME IInv, IInv', [Next]_vars, NEW c \in Client
    PROVE  Up!Others(c) \/ Up!Delivers(c)
<1>1. sent'[c] >= sent[c]
  BY SentGrows DEF IInv, Peer
<1>2. dev[c] \in Dev \cup {None} /\ dev'[c] \in Dev \cup {None} /\ TypeOK'
  BY Types DEF IInv, SP!IInv, SP!TypeOK
<1>3. CASE dev'[c] = dev[c] /\ dev[c] = None
  <2>1. GotUp(c) = <<>> /\ GotUp(c)' = <<>>
    BY <1>3 DEF GotUp
  <2>2. PICK g \in Seq(Nat) : g = <<>>
    <3>1. <<>> \in Seq(Nat)
      OBVIOUS
    <3>2. QED
      BY <3>1
  <2>3. 0 \in 0 .. Len(g) /\ g = g \o Zeros(0)
    BY NothingArrives
  <2>4. QED
    BY <1>1, <2>1, <2>2, <2>3, UpOthers
<1>4. CASE dev'[c] = dev[c] /\ dev[c] \in Dev
  BY <1>4, UpArrives
<1>5. CASE dev'[c] # dev[c]
  <2>1. dev[c] = None /\ forward'[c] # "nothing"
    BY <1>5, DeviceChanges
  <2>2. PICK d \in Dev : dev'[c] = d /\ d # None
    BY <1>2, <1>5, <2>1
  <2>3. PICK t \in Seq(Cell), n \in Nat : t = received'[d] /\ n = Len(t)
    <3>1. received' \in [Peer -> Seq(Cell)] /\ d \in Peer
      BY <1>2 DEF TypeOK, Peer
    <3>2. QED
      BY <3>1
  <2>4. NoneOf(t, n, c)
    BY <2>1, <2>3 DEF IInv, ByteInv, AtDevice, NoneOf, IsByteOf
  <2>5. PICK r \in Seq(Cell) : r = <<>> /\ Extends(t, r, t, n)
    <3>1. <<>> \in Seq(Cell)
      OBVIOUS
    <3>2. Extends(t, <<>>, t, n)
      BY <2>3 DEF Extends
    <3>3. QED
      BY <3>1, <3>2
  <2>6. n \in 0 .. Len(Positions(c, t)) /\ Positions(c, t) = Positions(c, r) \o Zeros(n)
    BY <2>4, <2>5, ZerosArrive
  <2>7. Positions(c, r) = <<>>
    BY <2>5 DEF Positions
  <2>8. GotUp(c) = <<>> /\ GotUp(c)' = Positions(c, t)
    BY <2>1, <2>2, <2>3 DEF GotUp
  <2>9. QED
    BY <1>1, <2>6, <2>7, <2>8, UpOthers
<1>6. QED
  BY <1>2, <1>3, <1>4, <1>5

\* What the device of a client gets of it is what the client has sent, in order and
\* each byte at most once: nothing between the two is reordered, repeated or made up.
THEOREM PipeUp == Spec => UpPipe
<1>1. Init => Up!Init
  <2> SUFFICES ASSUME Init PROVE Up!Init
    OBVIOUS
  <2>1. \A c \in Client : sent[c] = 0 /\ GotUp(c) = <<>>
    BY DEF Init, S!Init, GotUp, Peer
  <2>2. QED
    BY <2>1 DEF Up!Init
<1>2. IInv /\ IInv' /\ [Next]_vars => Up!Next
  <2> SUFFICES ASSUME IInv, IInv', [Next]_vars PROVE Up!Next
    OBVIOUS
  <2>1. ASSUME NEW c \in Client PROVE sent'[c] \in Nat
    BY SentGrows DEF IInv, Peer
  <2>2. ASSUME NEW c \in Client PROVE GotUp(c)' \in Seq(Nat)
    <3>1. CASE dev'[c] = None
      BY <3>1 DEF GotUp
    <3>2. CASE dev'[c] # None
      <4>1. dev'[c] \in Dev
        BY <3>2, Types DEF IInv, SP!IInv, SP!TypeOK
      <4>2. received'[dev'[c]] \in Seq(Cell)
        BY <4>1 DEF IInv, TypeOK, Peer
      <4>3. Positions(c, received'[dev'[c]]) \in Seq(Nat)
        BY <4>2, PositionsSeq
      <4>4. GotUp(c)' = Positions(c, received'[dev'[c]])
        BY <3>2 DEF GotUp
      <4>5. QED
        BY <4>3, <4>4
    <3>3. QED
      BY <3>1, <3>2
  <2>3. ASSUME NEW c \in Client PROVE Up!Others(c) \/ Up!Delivers(c)
    BY UpStep
  <2>4. QED
    BY <2>1, <2>2, <2>3 DEF Up!Next
<1>3. QED
  BY <1>1, <1>2, Invariant, PTL DEF Spec, UpPipe, Up!Spec


\* The same towards the client.
DownSent(c) == IF dev[c] = None THEN 0 ELSE sent[dev[c]]

LEMMA DownOthers ==
    ASSUME NEW c \in Client, DownSent(c)' >= DownSent(c), NEW n \in 0 .. Len(GotDown(c)'),
           GotDown(c)' = GotDown(c) \o Zeros(n)
    PROVE  Down!Others(c)
  BY DEF Down!Others, Zeros, DownSent

\* A run that ends among the first k positions begins there.
LEMMA RunFits ==
    ASSUME NEW first \in Nat, NEW n \in Nat, NEW k \in Nat,
           first > 0, n > 0, first + n - 1 <= k
    PROVE  first \in 1 .. k /\ n \in 1 .. k - first + 1
  OBVIOUS

LEMMA DownDelivers ==
    ASSUME NEW c \in Client, DownSent(c)' = DownSent(c), NEW first \in 1 .. DownSent(c),
           \A i \in 1 .. Len(GotDown(c)) : GotDown(c)[i] < first,
           NEW n \in 1 .. DownSent(c) - first + 1,
           GotDown(c)' = GotDown(c) \o Run(first, n)
    PROVE  Down!Delivers(c)
  BY DEF Down!Delivers, Run, DownSent

\* While a client has its device, what arrives at it is a step of the pipe.
LEMMA DownArrives ==
    ASSUME IInv, IInv', [Next]_vars, NEW c \in Client, NEW d \in Dev, dev[c] = d, dev'[c] = d
    PROVE  Down!Others(c) \/ Down!Delivers(c)
<1>1. d # None /\ c \in Peer /\ d \in Peer
  BY BridgeAssumption DEF BridgeAssumption, S!SessionsAssumption, Peer
<1>2. PICK r \in Seq(Cell), t \in Seq(Cell) : r = received[c] /\ t = received'[c]
  <2>1. received \in [Peer -> Seq(Cell)] /\ received' \in [Peer -> Seq(Cell)]
    BY DEF IInv, TypeOK
  <2>2. QED
    BY <1>1, <2>1
<1>3. GotDown(c) = Positions(d, r) /\ GotDown(c)' = Positions(d, t)
  BY <1>1, <1>2 DEF GotDown
<1>4. /\ DownSent(c) = sent[d] /\ DownSent(c)' = sent'[d]
      /\ sent[d] \in Nat /\ sent'[d] \in Nat /\ sent'[d] >= sent[d]
  BY <1>1, SentGrows DEF IInv, DownSent
<1>5. Positions(d, r) \in Seq(Nat) /\ Positions(d, t) \in Seq(Nat)
  BY PositionsSeq
<1>6. ASSUME t = r PROVE Down!Others(c)
  <2>1. 0 \in 0 .. Len(Positions(d, t)) /\ Positions(d, t) = Positions(d, r) \o Zeros(0)
    BY <1>5, <1>6, NothingArrives
  <2>2. QED
    BY <1>3, <1>4, <2>1, DownOthers
<1>7. ASSUME NEW s \in Seq(Cell), NEW n \in Nat, Writes(c, s, n), NoneOf(s, n, d)
      PROVE  Down!Others(c)
  <2>1. Extends(t, r, s, n) /\ NoneOf(s, n, d)
    <3>1. /\ n \in 0 .. Len(s) /\ Len(t) = Len(r) + n
          /\ \A i \in 1 .. Len(r) : t[i] = r[i]
          /\ \A i \in 1 .. n : t[Len(r) + i] = s[i]
      BY <1>2, <1>7 DEF Writes
    <3>2. n <= Len(s)
      BY <3>1
    <3>3. QED
      BY <1>7, <3>1, <3>2 DEF Extends
  <2>2. n \in 0 .. Len(Positions(d, t)) /\ Positions(d, t) = Positions(d, r) \o Zeros(n)
    BY <2>1, ZerosArrive
  <2>3. QED
    BY <1>3, <1>4, <2>2, DownOthers
<1>8. ASSUME ReplyEffect(c) PROVE Down!Others(c)
  <2>1. PICK word \in {"reply", "refusal"} : Writes(c, <<Own(word, c)>>, 1)
    BY <1>8 DEF ReplyEffect
  <2>2. PICK b \in Cell : b = Own(word, c)
    BY <1>1 DEF Own, Byte, Cell
  <2>3. <<b>> \in Seq(Cell) /\ \A i \in 1 .. 1 : <<b>>[i] = b
    OBVIOUS
  <2>4. NoneOf(<<b>>, 1, d)
    BY <2>2, <2>3 DEF NoneOf, Own, Byte, IsByteOf
  <2>5. QED
    BY <1>7, <2>1, <2>2, <2>3, <2>4
<1>9. ASSUME NEW n \in Nat, CarryEffect(c, "down", n)
      PROVE  Down!Others(c) \/ Down!Delivers(c)
  <2>1. PICK h \in Seq(Cell), l \in Nat : h = held[c]["down"] /\ l = Len(h)
    BY Types DEF IInv
  <2>2. Writes(c, h, n) /\ sent' = sent /\ "down" \in copying[c] /\ n \in 0 .. l
    BY <1>9, <2>1 DEF CarryEffect, To, Writes
  <2>3. CASE n = 0
    <3>1. NoneOf(h, n, d)
      BY <2>3 DEF NoneOf
    <3>2. QED
      BY <1>7, <2>2, <3>1
  <2>4. CASE n > 0
    <3>1. Extends(t, r, h, n)
      BY <1>2, <2>2 DEF Writes, Extends
    <3>2. PICK first \in Nat \ {0} : first = h[1].at
      <4>1. 1 \in 1 .. Len(h)
        BY <2>1, <2>2, <2>4
      <4>2. h[1] \in Cell
        BY <4>1
      <4>3. h[1].at \in Nat /\ h[1].at >= 1
        BY <2>1, <4>1, <4>2 DEF IInv, ByteInv, DownHeld, Cell
      <4>4. QED
        BY <4>3
    <3>3. \A i \in 1 .. l : /\ IsByteOf(h[i], d) /\ h[i].at = first + i - 1
                            /\ h[i].at <= Read(d)
      BY <2>1, <3>2 DEF IInv, ByteInv, DownHeld
    <3>4. RunOf(h, n, d, first)
      BY <2>2, <3>3 DEF RunOf
    <3>5. Positions(d, t) = Positions(d, r) \o Run(first, n)
      BY <3>1, <3>4, RunArrives
    <3>6. \A i \in 1 .. Len(Positions(d, r)) : Positions(d, r)[i] < first
      <4>1. ASSUME NEW i \in 1 .. Len(r) PROVE Positions(d, r)[i] < first
        <5>1. Positions(d, r)[i] = IF IsByteOf(r[i], d) THEN r[i].at ELSE 0
          BY PositionsSeq
        <5>2. CASE i = 1
          <6>1. r # <<>>
            BY <5>2
          <6>2. r[1] \in {Own("reply", c), Own("refusal", c)}
            BY <1>2, <6>1 DEF IInv, ByteInv, HandshakeFirst
          <6>3. ~IsByteOf(r[1], d)
            BY <6>2 DEF Own, Byte, IsByteOf
          <6>4. QED
            BY <3>2, <5>1, <5>2, <6>3
        <5>3. CASE i # 1
          <6>1. i \in 2 .. Len(received[c])
            BY <1>2, <5>3
          <6>2. held[c]["down"] # <<>>
            BY <2>1, <2>2, <2>4
          <6>3. r[i].at < first
            BY <1>2, <2>1, <3>2, <6>1, <6>2 DEF IInv, ByteInv, AtClient
          <6>4. QED
            BY <3>2, <5>1, <6>3
        <5>4. QED
          BY <5>2, <5>3
      <4>2. QED
        BY <4>1, PositionsSeq
    <3>7. PICK k \in Nat : k = sent[d] /\ first + n - 1 <= k
      <4>1. PICK u \in Nat : u = Len(unread[d])
        <5>1. unread \in [Peer -> Seq(Cell)]
          BY DEF IInv, TypeOK
        <5>2. QED
          BY <1>1, <5>1
      <4>2. n \in 1 .. l
        BY <2>2, <2>4
      <4>3. h[n].at = first + n - 1 /\ h[n].at <= Read(d)
        BY <3>3, <4>2
      <4>4. Read(d) = sent[d] - u
        BY <4>1 DEF Read
      <4>5. first + n - 1 <= sent[d] - u
        BY <4>3, <4>4
      <4>6. first + n - 1 <= sent[d]
        BY <1>4, <4>5
      <4>7. QED
        BY <1>4, <4>6
    <3>8. first \in 1 .. k /\ n \in 1 .. k - first + 1
      <4>1. first \in Nat /\ first > 0
        BY <3>2
      <4>2. k \in Nat /\ first + n - 1 <= k
        BY <3>7
      <4>3. QED
        BY <2>4, <4>1, <4>2, RunFits
    <3>9. /\ first \in 1 .. DownSent(c) /\ n \in 1 .. DownSent(c) - first + 1
          /\ DownSent(c)' = DownSent(c)
      BY <1>4, <2>2, <3>7, <3>8
    <3>10. Down!Delivers(c)
      BY <1>3, <3>5, <3>6, <3>9, DownDelivers
    <3>11. QED
      BY <3>10
  <2>5. QED
    BY <2>2, <2>3, <2>4
<1>10. QED
  BY <1>2, <1>6, <1>8, <1>9, ClientGets DEF IInv

\* Every step is a step of the pipe from the device to its client.
LEMMA DownStep ==
    ASSUME IInv, IInv', [Next]_vars, NEW c \in Client
    PROVE  Down!Others(c) \/ Down!Delivers(c)
<1>1. dev[c] \in Dev \cup {None} /\ dev'[c] \in Dev \cup {None} /\ TypeOK'
  BY Types DEF IInv, SP!IInv, SP!TypeOK
<1>2. PICK g \in Seq(Nat) : g = <<>> /\ 0 \in 0 .. Len(g) /\ g = g \o Zeros(0)
  <2>1. <<>> \in Seq(Nat)
    OBVIOUS
  <2>2. ASSUME NEW g \in Seq(Nat) PROVE 0 \in 0 .. Len(g) /\ g = g \o Zeros(0)
    BY NothingArrives
  <2>3. QED
    BY <2>1, <2>2
<1>3. CASE dev'[c] = dev[c] /\ dev[c] = None
  <2>1. GotDown(c) = g /\ GotDown(c)' = g /\ DownSent(c) = 0 /\ DownSent(c)' = 0
    BY <1>2, <1>3 DEF GotDown, DownSent
  <2>2. 0 \in 0 .. Len(GotDown(c)') /\ GotDown(c)' = GotDown(c) \o Zeros(0)
    BY <1>2, <2>1
  <2>3. DownSent(c)' >= DownSent(c)
    BY <2>1
  <2>4. Down!Others(c)
    BY <2>2, <2>3, DownOthers
  <2>5. QED
    BY <2>4
<1>4. CASE dev'[c] = dev[c] /\ dev[c] \in Dev
  BY <1>4, DownArrives
<1>5. CASE dev'[c] # dev[c]
  <2>1. dev[c] = None /\ received[c] = <<>> /\ received'[c] = <<>>
    BY <1>5, DeviceChanges
  <2>2. PICK d \in Dev : dev'[c] = d /\ d # None
    BY <1>1, <1>5, <2>1
  <2>3. Positions(d, <<>>) = <<>>
    BY DEF Positions
  <2>4. GotDown(c) = g /\ GotDown(c)' = g
    BY <1>2, <2>1, <2>2, <2>3 DEF GotDown
  <2>5. DownSent(c) = 0 /\ DownSent(c)' = sent'[d] /\ sent'[d] \in Nat
    BY <2>1, <2>2, SentGrows DEF DownSent, IInv, Peer
  <2>6. DownSent(c)' >= DownSent(c)
    BY <2>5
  <2>7. 0 \in 0 .. Len(GotDown(c)') /\ GotDown(c)' = GotDown(c) \o Zeros(0)
    BY <1>2, <2>4
  <2>8. Down!Others(c)
    BY <2>6, <2>7, DownOthers
  <2>9. QED
    BY <2>8
<1>6. QED
  BY <1>1, <1>3, <1>4, <1>5

\* What a client gets of its device is what the device has sent, in order and each
\* byte at most once, though deviceReader and other sessions read the device too.
THEOREM PipeDown == Spec => DownPipe
<1>1. Init => Down!Init
  <2> SUFFICES ASSUME Init PROVE Down!Init
    OBVIOUS
  <2>1. \A c \in Client : dev[c] = None /\ GotDown(c) = <<>>
    BY DEF Init, S!Init, GotDown
  <2>2. QED
    BY <2>1 DEF Down!Init
<1>2. IInv /\ IInv' /\ [Next]_vars => Down!Next
  <2> SUFFICES ASSUME IInv, IInv', [Next]_vars PROVE Down!Next
    OBVIOUS
  <2>1. ASSUME NEW c \in Client PROVE dev'[c] \in Dev \cup {None}
    BY DEF IInv, SP!IInv, SP!TypeOK
  <2>2. ASSUME NEW c \in Client PROVE DownSent(c)' \in Nat
    <3>1. CASE dev'[c] = None
      BY <3>1 DEF DownSent
    <3>2. CASE dev'[c] # None
      <4>1. sent'[dev'[c]] \in Nat
        BY <2>1, <3>2, SentGrows DEF IInv, Peer
      <4>2. QED
        BY <3>2, <4>1 DEF DownSent
    <3>3. QED
      BY <3>1, <3>2
  <2>3. ASSUME NEW c \in Client PROVE GotDown(c)' \in Seq(Nat)
    <3>1. CASE dev'[c] = None
      BY <3>1 DEF GotDown
    <3>2. CASE dev'[c] # None
      <4>1. received'[c] \in Seq(Cell)
        BY DEF IInv, TypeOK, Peer
      <4>2. Positions(dev'[c], received'[c]) \in Seq(Nat)
        BY <4>1, PositionsSeq
      <4>3. GotDown(c)' = Positions(dev'[c], received'[c])
        BY <3>2 DEF GotDown
      <4>4. QED
        BY <4>2, <4>3
    <3>3. QED
      BY <3>1, <3>2
  <2>4. ASSUME NEW c \in Client PROVE Down!Others(c) \/ Down!Delivers(c)
    BY DownStep
  <2>5. QED
    BY <2>2, <2>3, <2>4 DEF Down!Next, DownSent
<1>3. QED
  BY <1>1, <1>2, Invariant, PTL DEF Spec, DownPipe, Down!Spec
=============================================================================
