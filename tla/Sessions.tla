------------------------------ MODULE Sessions ------------------------------
(***************************************************************************)
(* The client side of the proxy: AT+CONNECT (or a modem dial), the busy    *)
(* flag of a Device, the session table, the life of Bridge.Run and its     *)
(* goroutines, and the API's Terminate (internal/connection/handler.go,    *)
(* internal/session/manager.go, internal/session/bridge.go).               *)
(*                                                                         *)
(* A client connection creates at most one session, so the session is      *)
(* named by its client.  The device side appears only through what a       *)
(* client can see of it, the registry and the device's connection; module  *)
(* Proxy replaces it by the handlers of module Devices.                    *)
(*                                                                         *)
(* Left out: the bytes copied, the presets forwarded before the bridge,    *)
(* durations.  A timer may fire at any time.                               *)
(***************************************************************************)
CONSTANTS
    Client,       \* connections that ask for a session
    Dev, Id, IdOf, None,  \* as in Devices
    Wants,        \* the identifier each client asks for
    Modem,        \* clients that dial in modem emulation
    KeepaliveOn   \* Manager.idleTimeout > 0

ASSUME SessionsAssumption ==
    /\ IdOf \in [Dev -> Id]
    /\ Wants \in [Client -> Id]
    /\ Modem \subseteq Client
    /\ KeepaliveOn \in BOOLEAN
    /\ None \notin Dev \cup Client

VARIABLES
    registry,  \* the device registered under each identifier
    conn,      \* the devices' connections: "open", "eof", "closed" (by the proxy)
    cconn,     \* the clients' connections
    cpc,       \* program counter of Handle/handleClient, one per client
    dev,       \* handleClient's local "dev", None before the lookup
    sessions,  \* Manager.sessions, each session named by its client
    busy,      \* Device.SessionID: the session a device is marked with, None if not InSession
    copying,   \* Bridge.Run's copy goroutines still running: "up" reads the client, "down" the device
    nop,       \* the Bridge.keepalive goroutine
    term       \* Manager.Terminate on each session: the close it has still to do

deviceVars == <<registry, conn>>
bridgeVars == <<copying, nop>>
vars == <<registry, conn, cconn, cpc, dev, sessions, busy, copying, nop, term>>

ConnState == {"open", "eof", "closed"}
Direction == {"up", "down"}

\* handleClient holds a Device that it has marked, and will clear the mark.
Marked == {"reply", "endErr", "clearErr", "bridge", "run", "closeC", "closeD",
           "join", "end", "clear"}

\* It has cleared the mark that it had set.
Leaving == {"noCarrier", "close", "done"}

Phase == {"idle", "refuse", "refused", "lookUp", "check", "create", "set"} \cup Marked \cup Leaving

Init ==
    /\ registry = [i \in Id |-> None]
    /\ conn = [d \in Dev |-> "open"]
    /\ cconn = [c \in Client |-> "open"]
    /\ cpc = [c \in Client |-> "idle"]
    /\ dev = [c \in Client |-> None]
    /\ sessions = {}
    /\ busy = [d \in Dev |-> None]
    /\ copying = [c \in Client |-> {}]
    /\ nop = [c \in Client |-> "none"]
    /\ term = [c \in Client |-> "none"]

(***************************************************************************)
(* Handle and handleClient up to the reply.                                *)
(***************************************************************************)

Goto(c, from, to) ==
    /\ cpc[c] = from
    /\ cpc' = [cpc EXCEPT ![c] = to]

CloseClientConn(c) == cconn' = [cconn EXCEPT ![c] = "closed"]
CloseDeviceConn(d) == conn' = [conn EXCEPT ![d] = "closed"]

\* AT+CONNECT, or ATD<number> in modem mode, with a good token.
Dial(c) ==
    /\ Goto(c, "idle", "lookUp")
    /\ UNCHANGED <<deviceVars, cconn, dev, sessions, busy, bridgeVars, term>>

\* No command, an unknown one or a bad token.
RefuseDial(c) ==
    /\ Goto(c, "idle", "refuse")
    /\ UNCHANGED <<deviceVars, cconn, dev, sessions, busy, bridgeVars, term>>

\* ERROR, or NO CARRIER to a modem, and the deferred close.
Refuse(c) ==
    /\ Goto(c, "refuse", "refused")
    /\ CloseClientConn(c)
    /\ UNCHANGED <<deviceVars, dev, sessions, busy, bridgeVars, term>>

\* Mutant: the result of Get is used without looking at ok.
LookUpIgnoresOk(c) ==
    /\ Goto(c, "lookUp", "check")
    /\ dev' = [dev EXCEPT ![c] = registry[Wants[c]]]
    /\ UNCHANGED <<deviceVars, cconn, sessions, busy, bridgeVars, term>>

LookUp(c) ==
    LET d == registry[Wants[c]] IN
    /\ Goto(c, "lookUp", IF d = None THEN "refuse" ELSE "check")
    /\ dev' = [dev EXCEPT ![c] = d]
    /\ UNCHANGED <<deviceVars, cconn, sessions, busy, bridgeVars, term>>

\* Mutant: no busy check.
CheckBusySkipped(c) ==
    /\ Goto(c, "check", "create")
    /\ UNCHANGED <<deviceVars, cconn, dev, sessions, busy, bridgeVars, term>>

\* dev.IsInSession(): the lock is released before anything is done about it.
CheckBusy(c) ==
    /\ Goto(c, "check", IF busy[dev[c]] = None THEN "create" ELSE "refuse")
    /\ UNCHANGED <<deviceVars, cconn, dev, sessions, busy, bridgeVars, term>>

\* Mutant: the session takes its device out of the registry.
CreateSessionClaims(c) ==
    /\ Goto(c, "create", "set")
    /\ sessions' = sessions \cup {c}
    /\ registry' = [registry EXCEPT ![Wants[c]] = None]
    /\ UNCHANGED <<conn, cconn, dev, busy, bridgeVars, term>>

CreateSession(c) ==
    /\ Goto(c, "create", "set")
    /\ sessions' = sessions \cup {c}
    /\ UNCHANGED <<deviceVars, cconn, dev, busy, bridgeVars, term>>

\* Mutant: the mark is set on a copy of the Device.
SetSessionOnCopy(c) ==
    /\ Goto(c, "set", "reply")
    /\ UNCHANGED <<deviceVars, cconn, dev, sessions, busy, bridgeVars, term>>

SetSession(c) ==
    /\ Goto(c, "set", "reply")
    /\ busy' = [busy EXCEPT ![dev[c]] = c]
    /\ UNCHANGED <<deviceVars, cconn, dev, sessions, bridgeVars, term>>

\* OK or CONNECT; when it cannot be written the session is given up at once.
Reply(c) ==
    /\ \/ cconn[c] # "closed" /\ Goto(c, "reply", "bridge")
       \/ cconn[c] # "open" /\ Goto(c, "reply", "endErr")
    /\ UNCHANGED <<deviceVars, cconn, dev, sessions, busy, bridgeVars, term>>

\* Manager.End: LoadAndDelete, so that only one caller closes done.
End(c, from, to) ==
    /\ Goto(c, from, to)
    /\ sessions' = sessions \ {c}
    /\ UNCHANGED <<deviceVars, cconn, dev, busy, bridgeVars, term>>

\* Device.ClearSession: clears the mark, whoever set it.
ClearSession(c, from, to) ==
    /\ Goto(c, from, to)
    /\ busy' = [busy EXCEPT ![dev[c]] = None]
    /\ UNCHANGED <<deviceVars, cconn, dev, sessions, bridgeVars, term>>

\* Mutant: the failed reply ends the session and forgets the mark.
GiveUpKeepsMark(c) == End(c, "endErr", "close")

GiveUp(c) == End(c, "endErr", "clearErr") \/ ClearSession(c, "clearErr", "close")

(***************************************************************************)
(* Bridge.Run and the end of handleClient.                                 *)
(***************************************************************************)

StartBridge(c) ==
    /\ Goto(c, "bridge", "run")
    /\ copying' = [copying EXCEPT ![c] = Direction]
    /\ nop' = [nop EXCEPT ![c] = IF KeepaliveOn THEN "select" ELSE "none"]
    /\ UNCHANGED <<deviceVars, cconn, dev, sessions, busy, term>>

\* Mutant: Run waits for session.done only.
LeaveRunOnDone(c) ==
    /\ c \notin sessions
    /\ Goto(c, "run", "closeC")
    /\ UNCHANGED <<deviceVars, cconn, dev, sessions, busy, bridgeVars, term>>

\* The select on done (both directions have ended) and session.done.
LeaveRun(c) ==
    /\ copying[c] = {} \/ c \notin sessions
    /\ Goto(c, "run", "closeC")
    /\ UNCHANGED <<deviceVars, cconn, dev, sessions, busy, bridgeVars, term>>

CloseClient(c) ==
    /\ Goto(c, "closeC", "closeD")
    /\ CloseClientConn(c)
    /\ UNCHANGED <<deviceVars, dev, sessions, busy, bridgeVars, term>>

\* Mutant: the device's connection is kept for the next session.
CloseDeviceKept(c) ==
    /\ Goto(c, "closeD", "join")
    /\ UNCHANGED <<deviceVars, cconn, dev, sessions, busy, bridgeVars, term>>

CloseDevice(c) ==
    /\ Goto(c, "closeD", "join")
    /\ CloseDeviceConn(dev[c])
    /\ UNCHANGED <<registry, cconn, dev, sessions, busy, bridgeVars, term>>

Join(c) ==
    /\ copying[c] = {}
    /\ Goto(c, "join", "end")
    /\ UNCHANGED <<deviceVars, cconn, dev, sessions, busy, bridgeVars, term>>

CleanUp(c) ==
    \/ End(c, "end", "clear")
    \/ ClearSession(c, "clear", IF c \in Modem THEN "noCarrier" ELSE "close")

WriteNoCarrier(c) ==
    /\ Goto(c, "noCarrier", "close")
    /\ UNCHANGED <<deviceVars, cconn, dev, sessions, busy, bridgeVars, term>>

DeferredClose(c) ==
    /\ Goto(c, "close", "done")
    /\ CloseClientConn(c)
    /\ UNCHANGED <<deviceVars, dev, sessions, busy, bridgeVars, term>>

\* Steps handleClient takes on its own, once the command has arrived.
Handler(c) ==
    \/ Refuse(c) \/ LookUp(c) \/ CheckBusy(c) \/ CreateSession(c) \/ SetSession(c)
    \/ Reply(c) \/ GiveUp(c)
    \/ StartBridge(c) \/ LeaveRun(c) \/ CloseClient(c) \/ CloseDevice(c)
    \/ Join(c) \/ CleanUp(c) \/ WriteNoCarrier(c) \/ DeferredClose(c)

(***************************************************************************)
(* The copy goroutines (copyWithActivity) and Bridge.keepalive.            *)
(***************************************************************************)

Source(c, dir) == IF dir = "up" THEN cconn[c] ELSE conn[dev[c]]

CopyReturns(c, dir) ==
    /\ dir \in copying[c]
    /\ copying' = [copying EXCEPT ![c] = @ \ {dir}]
    /\ UNCHANGED <<deviceVars, cconn, cpc, dev, sessions, busy, nop, term>>

\* Read reports end of stream or a closed connection.
ReadEnds(c, dir) == CopyReturns(c, dir) /\ Source(c, dir) # "open"

\* A write fails (reset, or a write deadline that a keepalive set), or the read
\* hits the deadline deviceReader set on the same connection.
CopyBreaks(c, dir) == CopyReturns(c, dir)

NopGoto(c, from, to) ==
    /\ nop[c] = from
    /\ nop' = [nop EXCEPT ![c] = to]
    /\ UNCHANGED <<registry, cpc, dev, sessions, busy, copying, term>>

\* stopKeepalive is closed once Run has left its select.
NopStops(c) ==
    /\ cpc[c] # "run"
    /\ NopGoto(c, "select", "done")
    /\ UNCHANGED <<conn, cconn>>

\* A tick: the client is idle, the device is idle, or neither.
NopTick(c) == NopGoto(c, "select", "client") /\ UNCHANGED <<conn, cconn>>

NopClientSent(c) == NopGoto(c, "client", "device") /\ UNCHANGED <<conn, cconn>>

NopClientFails(c) ==
    /\ NopGoto(c, "client", "done")
    /\ CloseClientConn(c)
    /\ UNCHANGED conn

NopDeviceSent(c) == NopGoto(c, "device", "select") /\ UNCHANGED <<conn, cconn>>

NopDeviceFails(c) ==
    /\ NopGoto(c, "device", "done")
    /\ CloseDeviceConn(dev[c])
    /\ UNCHANGED cconn

Keepalive(c) ==
    \/ NopStops(c) \/ NopTick(c)
    \/ NopClientSent(c) \/ NopClientFails(c)
    \/ NopDeviceSent(c) \/ NopDeviceFails(c)

(***************************************************************************)
(* Manager.Terminate, on behalf of DELETE /api/v1/sessions/{id}.           *)
(***************************************************************************)

TerminateLoad(c) ==
    /\ c \in sessions /\ term[c] = "none"
    /\ term' = [term EXCEPT ![c] = "client"]
    /\ UNCHANGED <<deviceVars, cconn, cpc, dev, sessions, busy, bridgeVars>>

\* Mutant: only the device's connection is closed.
TerminateClientKept(c) ==
    /\ term[c] = "client"
    /\ term' = [term EXCEPT ![c] = "device"]
    /\ UNCHANGED <<deviceVars, cconn, cpc, dev, sessions, busy, bridgeVars>>

TerminateClient(c) ==
    /\ term[c] = "client"
    /\ term' = [term EXCEPT ![c] = "device"]
    /\ CloseClientConn(c)
    /\ UNCHANGED <<deviceVars, cpc, dev, sessions, busy, bridgeVars>>

\* Mutant: Terminate takes the session out of the table itself.
TerminateDeviceEnds(c) ==
    /\ term[c] = "device"
    /\ term' = [term EXCEPT ![c] = "none"]
    /\ CloseDeviceConn(dev[c])
    /\ sessions' = sessions \ {c}
    /\ UNCHANGED <<registry, cconn, cpc, dev, busy, bridgeVars>>

TerminateDevice(c) ==
    /\ term[c] = "device"
    /\ term' = [term EXCEPT ![c] = "none"]
    /\ CloseDeviceConn(dev[c])
    /\ UNCHANGED <<registry, cconn, cpc, dev, sessions, busy, bridgeVars>>

Terminate(c) == TerminateClient(c) \/ TerminateDevice(c)

(***************************************************************************)
(* The environment.                                                        *)
(***************************************************************************)

Arrive(c) == Dial(c) \/ RefuseDial(c)

\* The client goes away: FIN, reset, or the TCP keepalive gives it up.
ClientGone(c) ==
    /\ cconn[c] = "open"
    /\ cconn' = [cconn EXCEPT ![c] = "eof"]
    /\ UNCHANGED <<deviceVars, cpc, dev, sessions, busy, bridgeVars, term>>

clientVars == <<cconn, cpc, dev, sessions, busy, bridgeVars, term>>

\* A Device is stored once: before any client can have found it.
DeviceRegisters(d) ==
    /\ \A c \in Client : dev[c] # d
    /\ registry' = [registry EXCEPT ![IdOf[d]] = d]
    /\ UNCHANGED <<conn, clientVars>>

DeviceUnregisters(i) ==
    /\ registry' = [registry EXCEPT ![i] = None]
    /\ UNCHANGED <<conn, clientVars>>

DeviceGone(d) ==
    /\ conn[d] = "open"
    /\ conn' = [conn EXCEPT ![d] = "eof"]
    /\ UNCHANGED <<registry, clientVars>>

\* handleDevice, deviceKeepalive or a takeover closes the device's connection.
DeviceClosed(d) ==
    /\ CloseDeviceConn(d)
    /\ UNCHANGED <<registry, clientVars>>

DeviceSide ==
    \/ \E d \in Dev : DeviceRegisters(d) \/ DeviceGone(d) \/ DeviceClosed(d)
    \/ \E i \in Id : DeviceUnregisters(i)

ClientSide(c) ==
    \/ Arrive(c) \/ Handler(c) \/ Keepalive(c)
    \/ \E dir \in Direction : ReadEnds(c, dir) \/ CopyBreaks(c, dir)
    \/ TerminateLoad(c) \/ Terminate(c) \/ ClientGone(c)

Next == DeviceSide \/ \E c \in Client : ClientSide(c)

Spec == Init /\ [][Next]_vars

\* handleClient, the copy goroutines and a Terminate that has begun are
\* scheduled; a read whose stream has ended returns.  Nothing is promised of
\* clients, devices or timers.
FairSpec ==
    /\ Spec
    /\ \A c \in Client :
          /\ WF_vars(Handler(c))
          /\ WF_vars(\E dir \in Direction : ReadEnds(c, dir))
          /\ WF_vars(Terminate(c))

(***************************************************************************)
(* Properties.                                                             *)
(***************************************************************************)

\* A client past its lookup.
Held == Marked \cup {"check", "create", "set", "noCarrier"}

\* Every variable has its type, and a client past its lookup holds a device.
TypeOK ==
    /\ registry \in [Id -> Dev \cup {None}]
    /\ conn \in [Dev -> ConnState]
    /\ cconn \in [Client -> ConnState]
    /\ cpc \in [Client -> Phase]
    /\ dev \in [Client -> Dev \cup {None}]
    /\ sessions \subseteq Client
    /\ busy \in [Dev -> Client \cup {None}]
    /\ copying \in [Client -> SUBSET Direction]
    /\ nop \in [Client -> {"none", "select", "client", "device", "done"}]
    /\ term \in [Client -> {"none", "client", "device"}]
    /\ \A c \in Client : cpc[c] \in Held => dev[c] \in Dev

\* A device is never left busy: the session it is marked with belongs to a
\* handler that holds this device and still has to call ClearSession.
BusyOwned ==
    \A d \in Dev : busy[d] # None =>
        dev[busy[d]] = d /\ cpc[busy[d]] \in Marked

\* The mark of a running session is overwritten only by another session of the same
\* device that still runs, and wiped only by one that has ended.
MarkLostToRival ==
    \A c \in Client : cpc[c] \in Marked /\ busy[dev[c]] # c =>
        \E r \in Client \ {c} :
            /\ dev[r] = dev[c]
            /\ IF busy[dev[c]] = None THEN cpc[r] \in Leaving ELSE busy[dev[c]] = r

\* A client passes the busy check of a device with a marked session only when a
\* third client has had a session on the device too, and has wiped the mark:
\* otherwise two sessions on a device come from two checks made before either
\* SetSession.
NoLateOverlap ==
    [][\A c, s \in Client :
          (/\ cpc[c] = "check" /\ cpc'[c] = "create"
           /\ s # c /\ dev[s] = dev[c] /\ cpc[s] \in Marked)
          => \E r \in Client \ {c, s} : dev[r] = dev[c] /\ cpc[r] \in Leaving]_vars

\* When a session has left the table, no goroutine of its bridge still copies:
\* what GET /api/v1/sessions does not list moves no data, and BytesIn and
\* BytesOut are final when onEnd logs them.
QuietAfterEnd ==
    \A c \in Client \ sessions : copying[c] = {}

\* A bridge that has ended leaves neither connection open, so a device that has
\* served a session has to register again before it serves another client, and
\* a keepalive that is still at work can only meet closed connections.
EndClosesBoth ==
    \A c \in Client :
        cpc[c] \in {"join", "end", "clear", "noCarrier"}
            => cconn[c] = "closed" /\ conn[dev[c]] = "closed"

\* No device serves two sessions at once ("Device busy ... ERROR",
\* doc/connection-sequence.md).
Exclusive ==
    \A c, s \in sessions : c # s => dev[c] # dev[s]
=============================================================================
