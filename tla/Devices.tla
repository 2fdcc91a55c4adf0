------------------------------ MODULE Devices ------------------------------
(***************************************************************************)
(* The device side of the proxy: registration by AT+REG, the registry that *)
(* maps a device identifier to its connection, and the two goroutines that *)
(* watch a registered connection (internal/connection/handler.go,          *)
(* internal/device/registry.go).                                           *)
(*                                                                         *)
(* A member of Dev is one accepted connection that sends AT+REG, with the  *)
(* Device object its handler allocates.  Several connections may claim the *)
(* same identifier: that is a re-registration.  Every read or write of the *)
(* registry, of a connection or of a channel is one step, so the handlers  *)
(* interleave exactly where the Go code releases the sync.Map.             *)
(*                                                                         *)
(* Left out: the bytes on the wire, log lines, durations.  A deadline or a *)
(* ticker may fire at any time.                                            *)
(***************************************************************************)
CONSTANTS
    Dev,          \* connections that register as a device
    Id,           \* device identifiers
    IdOf,         \* the identifier each connection claims
    VcomDev,      \* connections whose device sends a USR-VCOM packet after AT+REG
    KeepaliveOn,  \* cfg.IdleTimeout > 0
    None          \* no device

ASSUME DevicesAssumption ==
    /\ IdOf \in [Dev -> Id]
    /\ VcomDev \subseteq Dev
    /\ KeepaliveOn \in BOOLEAN
    /\ None \notin Dev

VARIABLES
    registry,  \* Registry.devices: the device registered under each identifier
    hpc,       \* program counter of Handle/handleDevice, one per connection
    found,     \* handleDevice's local "existing", None before the lookup
    conn,      \* the TCP connection: "open", "eof" (peer gone), "closed" (by the proxy)
    stop,      \* TRUE once the device's StopKeepalive channel is closed
    reader,    \* the deviceReader goroutine
    keep,      \* the deviceKeepalive goroutine
    ctxDone,   \* the context is cancelled: the proxy shuts down
    process    \* "up", "panicked" (nothing recovers a panic) or "exited" (main returned)

handlerVars == <<hpc, found>>
helperVars == <<reader, keep>>
vars == <<registry, hpc, found, conn, stop, reader, keep, ctxDone, process>>

\* The handler has stored its Device in the registry and not yet run the
\* deferred Unregister.
Registered == {"writeOK", "waitAT", "spin", "wait", "unregister"}

\* The handler has stored its Device in the registry at some time.
Published == Registered \cup {"close", "done"}

Phase == {"idle", "refused", "get", "stopOld", "closeOld", "unregOld", "register"}
            \cup Published

Init ==
    /\ registry = [i \in Id |-> None]
    /\ hpc = [d \in Dev |-> "idle"]
    /\ found = [d \in Dev |-> None]
    /\ conn = [d \in Dev |-> "open"]
    /\ stop = [d \in Dev |-> FALSE]
    /\ reader = [d \in Dev |-> "none"]
    /\ keep = [d \in Dev |-> "none"]
    /\ ctxDone = FALSE
    /\ process = "up"

(***************************************************************************)
(* Handle and handleDevice.                                                *)
(***************************************************************************)

Goto(d, from, to) ==
    /\ process = "up"
    /\ hpc[d] = from
    /\ hpc' = [hpc EXCEPT ![d] = to]

CloseConn(d) == conn' = [conn EXCEPT ![d] = "closed"]

\* Registry.Register and Registry.Unregister: the key is the identifier.
Register(d) == registry' = [registry EXCEPT ![IdOf[d]] = d]
Unregister(i) == registry' = [registry EXCEPT ![i] = None]

\* AT+REG with a good token: handleDevice goes on to look the identifier up.
ReceiveReg(d) ==
    /\ Goto(d, "idle", "get")
    /\ UNCHANGED <<registry, found, conn, stop, helperVars, ctxDone, process>>

\* No command, an unknown one, a bad token or an empty identifier: ERROR, and
\* the deferred close of the connection.
RefuseReg(d) ==
    /\ Goto(d, "idle", "refused")
    /\ CloseConn(d)
    /\ UNCHANGED <<registry, found, stop, helperVars, ctxDone, process>>

\* Mutant: the result of Get is used without looking at ok.
LookUpIgnoresOk(d) ==
    /\ Goto(d, "get", "stopOld")
    /\ found' = [found EXCEPT ![d] = registry[IdOf[d]]]
    /\ UNCHANGED <<registry, conn, stop, helperVars, ctxDone, process>>

LookUp(d) ==
    LET existing == registry[IdOf[d]] IN
    /\ Goto(d, "get", IF existing = None THEN "register" ELSE "stopOld")
    /\ found' = [found EXCEPT ![d] = existing]
    /\ UNCHANGED <<registry, conn, stop, helperVars, ctxDone, process>>

\* close(existing.StopKeepalive): closing a closed channel panics.
StopOld(d) ==
    /\ Goto(d, "stopOld", "closeOld")
    /\ stop' = [stop EXCEPT ![found[d]] = TRUE]
    /\ process' = IF stop[found[d]] THEN "panicked" ELSE "up"
    /\ UNCHANGED <<registry, found, conn, helperVars, ctxDone>>

\* Mutant: the old connection is left open.
CloseOldForgets(d) ==
    /\ Goto(d, "closeOld", "unregOld")
    /\ UNCHANGED <<registry, found, conn, stop, helperVars, ctxDone, process>>

CloseOld(d) ==
    /\ Goto(d, "closeOld", "unregOld")
    /\ CloseConn(found[d])
    /\ UNCHANGED <<registry, found, stop, helperVars, ctxDone, process>>

UnregisterOld(d) ==
    /\ Goto(d, "unregOld", "register")
    /\ Unregister(IdOf[d])
    /\ UNCHANGED <<found, conn, stop, helperVars, ctxDone, process>>

RegisterNew(d) ==
    /\ Goto(d, "register", "writeOK")
    /\ Register(d)
    /\ UNCHANGED <<found, conn, stop, helperVars, ctxDone, process>>

\* Mutant: the error return comes before the defer that unregisters.
WriteOKBeforeDefer(d) ==
    /\ \/ conn[d] # "closed" /\ Goto(d, "writeOK", "waitAT")
       \/ conn[d] # "open" /\ Goto(d, "writeOK", "close")
    /\ UNCHANGED <<registry, found, conn, stop, helperVars, ctxDone, process>>

WriteOK(d) ==
    /\ \/ conn[d] # "closed" /\ Goto(d, "writeOK", "waitAT")
       \/ conn[d] # "open" /\ Goto(d, "writeOK", "unregister")
    /\ UNCHANGED <<registry, found, conn, stop, helperVars, ctxDone, process>>

\* go deviceKeepalive(...) if IdleTimeout > 0; go deviceReader(...)
StartHelpers(d) ==
    /\ keep' = [keep EXCEPT ![d] = IF KeepaliveOn THEN "select" ELSE "none"]
    /\ reader' = [reader EXCEPT ![d] = "check"]

\* ReadATCommand returned: a command, an error, end of stream or the deadline.
EndWaitAT(d) ==
    /\ Goto(d, "waitAT", "wait")
    /\ StartHelpers(d)
    /\ UNCHANGED <<registry, found, conn, stop, ctxDone, process>>

\* The deadline fired after a valid USR-VCOM packet: ReadATCommand was called
\* with timeout 0, so it reads again, and every read now reports the deadline.
VcomDeadline(d) ==
    /\ d \in VcomDev
    /\ conn[d] = "open"
    /\ Goto(d, "waitAT", "spin")
    /\ UNCHANGED <<registry, found, conn, stop, helperVars, ctxDone, process>>

\* Only a local close makes such a read report anything but the deadline.
LeaveSpin(d) ==
    /\ conn[d] = "closed"
    /\ Goto(d, "spin", "wait")
    /\ StartHelpers(d)
    /\ UNCHANGED <<registry, found, conn, stop, ctxDone, process>>

\* The select on ctx.Done(), connClosed and readClosed.
Wake(d) ==
    /\ Goto(d, "wait", "unregister")
    /\ ctxDone \/ keep[d] = "failed" \/ reader[d] = "failed"
    /\ UNCHANGED <<registry, found, conn, stop, helperVars, ctxDone, process>>

\* Mutant: the handler closes its own StopKeepalive on the way out.
DeferredUnregisterStops(d) ==
    /\ Goto(d, "unregister", "close")
    /\ Unregister(IdOf[d])
    /\ stop' = [stop EXCEPT ![d] = TRUE]
    /\ process' = IF stop[d] THEN "panicked" ELSE "up"
    /\ UNCHANGED <<found, conn, helperVars, ctxDone>>

\* The deferred Unregister deletes whatever the identifier maps to by now.
DeferredUnregister(d) ==
    /\ Goto(d, "unregister", "close")
    /\ Unregister(IdOf[d])
    /\ UNCHANGED <<found, conn, stop, helperVars, ctxDone, process>>

DeferredClose(d) ==
    /\ Goto(d, "close", "done")
    /\ CloseConn(d)
    /\ UNCHANGED <<registry, found, stop, helperVars, ctxDone, process>>

Takeover(d) == StopOld(d) \/ CloseOld(d) \/ UnregisterOld(d)

\* Steps the handler takes on its own, once AT+REG has arrived.
Handler(d) ==
    \/ LookUp(d) \/ Takeover(d) \/ RegisterNew(d)
    \/ WriteOK(d) \/ EndWaitAT(d) \/ VcomDeadline(d) \/ LeaveSpin(d)
    \/ Wake(d) \/ DeferredUnregister(d) \/ DeferredClose(d)

(***************************************************************************)
(* deviceReader: polls stop, then reads with a 5 s deadline.               *)
(***************************************************************************)

ReaderGoto(d, from, to) ==
    /\ process = "up"
    /\ reader[d] = from
    /\ reader' = [reader EXCEPT ![d] = to]
    /\ UNCHANGED <<registry, handlerVars, conn, stop, keep, ctxDone, process>>

ReaderPoll(d) == ReaderGoto(d, "check", IF stop[d] THEN "stopped" ELSE "read")

\* The read deadline, or data, which is thrown away.
ReaderAgain(d) == conn[d] = "open" /\ ReaderGoto(d, "read", "check")

\* Mutant: the reader removes the entry itself.
ReaderFailsUnregisters(d) ==
    /\ process = "up" /\ conn[d] # "open" /\ reader[d] = "read"
    /\ reader' = [reader EXCEPT ![d] = "failed"]
    /\ Unregister(IdOf[d])
    /\ UNCHANGED <<handlerVars, conn, stop, keep, ctxDone, process>>

\* Mutant: end of stream ends the reader without closing readClosed.
ReaderFailsSilently(d) == conn[d] # "open" /\ ReaderGoto(d, "read", "stopped")

\* End of stream or a closed connection: close(readClosed).
ReaderFails(d) == conn[d] # "open" /\ ReaderGoto(d, "read", "failed")

Reader(d) == ReaderPoll(d) \/ ReaderAgain(d) \/ ReaderFails(d)

(***************************************************************************)
(* deviceKeepalive: a NOP on every tick until stop, or a write fails.      *)
(***************************************************************************)

KeepGoto(d, from, to) ==
    /\ process = "up"
    /\ keep[d] = from
    /\ keep' = [keep EXCEPT ![d] = to]
    /\ UNCHANGED <<registry, handlerVars, stop, reader, ctxDone, process>>

KeepStop(d) == stop[d] /\ KeepGoto(d, "select", "stopped") /\ UNCHANGED conn

KeepTick(d) == KeepGoto(d, "select", "write") /\ UNCHANGED conn

KeepSent(d) == conn[d] # "closed" /\ KeepGoto(d, "write", "select") /\ UNCHANGED conn

\* An error or the 10 s write deadline: close the connection and connClosed.
KeepFails(d) == KeepGoto(d, "write", "failed") /\ CloseConn(d)

Keepalive(d) == KeepStop(d) \/ KeepTick(d) \/ KeepSent(d) \/ KeepFails(d)

(***************************************************************************)
(* The environment.                                                        *)
(***************************************************************************)

\* The device goes away: FIN, reset, or the TCP keepalive gives it up.
PeerCloses(d) ==
    /\ process = "up"
    /\ conn[d] = "open"
    /\ conn' = [conn EXCEPT ![d] = "eof"]
    /\ UNCHANGED <<registry, handlerVars, stop, helperVars, ctxDone, process>>

\* A client that looked the device up closes its connection when the session
\* ends: Bridge.Run, Bridge.keepalive or Manager.Terminate (module Sessions).
SessionCloses(d) ==
    /\ process = "up"
    /\ hpc[d] \in Published
    /\ conn[d] # "closed"
    /\ CloseConn(d)
    /\ UNCHANGED <<registry, handlerVars, stop, helperVars, ctxDone, process>>

Cancel ==
    /\ process = "up" /\ ~ctxDone
    /\ ctxDone' = TRUE
    /\ UNCHANGED <<registry, handlerVars, conn, stop, helperVars, process>>

\* main returns: it waits for no handler.
Exit ==
    /\ process = "up" /\ ctxDone
    /\ process' = "exited"
    /\ UNCHANGED <<registry, handlerVars, conn, stop, helperVars, ctxDone>>

Shutdown == Cancel \/ Exit

Arrive(d) == ReceiveReg(d) \/ RefuseReg(d)

Environment(d) == PeerCloses(d) \/ SessionCloses(d)

Next ==
    \/ Shutdown
    \/ \E d \in Dev :
          Arrive(d) \/ Handler(d) \/ Reader(d) \/ Keepalive(d) \/ Environment(d)

Spec == Init /\ [][Next]_vars

\* A goroutine that can take a step takes one: the runtime schedules it, and
\* every wait of these three ends by a timer or by an event the model has.
\* Nothing is promised of devices, sessions and shutdown.
FairSpec ==
    /\ Spec
    /\ \A d \in Dev :
          WF_vars(Handler(d)) /\ WF_vars(Reader(d)) /\ WF_vars(Keepalive(d))

(***************************************************************************)
(* Properties.                                                             *)
(***************************************************************************)

\* Every variable has its type, and a handler that takes over from another
\* device knows which.
TypeOK ==
    /\ registry \in [Id -> Dev \cup {None}]
    /\ hpc \in [Dev -> Phase]
    /\ found \in [Dev -> Dev \cup {None}]
    /\ conn \in [Dev -> {"open", "eof", "closed"}]
    /\ stop \in [Dev -> BOOLEAN]
    /\ reader \in [Dev -> {"none", "check", "read", "stopped", "failed"}]
    /\ keep \in [Dev -> {"none", "select", "write", "stopped", "failed"}]
    /\ ctxDone \in BOOLEAN
    /\ process \in {"up", "panicked", "exited"}
    /\ \A d \in Dev :
          hpc[d] \in {"stopOld", "closeOld", "unregOld"} => found[d] \in Dev

\* The registry never shows a device whose handler has finished: although
\* Unregister deletes by identifier, whoever the entry belongs to, no entry
\* outlives the handler that stored it (handleDevice's deferred Unregister).
NoGhostEntry ==
    \A i \in Id : registry[i] # None =>
        IdOf[registry[i]] = i /\ hpc[registry[i]] \in Registered

\* A device whose StopKeepalive is closed is being taken over by a handler that
\* still has to close its connection or to remove its entry; once that is done
\* its connection is closed and it is out of the registry for good.
Superseded ==
    \A d \in Dev : stop[d] =>
        \/ \E e \in Dev : found[e] = d /\ hpc[e] = "closeOld"
        \/ /\ conn[d] = "closed"
           /\ \/ registry[IdOf[d]] # d
              \/ \E e \in Dev : found[e] = d /\ hpc[e] = "unregOld"

\* A registered device has a reader that still watches its connection, unless a
\* takeover is about to remove it: otherwise nobody would notice its end.
Watched ==
    \A d \in Dev :
        (hpc[d] = "wait" /\ registry[IdOf[d]] = d /\ reader[d] = "stopped")
            => \E e \in Dev : found[e] = d /\ hpc[e] \in {"closeOld", "unregOld"}

\* What the entry of a waiting device can be lost to: a handler with the same
\* identifier that has already begun to register.  Alone, a device is never
\* dropped.
LostToRival ==
    \A d \in Dev : hpc[d] \in Registered /\ registry[IdOf[d]] # d =>
        \E e \in Dev \ {d} :
            IdOf[e] = IdOf[d] /\ hpc[e] \notin {"idle", "refused", "get"}

\* The double close of StopKeepalive takes two handlers that race to replace a
\* third connection: with one re-registration at a time the process survives.
PanicNeedsRace ==
    process = "panicked" => \E d \in Dev : \E e \in Dev \ {d} : \E f \in Dev \ {d, e} :
        found[e] = d /\ found[f] = d

\* A device connection that is gone leaves the registry: "detect connection
\* close immediately" (deviceReader), unless the process panics.
DeadDeviceRemoved ==
    \A d \in Dev :
        (registry[IdOf[d]] = d /\ conn[d] # "open")
            ~> (registry[IdOf[d]] # d \/ process # "up")

\* Closing StopKeepalive ends the two goroutines of the superseded device and
\* gets its handler past its waits for input.
SupersededHelpersEnd ==
    \A d \in Dev :
        stop[d] ~> \/ process # "up"
                   \/ /\ hpc[d] \in {"wait", "unregister", "close", "done"}
                      /\ reader[d] \notin {"check", "read"}
                      /\ keep[d] \notin {"select", "write"}

\* Two handlers never close the same StopKeepalive ("Stop old keepalive
\* goroutine first"): a re-registration does not take the proxy down.
NoPanic == process # "panicked"

\* A registered device whose connection is up and that nobody superseded stays
\* in the registry: "After registration, the connection is maintained via TCP
\* keepalive (no additional commands required from the device)" (README.md).
StaysRegistered ==
    \A d \in Dev :
        (hpc[d] = "wait" /\ conn[d] = "open" /\ ~stop[d] /\ ~ctxDone
            /\ \A e \in Dev \ {d} : hpc[e] \in {"idle", "done"})
        => registry[IdOf[d]] = d
=============================================================================
