------------------------------- MODULE Proxy -------------------------------
(***************************************************************************)
(* The whole proxy: the handlers of Devices and of Sessions run side by    *)
(* side and share the registry and the devices' connections.  A client's   *)
(* handler closes a device's connection under the device's own goroutines, *)
(* a takeover or a shutdown closes it under a session, and a panic in a    *)
(* device handler stops everybody (internal/connection/handler.go,         *)
(* cmd/proxy/main.go).                                                     *)
(***************************************************************************)
CONSTANTS
    Dev, Id, IdOf, VcomDev, None,  \* as in Devices
    Client, Wants, Modem,          \* as in Sessions
    KeepaliveOn                    \* cfg.IdleTimeout > 0: main gives it to both sides

VARIABLES
    registry, conn,                                         \* shared
    hpc, found, stop, reader, keep, ctxDone, process,       \* Devices
    cconn, cpc, dev, sessions, busy, copying, nop, term     \* Sessions

D == INSTANCE Devices
S == INSTANCE Sessions

ASSUME ProxyAssumption == D!DevicesAssumption /\ S!SessionsAssumption

deviceOnly == <<hpc, found, stop, reader, keep, ctxDone, process>>
clientOnly == <<cconn, cpc, dev, sessions, busy, copying, nop, term>>
vars == <<registry, conn, deviceOnly, clientOnly>>

Init == D!Init /\ S!Init

\* A step of a device handler, its goroutines, its peer, or of the shutdown.
DeviceStep ==
    /\ \/ D!Shutdown
       \/ \E d \in Dev : D!Arrive(d) \/ D!Handler(d) \/ D!Reader(d)
                            \/ D!Keepalive(d) \/ D!PeerCloses(d)
    /\ UNCHANGED clientOnly

\* A step of a client handler, its bridge, its peer, or of the API.
ClientStep(c) ==
    /\ process = "up"
    /\ S!ClientSide(c)
    /\ UNCHANGED deviceOnly

Next == DeviceStep \/ \E c \in Client : ClientStep(c)

Spec == Init /\ [][Next]_vars

\* The fairness of the two sides, as each module justifies it.
FairSpec ==
    /\ Spec
    /\ \A d \in Dev :
          /\ WF_vars(D!Handler(d) /\ UNCHANGED clientOnly)
          /\ WF_vars(D!Reader(d) /\ UNCHANGED clientOnly)
          /\ WF_vars(D!Keepalive(d) /\ UNCHANGED clientOnly)
    /\ \A c \in Client :
          /\ WF_vars(process = "up" /\ S!Handler(c) /\ UNCHANGED deviceOnly)
          /\ WF_vars(process = "up" /\ (\E dir \in S!Direction : S!ReadEnds(c, dir))
                              /\ UNCHANGED deviceOnly)
          /\ WF_vars(process = "up" /\ S!Terminate(c) /\ UNCHANGED deviceOnly)

(***************************************************************************)
(* Properties.                                                             *)
(***************************************************************************)

\* What the clients do to the devices is what Devices allows them: they close
\* connections of devices that have been registered, and touch nothing else.
DevicesSpec == D!Spec

\* What the device side does to the clients is what Sessions assumes of it: in
\* particular a Device is never stored again once a client has found it.
SessionsSpec == S!Spec

\* A device that has served a session leaves the registry: its connection is
\* closed by Run, and deviceReader notices.
ServedDeviceLeaves ==
    \A c \in Client :
        (cpc[c] = "join") ~> (process # "up" \/ registry[Wants[c]] # dev[c])

\* "Closing connections will cause bridge to exit and call End()": a session the
\* API terminates leaves the table, wherever handleClient was, and its device
\* the registry.
TerminateFrees ==
    \A c \in Client :
        (term[c] = "client") ~> (process # "up" \/ (c \notin sessions /\ registry[Wants[c]] # dev[c]))

\* A session whose two peers are gone ends and the device is no longer busy.
BothGoneEnds ==
    \A c \in Client :
        (c \in sessions /\ cconn[c] # "open" /\ conn[dev[c]] # "open")
            ~> (process # "up" \/ (c \notin sessions /\ \A d \in Dev : busy[d] # c))
=============================================================================
