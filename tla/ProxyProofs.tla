---------------------------- MODULE ProxyProofs ----------------------------
(***************************************************************************)
(* Proofs about Proxy: it implements Devices and Sessions, so what is      *)
(* proved of each side alone holds of the whole proxy.                     *)
(*                                                                         *)
(* Either side relies on the other for one thing, and both for the same    *)
(* reason: a client holds only devices that have been in the registry      *)
(* (Link).  Such a device may have its connection closed by the client     *)
(* (SessionCloses in Devices), and is never stored again (DeviceRegisters  *)
(* in Sessions).                                                           *)
(***************************************************************************)
EXTENDS Proxy, TLAPS

DP == INSTANCE DevicesProofs
SP == INSTANCE SessionsProofs

\* The device that handleClient holds has been registered.
Link ==
    /\ dev \in [Client -> Dev \cup {None}]
    /\ \A c \in Client : dev[c] \in Dev => hpc[dev[c]] \in D!Published

IInv == D!TypeOK /\ D!NoGhostEntry /\ Link

(***************************************************************************)
(* The proofs about Devices and Sessions, at Proxy's variables: DP and SP  *)
(* define again what D and S define.                                       *)
(***************************************************************************)

\* The actions of D are those of DP.
LEMMA SameDevicesNext == [D!Next]_(D!vars) <=> [DP!Next]_(DP!vars)
  BY DEF D!Next, DP!Next, D!vars, DP!vars, D!handlerVars, DP!handlerVars, D!helperVars, DP!helperVars,
         D!Shutdown, DP!Shutdown, D!Cancel, DP!Cancel, D!Exit, DP!Exit, D!Arrive,
         DP!Arrive, D!ReceiveReg, DP!ReceiveReg, D!RefuseReg, DP!RefuseReg, D!Goto,
         DP!Goto, D!CloseConn, DP!CloseConn, D!Register, DP!Register, D!Unregister,
         DP!Unregister, D!Handler, DP!Handler, D!LookUp, DP!LookUp, D!Takeover,
         DP!Takeover, D!StopOld, DP!StopOld, D!CloseOld, DP!CloseOld, D!UnregisterOld,
         DP!UnregisterOld, D!RegisterNew, DP!RegisterNew, D!WriteOK, DP!WriteOK,
         D!EndWaitAT, DP!EndWaitAT, D!StartHelpers, DP!StartHelpers, D!VcomDeadline,
         DP!VcomDeadline, D!LeaveSpin, DP!LeaveSpin, D!Wake, DP!Wake,
         D!DeferredUnregister, DP!DeferredUnregister, D!DeferredClose, DP!DeferredClose,
         D!Reader, DP!Reader, D!ReaderPoll, DP!ReaderPoll, D!ReaderAgain,
         DP!ReaderAgain, D!ReaderFails, DP!ReaderFails, D!ReaderGoto, DP!ReaderGoto,
         D!Keepalive, DP!Keepalive, D!KeepStop, DP!KeepStop, D!KeepTick, DP!KeepTick,
         D!KeepSent, DP!KeepSent, D!KeepFails, DP!KeepFails, D!KeepGoto, DP!KeepGoto,
         D!Environment, DP!Environment, D!PeerCloses, DP!PeerCloses, D!SessionCloses,
         DP!SessionCloses, D!Published, DP!Published, D!Registered, DP!Registered

\* The initial states and the properties of D are those of DP.
LEMMA SameDevices ==
    /\ D!Init <=> DP!Init
    /\ D!TypeOK <=> DP!TypeOK
    /\ D!NoGhostEntry <=> DP!NoGhostEntry
    /\ D!Superseded <=> DP!Superseded
    /\ D!LostToRival <=> DP!LostToRival
  BY DEF D!Init, DP!Init, D!TypeOK, DP!TypeOK, D!NoGhostEntry, DP!NoGhostEntry,
         D!Superseded, DP!Superseded, D!LostToRival, DP!LostToRival,
         D!Phase, DP!Phase, D!Published, DP!Published, D!Registered, DP!Registered

\* The actions of S are those of SP.
LEMMA SameSessionsNext == [S!Next]_(S!vars) <=> [SP!Next]_(SP!vars)
  BY DEF S!Next, SP!Next, S!vars, SP!vars, S!deviceVars, SP!deviceVars, S!bridgeVars, SP!bridgeVars,
         S!clientVars, SP!clientVars, S!Direction, SP!Direction, S!DeviceSide,
         SP!DeviceSide, S!DeviceRegisters, SP!DeviceRegisters, S!DeviceUnregisters,
         SP!DeviceUnregisters, S!DeviceGone, SP!DeviceGone, S!DeviceClosed,
         SP!DeviceClosed, S!ClientSide, SP!ClientSide, S!Arrive, SP!Arrive, S!Dial,
         SP!Dial, S!RefuseDial, SP!RefuseDial, S!Refuse, SP!Refuse, S!Goto, SP!Goto, S!CloseClientConn,
         SP!CloseClientConn, S!CloseDeviceConn, SP!CloseDeviceConn, S!Handler,
         SP!Handler, S!LookUp, SP!LookUp, S!CheckBusy, SP!CheckBusy, S!CreateSession,
         SP!CreateSession, S!SetSession, SP!SetSession, S!Reply, SP!Reply, S!GiveUp,
         SP!GiveUp, S!End, SP!End, S!ClearSession, SP!ClearSession, S!StartBridge,
         SP!StartBridge, S!LeaveRun, SP!LeaveRun, S!CloseClient, SP!CloseClient,
         S!CloseDevice, SP!CloseDevice, S!Join, SP!Join, S!CleanUp, SP!CleanUp,
         S!WriteNoCarrier, SP!WriteNoCarrier, S!DeferredClose, SP!DeferredClose,
         S!ReadEnds, SP!ReadEnds, S!CopyBreaks, SP!CopyBreaks, S!CopyReturns,
         SP!CopyReturns, S!Source, SP!Source, S!Keepalive, SP!Keepalive, S!NopGoto,
         SP!NopGoto, S!NopStops, SP!NopStops, S!NopTick, SP!NopTick, S!NopClientSent,
         SP!NopClientSent, S!NopClientFails, SP!NopClientFails, S!NopDeviceSent,
         SP!NopDeviceSent, S!NopDeviceFails, SP!NopDeviceFails, S!TerminateLoad,
         SP!TerminateLoad, S!Terminate, SP!Terminate, S!TerminateClient,
         SP!TerminateClient, S!TerminateDevice, SP!TerminateDevice, S!ClientGone,
         SP!ClientGone

\* The initial states and the properties of S are those of SP.
LEMMA SameSessions ==
    /\ S!Init <=> SP!Init
    /\ S!BusyOwned <=> SP!BusyOwned
    /\ S!QuietAfterEnd <=> SP!QuietAfterEnd
  BY DEF S!Init, SP!Init, S!BusyOwned, SP!BusyOwned, S!QuietAfterEnd, SP!QuietAfterEnd,
         S!Marked, SP!Marked

(***************************************************************************)
(* The steps of the client side.                                           *)
(***************************************************************************)

\* A client side step writes no registry entry and opens no connection: at most
\* it closes the connection of the device it holds.
LEMMA ClientFrame ==
    ASSUME NEW c \in Client, ClientStep(c)
    PROVE  /\ registry' = registry
           /\ UNCHANGED deviceOnly
           /\ \/ conn' = conn
              \/ conn' = [conn EXCEPT ![dev[c]] = "closed"]
           /\ \/ dev' = dev
              \/ dev' = [dev EXCEPT ![c] = registry[Wants[c]]]
<1> USE DEF ClientStep, S!deviceVars, S!bridgeVars, S!Goto, S!CloseClientConn,
            S!CloseDeviceConn
<1>1. CASE S!Arrive(c)
  BY <1>1 DEF S!Arrive, S!Dial, S!RefuseDial
<1>2. CASE S!LookUp(c) \/ S!Refuse(c)
  BY <1>2 DEF S!LookUp, S!Refuse
<1>3. CASE \/ S!CheckBusy(c) \/ S!CreateSession(c) \/ S!SetSession(c) \/ S!Reply(c)
           \/ S!GiveUp(c) \/ S!CleanUp(c)
  BY <1>3 DEF S!CheckBusy, S!CreateSession, S!SetSession, S!Reply, S!GiveUp, S!CleanUp,
              S!End, S!ClearSession
<1>4. CASE \/ S!StartBridge(c) \/ S!LeaveRun(c) \/ S!CloseClient(c) \/ S!CloseDevice(c)
           \/ S!Join(c) \/ S!WriteNoCarrier(c) \/ S!DeferredClose(c)
  BY <1>4 DEF S!StartBridge, S!LeaveRun, S!CloseClient, S!CloseDevice, S!Join,
              S!WriteNoCarrier, S!DeferredClose
<1>5. CASE S!Keepalive(c)
  BY <1>5 DEF S!Keepalive, S!NopStops, S!NopTick, S!NopClientSent, S!NopClientFails,
              S!NopDeviceSent, S!NopDeviceFails, S!NopGoto
<1>6. CASE \E dir \in S!Direction : S!ReadEnds(c, dir) \/ S!CopyBreaks(c, dir)
  BY <1>6 DEF S!ReadEnds, S!CopyBreaks, S!CopyReturns
<1>7. CASE S!TerminateLoad(c) \/ S!Terminate(c) \/ S!ClientGone(c)
  BY <1>7 DEF S!TerminateLoad, S!Terminate, S!TerminateClient, S!TerminateDevice,
              S!ClientGone
<1>8. QED
  BY <1>1, <1>2, <1>3, <1>4, <1>5, <1>6, <1>7 DEF S!ClientSide, S!Handler

\* To the device side, a client side step is a SessionCloses or nothing.
LEMMA ClientStepRefines ==
    ASSUME IInv, NEW c \in Client, ClientStep(c)
    PROVE  [D!Next]_(D!vars)
<1> USE DEF IInv, D!TypeOK, Link
<1>1. CASE conn' = conn
  BY <1>1, ClientFrame DEF D!vars, deviceOnly
<1>2. CASE conn' = [conn EXCEPT ![dev[c]] = "closed"] /\ conn' # conn
  <2>1. dev[c] \in Dev /\ conn[dev[c]] # "closed"
    BY <1>2, ProxyAssumption DEF ProxyAssumption, D!DevicesAssumption
  <2>2. D!SessionCloses(dev[c])
    BY <1>2, <2>1, ClientFrame DEF D!SessionCloses, D!CloseConn, D!handlerVars,
       D!helperVars, deviceOnly, ClientStep
  <2>3. QED
    BY <2>1, <2>2 DEF D!Next, D!Environment
<1>3. QED
  BY <1>1, <1>2, ClientFrame

(***************************************************************************)
(* The steps of the device side.                                           *)
(***************************************************************************)

\* To the client side, a device side step stores, removes or closes a device,
\* or is nothing; a device that a client holds is not stored again.
LEMMA DeviceStepRefines ==
    ASSUME IInv, DeviceStep
    PROVE  [S!Next]_(S!vars)
<1> USE DEF clientOnly, S!clientVars, S!bridgeVars
<1>1. UNCHANGED clientOnly
  BY DEF DeviceStep
<1>2. ASSUME UNCHANGED <<registry, conn>> PROVE [S!Next]_(S!vars)
  BY <1>1, <1>2 DEF S!vars
<1>3. ASSUME NEW d \in Dev, registry' = registry, conn' = [conn EXCEPT ![d] = "closed"]
      PROVE  [S!Next]_(S!vars)
  BY <1>1, <1>3 DEF S!Next, S!DeviceSide, S!DeviceClosed, S!CloseDeviceConn
<1>4. ASSUME NEW i \in Id, conn' = conn, registry' = [registry EXCEPT ![i] = None]
      PROVE  [S!Next]_(S!vars)
  BY <1>1, <1>4 DEF S!Next, S!DeviceSide, S!DeviceUnregisters
<1>5. ASSUME NEW d \in Dev, D!RegisterNew(d) PROVE [S!Next]_(S!vars)
  <2>1. \A c \in Client : dev[c] # d
    BY <1>5 DEF IInv, Link, D!RegisterNew, D!Goto, D!Published, D!Registered
  <2>2. S!DeviceRegisters(d)
    BY <1>1, <1>5, <2>1 DEF S!DeviceRegisters, D!RegisterNew, D!Register
  <2>3. QED
    BY <2>2 DEF S!Next, S!DeviceSide
<1>6. ASSUME NEW d \in Dev, D!PeerCloses(d) PROVE [S!Next]_(S!vars)
  BY <1>1, <1>6 DEF D!PeerCloses, S!Next, S!DeviceSide, S!DeviceGone
<1>7. CASE D!Shutdown
  BY <1>2, <1>7 DEF D!Shutdown, D!Cancel, D!Exit
<1>8. ASSUME NEW d \in Dev, D!CloseOld(d) PROVE [S!Next]_(S!vars)
  BY <1>3, <1>8 DEF D!CloseOld, D!CloseConn, D!Goto, IInv, D!TypeOK
<1>9. ASSUME NEW d \in Dev, D!RefuseReg(d) \/ D!DeferredClose(d) \/ D!Keepalive(d)
      PROVE  [S!Next]_(S!vars)
  BY <1>2, <1>3, <1>9 DEF D!RefuseReg, D!DeferredClose, D!CloseConn, D!Keepalive,
     D!KeepStop, D!KeepTick, D!KeepSent, D!KeepFails, D!KeepGoto
<1>10. ASSUME NEW d \in Dev, D!UnregisterOld(d) \/ D!DeferredUnregister(d)
      PROVE  [S!Next]_(S!vars)
  BY <1>4, <1>10, ProxyAssumption DEF ProxyAssumption, D!DevicesAssumption,
     D!UnregisterOld, D!DeferredUnregister, D!Unregister
<1>11. ASSUME NEW d \in Dev,
              \/ D!ReceiveReg(d) \/ D!LookUp(d) \/ D!StopOld(d) \/ D!WriteOK(d)
              \/ D!EndWaitAT(d) \/ D!VcomDeadline(d) \/ D!LeaveSpin(d) \/ D!Wake(d)
              \/ D!Reader(d)
       PROVE  [S!Next]_(S!vars)
  BY <1>2, <1>11 DEF D!ReceiveReg, D!LookUp, D!StopOld, D!WriteOK, D!EndWaitAT,
     D!VcomDeadline, D!LeaveSpin, D!Wake, D!Reader, D!ReaderPoll, D!ReaderAgain,
     D!ReaderFails, D!ReaderGoto
<1>12. QED
  BY <1>5, <1>6, <1>7, <1>8, <1>9, <1>10, <1>11
     DEF DeviceStep, D!Arrive, D!Handler, D!Takeover

(***************************************************************************)
(* The invariant that ties the two sides together.                         *)
(***************************************************************************)

\* Every step of Proxy is a step of either side, or leaves that side alone.
LEMMA BothRefine ==
    ASSUME IInv, [Next]_vars
    PROVE  [D!Next]_(D!vars) /\ [S!Next]_(S!vars)
<1>1. CASE UNCHANGED vars
  BY <1>1 DEF vars, deviceOnly, clientOnly, D!vars, S!vars
<1>2. CASE DeviceStep
  <2>1. D!Next
    BY <1>2 DEF DeviceStep, D!Next, D!Environment
  <2>2. QED
    BY <1>2, <2>1, DeviceStepRefines
<1>3. ASSUME NEW c \in Client, ClientStep(c)
      PROVE  [D!Next]_(D!vars) /\ [S!Next]_(S!vars)
  <2>1. S!Next
    BY <1>3 DEF ClientStep, S!Next
  <2>2. QED
    BY <1>3, <2>1, ClientStepRefines
<1>4. QED
  BY <1>1, <1>2, <1>3 DEF Next

\* A client looks up a registered device, and registration is never undone in
\* the device's handler.
LEMMA LinkStep ==
    ASSUME IInv, [Next]_vars
    PROVE  Link'
<1> USE ProxyAssumption DEF ProxyAssumption, S!SessionsAssumption
<1>1. \A d \in Dev : hpc[d] \in D!Published => hpc'[d] \in D!Published
  <2>1. \A d \in Dev : DP!OneWay(d)
    BY BothRefine, SameDevices, SameDevicesNext, DP!OneWayStep DEF IInv, D!DevicesAssumption, DP!DevicesAssumption
  <2>2. QED
    BY <2>1 DEF DP!OneWay, DP!Published, DP!Registered, D!Published, D!Registered
<1>2. CASE dev' = dev
  BY <1>1, <1>2 DEF IInv, Link
<1>3. ASSUME NEW c \in Client, ClientStep(c), dev' = [dev EXCEPT ![c] = registry[Wants[c]]]
      PROVE  Link'
  <2>1. registry[Wants[c]] \in Dev => hpc[registry[Wants[c]]] \in D!Published
    BY DEF IInv, D!NoGhostEntry, D!Published
  <2>2. QED
    BY <1>1, <1>3, <2>1 DEF IInv, Link, D!TypeOK
<1>4. QED
  BY <1>2, <1>3, ClientFrame DEF Next, DeviceStep, vars, clientOnly

\* The invariant holds in every reachable state.
LEMMA Invariant == Spec => []IInv
<1>1. Init => IInv
  <2>1. D!Init => D!TypeOK /\ D!NoGhostEntry
    BY SameDevices, DP!InitIInv, DP!InitTypeOK, ProxyAssumption
       DEF ProxyAssumption, D!DevicesAssumption, DP!DevicesAssumption, DP!IInv
  <2>2. S!Init => Link
    BY ProxyAssumption DEF ProxyAssumption, D!DevicesAssumption, S!Init, Link
  <2>3. QED
    BY <2>1, <2>2 DEF Init, IInv
<1>2. IInv /\ [Next]_vars => IInv'
  <2>1. ASSUME IInv, [Next]_vars PROVE D!TypeOK' /\ D!NoGhostEntry'
    <3>1. DP!TypeOK' /\ DP!NoGhostEntry'
      BY <2>1, BothRefine, SameDevices, SameDevicesNext, DP!NextTypeOK, DP!NoGhostStep,
         ProxyAssumption
         DEF IInv, ProxyAssumption, D!DevicesAssumption, DP!DevicesAssumption
    <3>2. QED
      BY <3>1, SameDevices, PTL
  <2>2. QED
    BY <2>1, LinkStep DEF IInv
<1>3. QED
  BY <1>1, <1>2, PTL DEF Spec

(***************************************************************************)
(* The theorems.                                                           *)
(***************************************************************************)

\* The proxy implements Devices: clients do to the devices nothing but close the
\* connections of devices that have been registered (Bridge.Run, keepalive and
\* Manager.Terminate).
THEOREM ImplementsDevices == Spec => DevicesSpec
<1>1. Init => D!Init
  BY DEF Init
<1>2. QED
  BY <1>1, Invariant, BothRefine, PTL DEF Spec, DevicesSpec, D!Spec

\* The proxy implements Sessions: to the clients the device side is what that
\* module assumes, and a Device a client holds is never registered again.
THEOREM ImplementsSessions == Spec => SessionsSpec
<1>1. Init => S!Init
  BY DEF Init
<1>2. QED
  BY <1>1, Invariant, BothRefine, PTL DEF Spec, SessionsSpec, S!Spec

\* In the whole proxy the registry lists only devices whose handler is running,
\* whatever sessions do to the connections.
THEOREM ProxyNoGhost == Spec => []D!NoGhostEntry
<1>1. IInv => D!NoGhostEntry
  BY DEF IInv
<1>2. QED
  BY <1>1, Invariant, PTL

\* In the whole proxy a device is never left busy.
THEOREM ProxyNeverStuckBusy == Spec => []S!BusyOwned
<1>1. S!Spec => SP!Spec
  BY SameSessions, SameSessionsNext, PTL DEF S!Spec, SP!Spec
<1>2. SP!Spec => []SP!BusyOwned
  BY SP!NeverStuckBusy, ProxyAssumption
     DEF ProxyAssumption, S!SessionsAssumption, SP!SessionsAssumption
<1>3. QED
  BY <1>1, <1>2, ImplementsSessions, SameSessions, PTL DEF SessionsSpec

\* In the whole proxy a session that has left the table copies nothing.
THEOREM ProxyNoCopyAfterEnd == Spec => []S!QuietAfterEnd
<1>1. S!Spec => SP!Spec
  BY SameSessions, SameSessionsNext, PTL DEF S!Spec, SP!Spec
<1>2. SP!Spec => []SP!QuietAfterEnd
  BY SP!NoCopyAfterEnd, ProxyAssumption
     DEF ProxyAssumption, S!SessionsAssumption, SP!SessionsAssumption
<1>3. QED
  BY <1>1, <1>2, ImplementsSessions, SameSessions, PTL DEF SessionsSpec

\* In the whole proxy a takeover leaves nothing of the old device behind.
THEOREM ProxyTakeoverComplete == Spec => []D!Superseded
<1>1. D!Spec => DP!Spec
  BY SameDevices, SameDevicesNext, PTL DEF D!Spec, DP!Spec
<1>2. DP!Spec => []DP!Superseded
  BY DP!TakeoverComplete, ProxyAssumption
     DEF ProxyAssumption, D!DevicesAssumption, DP!DevicesAssumption
<1>3. QED
  BY <1>1, <1>2, ImplementsDevices, SameDevices, PTL DEF DevicesSpec
=============================================================================
