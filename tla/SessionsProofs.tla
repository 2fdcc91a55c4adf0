--------------------------- MODULE SessionsProofs ---------------------------
(***************************************************************************)
(* Proofs about Sessions, for any set of clients, devices and identifiers  *)
(* and any behaviour of the device side.                                   *)
(***************************************************************************)
EXTENDS Sessions, TLAPS

\* handleClient has created its session and not yet called End.
InTable == {"set", "reply", "endErr", "bridge", "run", "closeC", "closeD", "join", "end"}

\* The session table is what the program counters say it is.
TableOfPhases ==
    \A c \in Client : c \in sessions <=> cpc[c] \in InTable

\* The copy goroutines live inside Bridge.Run, and once Run's Join is passed
\* there is none.
CopyingInsideRun ==
    \A c \in Client : copying[c] # {} => cpc[c] \in {"run", "closeC", "closeD", "join"}

\* Run closes the client first.
ClientClosedFirst ==
    \A c \in Client : cpc[c] = "closeD" => cconn[c] = "closed"

IInv ==
    /\ TypeOK /\ BusyOwned /\ MarkLostToRival
    /\ TableOfPhases /\ CopyingInsideRun /\ ClientClosedFirst /\ EndClosesBoth

\* Steps that change neither a handler, nor the table, the marks and the copies.
Bystander ==
    \/ DeviceSide
    \/ \E c \in Client : Keepalive(c) \/ TerminateLoad(c) \/ Terminate(c) \/ ClientGone(c)

\* The actions of Next, one by one, as the case splits below use them.
LEMMA NextCases ==
    ASSUME Next
    PROVE  \/ Bystander
           \/ \E c \in Client :
                \/ Dial(c) \/ RefuseDial(c) \/ Refuse(c) \/ LookUp(c) \/ CheckBusy(c)
                \/ CreateSession(c) \/ SetSession(c) \/ Reply(c)
                \/ End(c, "endErr", "clearErr") \/ ClearSession(c, "clearErr", "close")
                \/ StartBridge(c) \/ LeaveRun(c) \/ CloseClient(c) \/ CloseDevice(c)
                \/ Join(c) \/ End(c, "end", "clear")
                \/ ClearSession(c, "clear", IF c \in Modem THEN "noCarrier" ELSE "close")
                \/ WriteNoCarrier(c) \/ DeferredClose(c)
                \/ \E dir \in Direction : CopyReturns(c, dir)
  BY DEF Next, ClientSide, Arrive, Handler, GiveUp, CleanUp, Bystander, ReadEnds, CopyBreaks

(***************************************************************************)
(* Type correctness.                                                       *)
(***************************************************************************)

\* The initial state is well typed.
LEMMA InitTypeOK == Init => TypeOK
<1> SUFFICES ASSUME Init PROVE TypeOK
  OBVIOUS
<1>1. \A c \in Client : cpc[c] \notin Held
  BY DEF Init, Held, Marked
<1>2. registry \in [Id -> Dev \cup {None}] /\ dev \in [Client -> Dev \cup {None}]
  BY DEF Init
<1>3. cpc \in [Client -> Phase] /\ conn \in [Dev -> ConnState] /\ cconn \in [Client -> ConnState]
  BY DEF Init, Phase, ConnState
<1>4. sessions \subseteq Client /\ busy \in [Dev -> Client \cup {None}]
  BY DEF Init
<1>5. copying \in [Client -> SUBSET Direction]
  BY DEF Init
<1>6. /\ nop \in [Client -> {"none", "select", "client", "device", "done"}]
      /\ term \in [Client -> {"none", "client", "device"}]
  BY DEF Init
<1>7. QED
  BY <1>1, <1>2, <1>3, <1>4, <1>5, <1>6 DEF TypeOK

\* The device side, the keepalives, Terminate and departing clients keep types,
\* leave the handlers alone and reopen nothing.
LEMMA BystanderFrame ==
    ASSUME TypeOK, Bystander
    PROVE  /\ TypeOK'
           /\ UNCHANGED <<cpc, dev, sessions, busy, copying>>
           /\ \A d \in Dev : conn[d] = "closed" => conn'[d] = "closed"
           /\ \A c \in Client : cconn[c] = "closed" => cconn'[c] = "closed"
<1> USE SessionsAssumption DEF SessionsAssumption, TypeOK, ConnState
<1>1. CASE DeviceSide
  BY <1>1 DEF DeviceSide, DeviceRegisters, DeviceGone, DeviceClosed, DeviceUnregisters,
              CloseDeviceConn, clientVars, bridgeVars
<1>2. ASSUME NEW c \in Client, Keepalive(c)
      PROVE  /\ TypeOK'
             /\ UNCHANGED <<cpc, dev, sessions, busy, copying>>
             /\ \A d \in Dev : conn[d] = "closed" => conn'[d] = "closed"
             /\ \A b \in Client : cconn[b] = "closed" => cconn'[b] = "closed"
  BY <1>2 DEF Keepalive, NopStops, NopTick, NopClientSent, NopClientFails, NopDeviceSent,
              NopDeviceFails, NopGoto, CloseClientConn, CloseDeviceConn
<1>3. ASSUME NEW c \in Client, TerminateLoad(c) \/ Terminate(c) \/ ClientGone(c)
      PROVE  /\ TypeOK'
             /\ UNCHANGED <<cpc, dev, sessions, busy, copying>>
             /\ \A d \in Dev : conn[d] = "closed" => conn'[d] = "closed"
             /\ \A b \in Client : cconn[b] = "closed" => cconn'[b] = "closed"
  BY <1>3 DEF TerminateLoad, Terminate, TerminateClient, TerminateDevice, ClientGone,
              CloseClientConn, CloseDeviceConn, deviceVars, bridgeVars
<1>4. QED
  BY <1>1, <1>2, <1>3 DEF Bystander

\* Every reachable state is well typed: in particular no step past the lookup
\* uses a nil Device (handleClient 416-425).
THEOREM TypeCorrect == Spec => []TypeOK
<1>1. TypeOK /\ [Next]_vars => TypeOK'
  <2> SUFFICES ASSUME TypeOK, [Next]_vars PROVE TypeOK'
    OBVIOUS
  <2> USE SessionsAssumption
      DEF SessionsAssumption, TypeOK, ConnState, Phase, Held, Marked, Leaving, Goto,
          deviceVars, bridgeVars
  <2>1. CASE UNCHANGED vars
    BY <2>1 DEF vars
  <2>2. CASE Bystander
    BY <2>2, BystanderFrame
  <2>3. ASSUME NEW c \in Client, Dial(c) \/ RefuseDial(c) \/ Refuse(c) PROVE TypeOK'
    BY <2>3 DEF Dial, RefuseDial, Refuse, CloseClientConn
  <2>4. ASSUME NEW c \in Client, LookUp(c) PROVE TypeOK'
    BY <2>4 DEF LookUp
  <2>5. ASSUME NEW c \in Client, CheckBusy(c) \/ CreateSession(c) PROVE TypeOK'
    BY <2>5 DEF CheckBusy, CreateSession
  <2>6. ASSUME NEW c \in Client, SetSession(c) PROVE TypeOK'
    BY <2>6 DEF SetSession
  <2>7. ASSUME NEW c \in Client, Reply(c) \/ LeaveRun(c) \/ Join(c) \/ WriteNoCarrier(c)
        PROVE  TypeOK'
    BY <2>7 DEF Reply, LeaveRun, Join, WriteNoCarrier
  <2>8. ASSUME NEW c \in Client, End(c, "endErr", "clearErr") \/ End(c, "end", "clear")
        PROVE  TypeOK'
    BY <2>8 DEF End
  <2>9. ASSUME NEW c \in Client,
               \/ ClearSession(c, "clearErr", "close")
               \/ ClearSession(c, "clear", IF c \in Modem THEN "noCarrier" ELSE "close")
        PROVE  TypeOK'
    BY <2>9 DEF ClearSession
  <2>10. ASSUME NEW c \in Client, StartBridge(c) PROVE TypeOK'
    BY <2>10 DEF StartBridge
  <2>11. ASSUME NEW c \in Client, CloseClient(c) \/ DeferredClose(c) PROVE TypeOK'
    BY <2>11 DEF CloseClient, DeferredClose, CloseClientConn
  <2>12. ASSUME NEW c \in Client, CloseDevice(c) PROVE TypeOK'
    BY <2>12 DEF CloseDevice, CloseDeviceConn
  <2>13. ASSUME NEW c \in Client, NEW dir \in Direction, CopyReturns(c, dir) PROVE TypeOK'
    BY <2>13 DEF CopyReturns
  <2>14. QED
    BY <2>1, <2>2, <2>3, <2>4, <2>5, <2>6, <2>7, <2>8, <2>9, <2>10, <2>11, <2>12, <2>13,
       NextCases
<1>2. QED
  BY InitTypeOK, <1>1, PTL DEF Spec

(***************************************************************************)
(* The parts of the inductive invariant, one lemma each.                   *)
(***************************************************************************)

\* What no step undoes: a client keeps the device it looked up, a client that
\* has marked a device never marks another, and nothing is reopened.
OneWay(b) ==
    /\ cpc[b] \notin {"idle", "lookUp"} => dev'[b] = dev[b]
    /\ cpc[b] \in Marked \cup Leaving => cpc'[b] \in Marked \cup Leaving
    /\ cpc[b] \in Leaving => cpc'[b] \in Leaving
    /\ cconn[b] = "closed" => cconn'[b] = "closed"

\* Every step of the system is one-way for every client and device.
LEMMA OneWayStep ==
    ASSUME TypeOK, [Next]_vars
    PROVE  /\ \A b \in Client : OneWay(b)
           /\ \A d \in Dev : conn[d] = "closed" => conn'[d] = "closed"
<1> USE SessionsAssumption
    DEF SessionsAssumption, TypeOK, Goto, Held, Marked, Leaving, deviceVars, bridgeVars, OneWay
<1> DEFINE Goal == /\ \A b \in Client : OneWay(b)
                   /\ \A d \in Dev : conn[d] = "closed" => conn'[d] = "closed"
<1>1. CASE UNCHANGED vars
  BY <1>1 DEF vars
<1>2. CASE Bystander
  BY <1>2, BystanderFrame
<1>3. ASSUME NEW c \in Client, Dial(c) \/ RefuseDial(c) \/ Refuse(c)
      PROVE  Goal
  BY <1>3 DEF Dial, RefuseDial, Refuse, CloseClientConn
<1>4. ASSUME NEW c \in Client, LookUp(c)
      PROVE  Goal
  BY <1>4 DEF LookUp
<1>5. ASSUME NEW c \in Client, CheckBusy(c) \/ CreateSession(c)
      PROVE  Goal
  BY <1>5 DEF CheckBusy, CreateSession
<1>6. ASSUME NEW c \in Client, SetSession(c)
      PROVE  Goal
  BY <1>6 DEF SetSession
<1>7. ASSUME NEW c \in Client, Reply(c) \/ LeaveRun(c) \/ Join(c) \/ WriteNoCarrier(c)
      PROVE  Goal
  BY <1>7 DEF Reply, LeaveRun, Join, WriteNoCarrier
<1>8. ASSUME NEW c \in Client, End(c, "endErr", "clearErr") \/ End(c, "end", "clear")
      PROVE  Goal
  BY <1>8 DEF End
<1>9. ASSUME NEW c \in Client,
             \/ ClearSession(c, "clearErr", "close")
             \/ ClearSession(c, "clear", IF c \in Modem THEN "noCarrier" ELSE "close")
      PROVE  Goal
  BY <1>9 DEF ClearSession
<1>10. ASSUME NEW c \in Client, StartBridge(c)
      PROVE  Goal
  BY <1>10 DEF StartBridge
<1>11. ASSUME NEW c \in Client, CloseClient(c) \/ DeferredClose(c)
      PROVE  Goal
  BY <1>11 DEF CloseClient, DeferredClose, CloseClientConn
<1>12. ASSUME NEW c \in Client, CloseDevice(c)
      PROVE  Goal
  BY <1>12 DEF CloseDevice, CloseDeviceConn
<1>13. ASSUME NEW c \in Client, NEW dir \in Direction, CopyReturns(c, dir)
      PROVE  Goal
  BY <1>13 DEF CopyReturns
<1>14. QED
  BY <1>1, <1>2, <1>3, <1>4, <1>5, <1>6, <1>7, <1>8, <1>9, <1>10, <1>11, <1>12, <1>13,
     NextCases

\* handleClient before the reply, and before Bridge.Run.
Early == {"idle", "refuse", "lookUp", "check", "create", "set", "reply"}
BeforeRun == Early \cup {"refused", "endErr", "clearErr", "bridge"}

\* A handler never returns to a phase before the reply or before Run, and only
\* handleClient at its bridge starts copies.
Onward(b) ==
    /\ cpc'[b] \in Early => cpc[b] \in Early
    /\ cpc'[b] \in BeforeRun => cpc[b] \in BeforeRun
    /\ cpc'[b] = "idle" => cpc[b] = "idle"
    /\ cpc'[b] \in {"idle", "lookUp"} => cpc[b] \in {"idle", "lookUp"} /\ dev'[b] = dev[b]
    /\ cpc'[b] = "bridge" => cpc[b] \in {"reply", "bridge"}
    /\ cpc[b] # "lookUp" => dev'[b] = dev[b]
    /\ cpc[b] = "lookUp" => cpc'[b] \in Early
    /\ cpc'[b] = "refused" => cpc[b] \in {"refuse", "refused"}
    /\ cpc[b] # "bridge" => copying'[b] \subseteq copying[b]

\* Every step of the system is onward for every client.
LEMMA OnwardStep ==
    ASSUME TypeOK, [Next]_vars
    PROVE  \A b \in Client : Onward(b)
<1> USE SessionsAssumption
    DEF SessionsAssumption, TypeOK, Goto, deviceVars, bridgeVars, Onward, Early, BeforeRun
<1> DEFINE Goal == \A b \in Client : Onward(b)
<1>1. CASE UNCHANGED vars
  BY <1>1 DEF vars
<1>2. CASE Bystander
  BY <1>2, BystanderFrame
<1>3. ASSUME NEW c \in Client, Dial(c) \/ RefuseDial(c) \/ Refuse(c)
      PROVE  Goal
  BY <1>3 DEF Dial, RefuseDial, Refuse, CloseClientConn
<1>4. ASSUME NEW c \in Client, LookUp(c)
      PROVE  Goal
  BY <1>4 DEF LookUp
<1>5. ASSUME NEW c \in Client, CheckBusy(c) \/ CreateSession(c)
      PROVE  Goal
  BY <1>5 DEF CheckBusy, CreateSession
<1>6. ASSUME NEW c \in Client, SetSession(c)
      PROVE  Goal
  BY <1>6 DEF SetSession
<1>7. ASSUME NEW c \in Client, Reply(c) \/ LeaveRun(c) \/ Join(c) \/ WriteNoCarrier(c)
      PROVE  Goal
  BY <1>7 DEF Reply, LeaveRun, Join, WriteNoCarrier
<1>8. ASSUME NEW c \in Client, End(c, "endErr", "clearErr") \/ End(c, "end", "clear")
      PROVE  Goal
  BY <1>8 DEF End
<1>9. ASSUME NEW c \in Client,
             \/ ClearSession(c, "clearErr", "close")
             \/ ClearSession(c, "clear", IF c \in Modem THEN "noCarrier" ELSE "close")
      PROVE  Goal
  BY <1>9 DEF ClearSession
<1>10. ASSUME NEW c \in Client, StartBridge(c)
      PROVE  Goal
  BY <1>10 DEF StartBridge
<1>11. ASSUME NEW c \in Client, CloseClient(c) \/ DeferredClose(c)
      PROVE  Goal
  BY <1>11 DEF CloseClient, DeferredClose, CloseClientConn
<1>12. ASSUME NEW c \in Client, CloseDevice(c)
      PROVE  Goal
  BY <1>12 DEF CloseDevice, CloseDeviceConn
<1>13. ASSUME NEW c \in Client, NEW dir \in Direction, CopyReturns(c, dir)
      PROVE  Goal
  BY <1>13 DEF CopyReturns
<1>14. QED
  BY <1>1, <1>2, <1>3, <1>4, <1>5, <1>6, <1>7, <1>8, <1>9, <1>10, <1>11, <1>12, <1>13,
     NextCases

\* No connection of a device is opened.
LEMMA NeverReopened ==
    ASSUME TypeOK, [Next]_vars, NEW d \in Dev, conn'[d] = "open"
    PROVE  conn[d] = "open"
<1> USE SessionsAssumption DEF SessionsAssumption, TypeOK, CloseDeviceConn
<1>1. CASE conn' = conn
  BY <1>1
<1>2. ASSUME NEW e, conn' = [conn EXCEPT ![e] = "closed"] PROVE conn[d] = "open"
  BY <1>2
<1>3. CASE DeviceSide
  BY <1>3 DEF DeviceSide, DeviceRegisters, DeviceUnregisters, DeviceGone, DeviceClosed
<1>4. ASSUME NEW c \in Client,
             CloseDevice(c) \/ NopDeviceFails(c) \/ TerminateDevice(c)
      PROVE  conn[d] = "open"
  <2>1. conn' = [conn EXCEPT ![dev[c]] = "closed"]
    BY <1>4 DEF CloseDevice, NopDeviceFails, TerminateDevice
  <2>2. QED
    BY <1>2, <2>1
<1>5. ASSUME NEW c \in Client, ClientSide(c),
             ~(CloseDevice(c) \/ NopDeviceFails(c) \/ TerminateDevice(c))
      PROVE  conn' = conn
  BY <1>5 DEF ClientSide, Arrive, Dial, RefuseDial, Refuse, Handler, LookUp, CheckBusy, CreateSession,
     SetSession, Reply, GiveUp, End, ClearSession, StartBridge, LeaveRun, CloseClient, Join,
     CleanUp, WriteNoCarrier, DeferredClose, Keepalive, NopStops, NopTick, NopClientSent,
     NopClientFails, NopDeviceSent, ReadEnds, CopyBreaks, CopyReturns, TerminateLoad,
     Terminate, TerminateClient, ClientGone, deviceVars
<1>6. QED
  BY <1>1, <1>3, <1>4, <1>5 DEF Next, vars

\* A session enters the table with Create and leaves it with End.
LEMMA TableStep ==
    ASSUME TypeOK, TableOfPhases, [Next]_vars
    PROVE  TableOfPhases'
<1> USE SessionsAssumption
    DEF SessionsAssumption, TypeOK, Goto, Held, Marked, Leaving, deviceVars, bridgeVars, TableOfPhases, InTable
<1>1. CASE UNCHANGED vars
  BY <1>1 DEF vars
<1>2. CASE Bystander
  BY <1>2, BystanderFrame
<1>3. ASSUME NEW c \in Client, Dial(c) \/ RefuseDial(c) \/ Refuse(c)
      PROVE  TableOfPhases'
  BY <1>3 DEF Dial, RefuseDial, Refuse, CloseClientConn
<1>4. ASSUME NEW c \in Client, LookUp(c)
      PROVE  TableOfPhases'
  BY <1>4 DEF LookUp
<1>5. ASSUME NEW c \in Client, CheckBusy(c) \/ CreateSession(c)
      PROVE  TableOfPhases'
  BY <1>5 DEF CheckBusy, CreateSession
<1>6. ASSUME NEW c \in Client, SetSession(c)
      PROVE  TableOfPhases'
  BY <1>6 DEF SetSession
<1>7. ASSUME NEW c \in Client, Reply(c) \/ LeaveRun(c) \/ Join(c) \/ WriteNoCarrier(c)
      PROVE  TableOfPhases'
  BY <1>7 DEF Reply, LeaveRun, Join, WriteNoCarrier
<1>8. ASSUME NEW c \in Client, End(c, "endErr", "clearErr") \/ End(c, "end", "clear")
      PROVE  TableOfPhases'
  BY <1>8 DEF End
<1>9. ASSUME NEW c \in Client,
             \/ ClearSession(c, "clearErr", "close")
             \/ ClearSession(c, "clear", IF c \in Modem THEN "noCarrier" ELSE "close")
      PROVE  TableOfPhases'
  BY <1>9 DEF ClearSession
<1>10. ASSUME NEW c \in Client, StartBridge(c)
      PROVE  TableOfPhases'
  BY <1>10 DEF StartBridge
<1>11. ASSUME NEW c \in Client, CloseClient(c) \/ DeferredClose(c)
      PROVE  TableOfPhases'
  BY <1>11 DEF CloseClient, DeferredClose, CloseClientConn
<1>12. ASSUME NEW c \in Client, CloseDevice(c)
      PROVE  TableOfPhases'
  BY <1>12 DEF CloseDevice, CloseDeviceConn
<1>13. ASSUME NEW c \in Client, NEW dir \in Direction, CopyReturns(c, dir)
      PROVE  TableOfPhases'
  BY <1>13 DEF CopyReturns
<1>14. QED
  BY <1>1, <1>2, <1>3, <1>4, <1>5, <1>6, <1>7, <1>8, <1>9, <1>10, <1>11, <1>12, <1>13,
     NextCases

\* Run starts the copies, and leaves its Join only when there is none.
LEMMA CopyingStep ==
    ASSUME TypeOK, CopyingInsideRun, [Next]_vars
    PROVE  CopyingInsideRun'
<1> USE SessionsAssumption
    DEF SessionsAssumption, TypeOK, Goto, Held, Marked, Leaving, deviceVars, bridgeVars, CopyingInsideRun
<1>1. CASE UNCHANGED vars
  BY <1>1 DEF vars
<1>2. CASE Bystander
  BY <1>2, BystanderFrame
<1>3. ASSUME NEW c \in Client, Dial(c) \/ RefuseDial(c) \/ Refuse(c)
      PROVE  CopyingInsideRun'
  BY <1>3 DEF Dial, RefuseDial, Refuse, CloseClientConn
<1>4. ASSUME NEW c \in Client, LookUp(c)
      PROVE  CopyingInsideRun'
  BY <1>4 DEF LookUp
<1>5. ASSUME NEW c \in Client, CheckBusy(c) \/ CreateSession(c)
      PROVE  CopyingInsideRun'
  BY <1>5 DEF CheckBusy, CreateSession
<1>6. ASSUME NEW c \in Client, SetSession(c)
      PROVE  CopyingInsideRun'
  BY <1>6 DEF SetSession
<1>7. ASSUME NEW c \in Client, Reply(c) \/ LeaveRun(c) \/ Join(c) \/ WriteNoCarrier(c)
      PROVE  CopyingInsideRun'
  BY <1>7 DEF Reply, LeaveRun, Join, WriteNoCarrier
<1>8. ASSUME NEW c \in Client, End(c, "endErr", "clearErr") \/ End(c, "end", "clear")
      PROVE  CopyingInsideRun'
  BY <1>8 DEF End
<1>9. ASSUME NEW c \in Client,
             \/ ClearSession(c, "clearErr", "close")
             \/ ClearSession(c, "clear", IF c \in Modem THEN "noCarrier" ELSE "close")
      PROVE  CopyingInsideRun'
  BY <1>9 DEF ClearSession
<1>10. ASSUME NEW c \in Client, StartBridge(c)
      PROVE  CopyingInsideRun'
  BY <1>10 DEF StartBridge
<1>11. ASSUME NEW c \in Client, CloseClient(c) \/ DeferredClose(c)
      PROVE  CopyingInsideRun'
  BY <1>11 DEF CloseClient, DeferredClose, CloseClientConn
<1>12. ASSUME NEW c \in Client, CloseDevice(c)
      PROVE  CopyingInsideRun'
  BY <1>12 DEF CloseDevice, CloseDeviceConn
<1>13. ASSUME NEW c \in Client, NEW dir \in Direction, CopyReturns(c, dir)
      PROVE  CopyingInsideRun'
  BY <1>13 DEF CopyReturns
<1>14. QED
  BY <1>1, <1>2, <1>3, <1>4, <1>5, <1>6, <1>7, <1>8, <1>9, <1>10, <1>11, <1>12, <1>13,
     NextCases

\* Run closes the client, then the device, and neither is reopened.
LEMMA ClosedStep ==
    ASSUME TypeOK, ClientClosedFirst, EndClosesBoth, [Next]_vars
    PROVE  ClientClosedFirst' /\ EndClosesBoth'
<1> USE SessionsAssumption
    DEF SessionsAssumption, TypeOK, Goto, Held, Marked, Leaving, deviceVars, bridgeVars, ClientClosedFirst, EndClosesBoth
<1> DEFINE Goal == ClientClosedFirst' /\ EndClosesBoth'
<1>1. CASE UNCHANGED vars
  BY <1>1 DEF vars
<1>2. CASE Bystander
  BY <1>2, BystanderFrame
<1>3. ASSUME NEW c \in Client, Dial(c) \/ RefuseDial(c) \/ Refuse(c)
      PROVE  Goal
  BY <1>3 DEF Dial, RefuseDial, Refuse, CloseClientConn
<1>4. ASSUME NEW c \in Client, LookUp(c)
      PROVE  Goal
  BY <1>4 DEF LookUp
<1>5. ASSUME NEW c \in Client, CheckBusy(c) \/ CreateSession(c)
      PROVE  Goal
  BY <1>5 DEF CheckBusy, CreateSession
<1>6. ASSUME NEW c \in Client, SetSession(c)
      PROVE  Goal
  BY <1>6 DEF SetSession
<1>7. ASSUME NEW c \in Client, Reply(c) \/ LeaveRun(c) \/ Join(c) \/ WriteNoCarrier(c)
      PROVE  Goal
  BY <1>7 DEF Reply, LeaveRun, Join, WriteNoCarrier
<1>8. ASSUME NEW c \in Client, End(c, "endErr", "clearErr") \/ End(c, "end", "clear")
      PROVE  Goal
  BY <1>8 DEF End
<1>9. ASSUME NEW c \in Client,
             \/ ClearSession(c, "clearErr", "close")
             \/ ClearSession(c, "clear", IF c \in Modem THEN "noCarrier" ELSE "close")
      PROVE  Goal
  BY <1>9 DEF ClearSession
<1>10. ASSUME NEW c \in Client, StartBridge(c)
      PROVE  Goal
  BY <1>10 DEF StartBridge
<1>11. ASSUME NEW c \in Client, CloseClient(c) \/ DeferredClose(c)
      PROVE  Goal
  BY <1>11 DEF CloseClient, DeferredClose, CloseClientConn
<1>12. ASSUME NEW c \in Client, CloseDevice(c)
      PROVE  Goal
  BY <1>12 DEF CloseDevice, CloseDeviceConn
<1>13. ASSUME NEW c \in Client, NEW dir \in Direction, CopyReturns(c, dir)
      PROVE  Goal
  BY <1>13 DEF CopyReturns
<1>14. QED
  BY <1>1, <1>2, <1>3, <1>4, <1>5, <1>6, <1>7, <1>8, <1>9, <1>10, <1>11, <1>12, <1>13,
     NextCases

\* A mark is set by a client that holds the device, and cleared by it.
LEMMA BusyStep ==
    ASSUME TypeOK, BusyOwned, [Next]_vars
    PROVE  BusyOwned'
<1> USE SessionsAssumption
    DEF SessionsAssumption, TypeOK, Goto, Held, Marked, Leaving, deviceVars, bridgeVars, BusyOwned
<1>1. CASE UNCHANGED vars
  BY <1>1 DEF vars
<1>2. CASE Bystander
  BY <1>2, BystanderFrame
<1>3. ASSUME NEW c \in Client, Dial(c) \/ RefuseDial(c) \/ Refuse(c)
      PROVE  BusyOwned'
  BY <1>3 DEF Dial, RefuseDial, Refuse, CloseClientConn
<1>4. ASSUME NEW c \in Client, LookUp(c)
      PROVE  BusyOwned'
  BY <1>4 DEF LookUp
<1>5. ASSUME NEW c \in Client, CheckBusy(c) \/ CreateSession(c)
      PROVE  BusyOwned'
  BY <1>5 DEF CheckBusy, CreateSession
<1>6. ASSUME NEW c \in Client, SetSession(c)
      PROVE  BusyOwned'
  BY <1>6 DEF SetSession
<1>7. ASSUME NEW c \in Client, Reply(c) \/ LeaveRun(c) \/ Join(c) \/ WriteNoCarrier(c)
      PROVE  BusyOwned'
  BY <1>7 DEF Reply, LeaveRun, Join, WriteNoCarrier
<1>8. ASSUME NEW c \in Client, End(c, "endErr", "clearErr") \/ End(c, "end", "clear")
      PROVE  BusyOwned'
  BY <1>8 DEF End
<1>9. ASSUME NEW c \in Client,
             \/ ClearSession(c, "clearErr", "close")
             \/ ClearSession(c, "clear", IF c \in Modem THEN "noCarrier" ELSE "close")
      PROVE  BusyOwned'
  BY <1>9 DEF ClearSession
<1>10. ASSUME NEW c \in Client, StartBridge(c)
      PROVE  BusyOwned'
  BY <1>10 DEF StartBridge
<1>11. ASSUME NEW c \in Client, CloseClient(c) \/ DeferredClose(c)
      PROVE  BusyOwned'
  BY <1>11 DEF CloseClient, DeferredClose, CloseClientConn
<1>12. ASSUME NEW c \in Client, CloseDevice(c)
      PROVE  BusyOwned'
  BY <1>12 DEF CloseDevice, CloseDeviceConn
<1>13. ASSUME NEW c \in Client, NEW dir \in Direction, CopyReturns(c, dir)
      PROVE  BusyOwned'
  BY <1>13 DEF CopyReturns
<1>14. QED
  BY <1>1, <1>2, <1>3, <1>4, <1>5, <1>6, <1>7, <1>8, <1>9, <1>10, <1>11, <1>12, <1>13,
     NextCases

\* The marks are written by SetSession and ClearSession, each by a client that
\* holds the device and is, after it, past its SetSession.
LEMMA MarkWriters ==
    ASSUME TypeOK, [Next]_vars, NEW d \in Dev, busy'[d] # busy[d]
    PROVE  \E r \in Client :
              /\ dev[r] = d /\ dev'[r] = d
              /\ \/ busy'[d] = r /\ cpc'[r] = "reply"
                 \/ busy'[d] = None /\ cpc[r] \in Marked /\ cpc'[r] \in Leaving
<1> USE SessionsAssumption
    DEF SessionsAssumption, TypeOK, Goto, Held, Marked, Leaving
<1>1. CASE busy' = busy
  BY <1>1
<1>2. ASSUME NEW c \in Client, SetSession(c)
      PROVE  dev[c] = d /\ dev'[c] = d /\ busy'[d] = c /\ cpc'[c] = "reply"
  BY <1>2 DEF SetSession, deviceVars, bridgeVars
<1>3. ASSUME NEW c \in Client,
             \/ ClearSession(c, "clearErr", "close")
             \/ ClearSession(c, "clear", IF c \in Modem THEN "noCarrier" ELSE "close")
      PROVE  /\ dev[c] = d /\ dev'[c] = d /\ busy'[d] = None
             /\ cpc[c] \in Marked /\ cpc'[c] \in Leaving
  BY <1>3 DEF ClearSession, deviceVars, bridgeVars
<1>4. CASE Bystander \/ UNCHANGED vars
  BY <1>4, BystanderFrame DEF vars
<1>5. ASSUME NEW c \in Client,
             \/ Dial(c) \/ RefuseDial(c) \/ Refuse(c) \/ LookUp(c) \/ CheckBusy(c) \/ CreateSession(c)
             \/ Reply(c) \/ End(c, "endErr", "clearErr") \/ StartBridge(c) \/ LeaveRun(c)
             \/ CloseClient(c) \/ CloseDevice(c) \/ Join(c) \/ End(c, "end", "clear")
             \/ WriteNoCarrier(c) \/ DeferredClose(c)
             \/ \E dir \in Direction : CopyReturns(c, dir)
      PROVE  busy' = busy
  BY <1>5 DEF Dial, RefuseDial, Refuse, LookUp, CheckBusy, CreateSession, Reply, End, StartBridge,
              LeaveRun, CloseClient, CloseDevice, Join, WriteNoCarrier, DeferredClose,
              CopyReturns
<1>6. QED
  BY <1>1, <1>2, <1>3, <1>4, <1>5, NextCases

\* A client becomes Marked only by SetSession, and stops being so when it clears
\* the mark.
LEMMA EnterMarked ==
    ASSUME TypeOK, [Next]_vars, NEW b \in Client, cpc'[b] \in Marked, cpc[b] \notin Marked
    PROVE  busy'[dev'[b]] = b
<1> USE SessionsAssumption
    DEF SessionsAssumption, TypeOK, Goto, Held, Marked, Leaving
<1>1. CASE Bystander \/ UNCHANGED vars
  BY <1>1, BystanderFrame DEF vars
<1>2. ASSUME NEW c \in Client, SetSession(c)
      PROVE  busy'[dev'[b]] = b
  BY <1>2 DEF SetSession, deviceVars, bridgeVars
<1>3. ASSUME NEW c \in Client,
             \/ Dial(c) \/ RefuseDial(c) \/ Refuse(c) \/ LookUp(c) \/ CheckBusy(c) \/ CreateSession(c)
             \/ WriteNoCarrier(c) \/ DeferredClose(c)
             \/ \E dir \in Direction : CopyReturns(c, dir)
      PROVE  FALSE
  BY <1>3 DEF Dial, RefuseDial, Refuse, LookUp, CheckBusy, CreateSession, WriteNoCarrier,
              DeferredClose, CopyReturns
<1>4. ASSUME NEW c \in Client,
             \/ Reply(c) \/ End(c, "endErr", "clearErr") \/ StartBridge(c) \/ LeaveRun(c)
             \/ CloseClient(c) \/ CloseDevice(c) \/ Join(c) \/ End(c, "end", "clear")
             \/ ClearSession(c, "clearErr", "close")
             \/ ClearSession(c, "clear", IF c \in Modem THEN "noCarrier" ELSE "close")
      PROVE  FALSE
  BY <1>4 DEF Reply, End, StartBridge, LeaveRun, CloseClient, CloseDevice, Join, ClearSession
<1>5. QED
  BY <1>1, <1>2, <1>3, <1>4, NextCases

\* A running session loses its mark only to a rival: one that marks the device, or
\* one that had marked it and clears the mark.
LEMMA MarkStep ==
    ASSUME TypeOK, BusyOwned, MarkLostToRival, [Next]_vars
    PROVE  MarkLostToRival'
<1> SUFFICES ASSUME NEW c \in Client, cpc'[c] \in Marked, busy'[dev'[c]] # c
             PROVE  \E r \in Client \ {c} :
                        /\ dev'[r] = dev'[c]
                        /\ IF busy'[dev'[c]] = None THEN cpc'[r] \in Leaving
                           ELSE busy'[dev'[c]] = r
  BY DEF MarkLostToRival
<1>1. cpc[c] \in Marked /\ dev[c] \in Dev /\ dev'[c] = dev[c]
  <2>1. cpc[c] \in Marked
    BY EnterMarked
  <2>2. QED
    BY <2>1, OneWayStep DEF OneWay, TypeOK, Held, Marked
<1>2. \A r \in Client : r # None
  BY SessionsAssumption DEF SessionsAssumption
<1>3. CASE busy'[dev[c]] # busy[dev[c]]
  <2>1. PICK r \in Client :
            /\ dev[r] = dev[c] /\ dev'[r] = dev[c]
            /\ \/ busy'[dev[c]] = r /\ cpc'[r] = "reply"
               \/ busy'[dev[c]] = None /\ cpc[r] \in Marked /\ cpc'[r] \in Leaving
    BY <1>1, <1>3, MarkWriters
  <2>2. r # c
    BY <1>1, <2>1 DEF Marked, Leaving
  <2>3. QED
    BY <1>1, <1>2, <2>1, <2>2
<1>4. CASE busy'[dev[c]] = busy[dev[c]]
  <2>1. PICK r \in Client \ {c} :
            /\ dev[r] = dev[c]
            /\ IF busy[dev[c]] = None THEN cpc[r] \in Leaving ELSE busy[dev[c]] = r
    BY <1>1, <1>4 DEF MarkLostToRival
  <2>2. cpc[r] \in Marked \cup Leaving
    BY <1>1, <1>2, <2>1 DEF BusyOwned
  <2>3. dev'[r] = dev[r]
    BY <2>2, OneWayStep DEF OneWay, Marked, Leaving
  <2>4. cpc[r] \in Leaving => cpc'[r] \in Leaving
    BY OneWayStep DEF OneWay
  <2>5. QED
    BY <1>1, <1>4, <2>1, <2>3, <2>4
<1>5. QED
  BY <1>3, <1>4

\* Only CheckBusy takes a client from "check" to "create", and only when the
\* device is not marked.
LEMMA CheckPassed ==
    ASSUME TypeOK, [Next]_vars, NEW b \in Client, cpc[b] = "check", cpc'[b] = "create"
    PROVE  busy[dev[b]] = None
<1> USE SessionsAssumption
    DEF SessionsAssumption, TypeOK, Goto
<1>1. CASE Bystander \/ UNCHANGED vars
  BY <1>1, BystanderFrame DEF vars
<1>2. ASSUME NEW c \in Client, CheckBusy(c)
      PROVE  busy[dev[b]] = None
  BY <1>2 DEF CheckBusy
<1>3. ASSUME NEW c \in Client,
             \/ Dial(c) \/ RefuseDial(c) \/ Refuse(c) \/ LookUp(c) \/ CreateSession(c) \/ SetSession(c)
             \/ WriteNoCarrier(c) \/ DeferredClose(c)
             \/ \E dir \in Direction : CopyReturns(c, dir)
      PROVE  FALSE
  BY <1>3 DEF Dial, RefuseDial, Refuse, LookUp, CreateSession, SetSession, WriteNoCarrier,
              DeferredClose, CopyReturns
<1>4. ASSUME NEW c \in Client,
             \/ Reply(c) \/ End(c, "endErr", "clearErr") \/ StartBridge(c) \/ LeaveRun(c)
             \/ CloseClient(c) \/ CloseDevice(c) \/ Join(c) \/ End(c, "end", "clear")
             \/ ClearSession(c, "clearErr", "close")
             \/ ClearSession(c, "clear", IF c \in Modem THEN "noCarrier" ELSE "close")
      PROVE  FALSE
  BY <1>4 DEF Reply, End, StartBridge, LeaveRun, CloseClient, CloseDevice, Join, ClearSession
<1>5. QED
  BY <1>1, <1>2, <1>3, <1>4, NextCases

(***************************************************************************)
(* The theorems.                                                           *)
(***************************************************************************)

\* Init establishes every part of the invariant.
LEMMA InitIInv == Init => IInv
<1> SUFFICES ASSUME Init PROVE IInv
  OBVIOUS
<1>1. TypeOK
  BY InitTypeOK
<1>2. \A c \in Client : cpc[c] = "idle" /\ copying[c] = {}
  BY DEF Init
<1>3. BusyOwned
  BY DEF Init, BusyOwned
<1>4. MarkLostToRival /\ CopyingInsideRun /\ ClientClosedFirst /\ EndClosesBoth
  BY <1>2 DEF MarkLostToRival, Marked, CopyingInsideRun, ClientClosedFirst, EndClosesBoth
<1>5. TableOfPhases
  BY <1>2 DEF Init, TableOfPhases, InTable
<1>6. QED
  BY <1>1, <1>3, <1>4, <1>5 DEF IInv

\* The table, the busy marks, the copies and the two connections of a session
\* fit together in every reachable state.
THEOREM Invariant == Spec => []IInv
<1>1. IInv /\ TypeOK' /\ [Next]_vars => IInv'
  BY BusyStep, MarkStep, TableStep, CopyingStep, ClosedStep DEF IInv
<1>2. QED
  BY InitIInv, TypeCorrect, <1>1, PTL DEF Spec

\* No device is left busy without a handler that will clear it (SetSession,
\* ClearSession and every return of handleClient between them).
THEOREM NeverStuckBusy == Spec => []BusyOwned
<1>1. IInv => BusyOwned
  BY DEF IInv
<1>2. QED
  BY Invariant, <1>1, PTL

\* A session in progress loses its mark only to another session of the same device:
\* to its SetSession while it runs, to its ClearSession when it has ended.
THEOREM MarkLostOnlyToRival == Spec => []MarkLostToRival
<1>1. IInv => MarkLostToRival
  BY DEF IInv
<1>2. QED
  BY Invariant, <1>1, PTL

\* A session that has left the table copies nothing (Bridge.Run's wg.Wait comes
\* before End).
THEOREM NoCopyAfterEnd == Spec => []QuietAfterEnd
<1>1. IInv => QuietAfterEnd
  BY DEF IInv, TableOfPhases, InTable, CopyingInsideRun, QuietAfterEnd
<1>2. QED
  BY Invariant, <1>1, PTL

\* A bridge that has ended has closed both connections for good (Run 72-76).
THEOREM BothClosed == Spec => []EndClosesBoth
<1>1. IInv => EndClosesBoth
  BY DEF IInv
<1>2. QED
  BY Invariant, <1>1, PTL

\* A client gets past the check of a device in session only after a third client,
\* whose session overlapped too, has wiped the mark (handleClient 428-440, 455, 526).
THEOREM OverlapOnlyByRace == Spec => NoLateOverlap
<1>1. IInv /\ [Next]_vars =>
        [\A c, s \in Client :
            (/\ cpc[c] = "check" /\ cpc'[c] = "create"
             /\ s # c /\ dev[s] = dev[c] /\ cpc[s] \in Marked)
            => \E r \in Client \ {c, s} : dev[r] = dev[c] /\ cpc[r] \in Leaving]_vars
  <2> SUFFICES ASSUME IInv, [Next]_vars, NEW c \in Client, NEW s \in Client,
                      cpc[c] = "check", cpc'[c] = "create",
                      s # c, dev[s] = dev[c], cpc[s] \in Marked
               PROVE  \E r \in Client \ {c, s} : dev[r] = dev[c] /\ cpc[r] \in Leaving
    OBVIOUS
  <2>1. busy[dev[s]] = None
    BY CheckPassed DEF IInv
  <2>2. busy[dev[s]] # s
    BY <2>1, SessionsAssumption DEF SessionsAssumption
  <2>3. PICK r \in Client \ {s} : dev[r] = dev[s] /\ cpc[r] \in Leaving
    BY <2>1, <2>2 DEF IInv, MarkLostToRival
  <2>4. r # c
    BY <2>3 DEF Leaving
  <2>5. QED
    BY <2>3, <2>4
<1>2. QED
  BY Invariant, <1>1, PTL DEF Spec, NoLateOverlap
=============================================================================
