--------------------------- MODULE DevicesProofs ---------------------------
(***************************************************************************)
(* Proofs about Devices, for any set of connections and identifiers.       *)
(*                                                                         *)
(* The invariants of Devices are not inductive one by one.  What binds     *)
(* them is the local "existing" of a handler that takes over: Chain says   *)
(* whom it can name, and StoppedByOther says who closed a StopKeepalive.   *)
(***************************************************************************)
EXTENDS Devices, TLAPS

\* Handlers that have not yet looked the identifier up successfully.
Before == {"idle", "refused", "get"}

\* "existing" is another connection with the same identifier, and one that has
\* been in the registry: it will never be stored there again.
Chain ==
    \A e \in Dev : found[e] # None =>
        /\ found[e] \in Dev
        /\ found[e] # e
        /\ IdOf[found[e]] = IdOf[e]
        /\ hpc[found[e]] \in Published
        /\ hpc[e] \notin Before

\* A closed StopKeepalive was closed by a handler that is past that statement.
StoppedByOther ==
    \A d \in Dev : stop[d] =>
        \E e \in Dev : found[e] = d /\ hpc[e] \notin Before \cup {"stopOld"}

\* deviceReader stops without a failure only on a closed StopKeepalive.
ReaderStopped ==
    \A d \in Dev : reader[d] = "stopped" => stop[d]

IInv ==
    /\ TypeOK /\ NoGhostEntry /\ Superseded /\ LostToRival
    /\ Chain /\ StoppedByOther /\ ReaderStopped

\* The actions of Next, one by one, as the case splits below use them.
LEMMA NextCases ==
    ASSUME Next
    PROVE  \/ Shutdown
           \/ \E d \in Dev :
                \/ ReceiveReg(d) \/ RefuseReg(d)
                \/ LookUp(d) \/ StopOld(d) \/ CloseOld(d) \/ UnregisterOld(d)
                \/ RegisterNew(d) \/ WriteOK(d) \/ EndWaitAT(d)
                \/ VcomDeadline(d) \/ LeaveSpin(d) \/ Wake(d)
                \/ DeferredUnregister(d) \/ DeferredClose(d)
                \/ Reader(d) \/ Keepalive(d) \/ Environment(d)
  BY DEF Next, Arrive, Handler, Takeover

(***************************************************************************)
(* Type correctness.                                                       *)
(***************************************************************************)

\* The initial state is well typed.
LEMMA InitTypeOK == Init => TypeOK
<1> SUFFICES ASSUME Init PROVE TypeOK
  OBVIOUS
<1>1. \A d \in Dev : hpc[d] = "idle"
  BY DEF Init
<1>2. registry \in [Id -> Dev \cup {None}] /\ found \in [Dev -> Dev \cup {None}]
  BY DEF Init
<1>3. hpc \in [Dev -> Phase] /\ conn \in [Dev -> {"open", "eof", "closed"}]
  BY DEF Init, Phase
<1>4. stop \in [Dev -> BOOLEAN] /\ ctxDone \in BOOLEAN /\ process \in {"up", "panicked", "exited"}
  BY DEF Init
<1>5. /\ reader \in [Dev -> {"none", "check", "read", "stopped", "failed"}]
      /\ keep \in [Dev -> {"none", "select", "write", "stopped", "failed"}]
  BY DEF Init
<1>6. QED
  BY <1>1, <1>2, <1>3, <1>4, <1>5 DEF TypeOK

\* Every step keeps the types.
LEMMA NextTypeOK == ASSUME TypeOK, [Next]_vars PROVE TypeOK'
<1> USE DevicesAssumption DEF DevicesAssumption, TypeOK, Phase, Published, Registered
<1>1. CASE UNCHANGED vars
  BY <1>1 DEF vars
<1>2. CASE Shutdown
  BY <1>2 DEF Shutdown, Cancel, Exit, handlerVars, helperVars
<1>3. ASSUME NEW d \in Dev, ReceiveReg(d) \/ RefuseReg(d) PROVE TypeOK'
  BY <1>3 DEF ReceiveReg, RefuseReg, Goto, CloseConn, helperVars
<1>4. ASSUME NEW d \in Dev, LookUp(d) PROVE TypeOK'
  BY <1>4 DEF LookUp, Goto, helperVars
<1>5. ASSUME NEW d \in Dev, StopOld(d) PROVE TypeOK'
  BY <1>5 DEF StopOld, Goto, helperVars
<1>6. ASSUME NEW d \in Dev, CloseOld(d) PROVE TypeOK'
  BY <1>6 DEF CloseOld, Goto, CloseConn, helperVars
<1>7. ASSUME NEW d \in Dev, UnregisterOld(d) PROVE TypeOK'
  BY <1>7 DEF UnregisterOld, Unregister, Goto, helperVars
<1>8. ASSUME NEW d \in Dev, RegisterNew(d) PROVE TypeOK'
  BY <1>8 DEF RegisterNew, Register, Goto, helperVars
<1>9. ASSUME NEW d \in Dev, WriteOK(d) PROVE TypeOK'
  BY <1>9 DEF WriteOK, Goto, helperVars
<1>10. ASSUME NEW d \in Dev, EndWaitAT(d) \/ LeaveSpin(d) PROVE TypeOK'
  BY <1>10 DEF EndWaitAT, LeaveSpin, StartHelpers, Goto
<1>11. ASSUME NEW d \in Dev, VcomDeadline(d) \/ Wake(d) PROVE TypeOK'
  BY <1>11 DEF VcomDeadline, Wake, Goto, helperVars
<1>12. ASSUME NEW d \in Dev, DeferredUnregister(d) PROVE TypeOK'
  BY <1>12 DEF DeferredUnregister, Unregister, Goto, helperVars
<1>13. ASSUME NEW d \in Dev, DeferredClose(d) PROVE TypeOK'
  BY <1>13 DEF DeferredClose, Goto, CloseConn, helperVars
<1>14. ASSUME NEW d \in Dev, Reader(d) PROVE TypeOK'
  BY <1>14 DEF Reader, ReaderPoll, ReaderAgain, ReaderFails, ReaderGoto, handlerVars
<1>15. ASSUME NEW d \in Dev, Keepalive(d) PROVE TypeOK'
  BY <1>15 DEF Keepalive, KeepStop, KeepTick, KeepSent, KeepFails, KeepGoto,
               CloseConn, handlerVars
<1>16. ASSUME NEW d \in Dev, Environment(d) PROVE TypeOK'
  BY <1>16 DEF Environment, PeerCloses, SessionCloses, CloseConn,
               handlerVars, helperVars
<1>17. QED
  BY <1>1, <1>2, <1>3, <1>4, <1>5, <1>6, <1>7, <1>8, <1>9, <1>10, <1>11, <1>12,
     <1>13, <1>14, <1>15, <1>16, NextCases

\* Every reachable state is well typed, and a handler in the middle of a
\* takeover has a device to take over from (handleDevice 177-185).
THEOREM TypeCorrect == Spec => []TypeOK
  BY InitTypeOK, NextTypeOK, PTL DEF Spec

(***************************************************************************)
(* The registry and the takeovers.                                         *)
(***************************************************************************)

\* The watching goroutines, the peers and the shutdown touch neither the
\* registry nor a handler, and reopen nothing.
LEMMA WatchersFrame ==
    ASSUME TypeOK,
           Shutdown \/ \E e \in Dev : Reader(e) \/ Keepalive(e) \/ Environment(e)
    PROVE  /\ UNCHANGED <<registry, hpc, found, stop>>
           /\ process' = process \/ process' = "exited"
           /\ \A d \in Dev : conn[d] = "closed" => conn'[d] = "closed"
  BY DEF TypeOK, Shutdown, Cancel, Exit, Reader, ReaderPoll, ReaderAgain, ReaderFails, ReaderGoto,
         Keepalive, KeepStop, KeepTick, KeepSent, KeepFails, KeepGoto,
         Environment, PeerCloses, SessionCloses, CloseConn, handlerVars, helperVars

\* The same for the steps that only move a handler between two phases in which
\* its entry is, or is not, in the registry.
LEMMA HandlerMoves ==
    ASSUME TypeOK, NEW e \in Dev,
           WriteOK(e) \/ EndWaitAT(e) \/ VcomDeadline(e) \/ LeaveSpin(e) \/ Wake(e)
    PROVE  /\ UNCHANGED <<registry, found, stop, conn, process>>
           /\ \E p \in Registered : hpc' = [hpc EXCEPT ![e] = p]
           /\ hpc[e] \in Registered
  BY DEF TypeOK, WriteOK, EndWaitAT, VcomDeadline, LeaveSpin, Wake, Goto, Registered

\* Init establishes every part of the invariant.
LEMMA InitIInv == Init => IInv /\ PanicNeedsRace
<1> SUFFICES ASSUME Init PROVE IInv /\ PanicNeedsRace
  OBVIOUS
<1>1. \A d \in Dev : hpc[d] = "idle" /\ found[d] = None /\ stop[d] = FALSE
  BY DEF Init
<1>2. \A i \in Id : registry[i] = None
  BY DEF Init
<1>3. TypeOK
  BY InitTypeOK
<1>4. NoGhostEntry /\ Superseded /\ Chain /\ StoppedByOther
  BY <1>1, <1>2 DEF NoGhostEntry, Superseded, Chain, StoppedByOther
<1>5. LostToRival
  BY <1>1 DEF LostToRival, Registered
<1>6. PanicNeedsRace /\ ReaderStopped
  BY DEF Init, PanicNeedsRace, ReaderStopped
<1>7. QED
  BY <1>3, <1>4, <1>5, <1>6 DEF IInv

\* Only RegisterNew stores an entry, and the only way out of Registered deletes
\* it: no entry outlives its handler.
LEMMA NoGhostStep ==
    ASSUME TypeOK, NoGhostEntry, [Next]_vars
    PROVE  NoGhostEntry'
<1> USE DevicesAssumption DEF DevicesAssumption
<1>1. CASE UNCHANGED vars
  BY <1>1 DEF vars, NoGhostEntry
<1>2. CASE Shutdown \/ \E e \in Dev : Reader(e) \/ Keepalive(e) \/ Environment(e)
  BY <1>2, WatchersFrame DEF NoGhostEntry
<1>3. ASSUME NEW e \in Dev,
             WriteOK(e) \/ EndWaitAT(e) \/ VcomDeadline(e) \/ LeaveSpin(e) \/ Wake(e)
      PROVE  NoGhostEntry'
  BY <1>3, HandlerMoves DEF NoGhostEntry, TypeOK
<1>4. ASSUME NEW e \in Dev,
             \/ ReceiveReg(e) \/ RefuseReg(e) \/ LookUp(e) \/ StopOld(e)
             \/ CloseOld(e) \/ DeferredClose(e)
      PROVE  NoGhostEntry'
  <2>1. /\ registry' = registry /\ hpc[e] \notin Registered
        /\ \A d \in Dev : d # e => hpc'[d] = hpc[d]
    BY <1>4 DEF TypeOK, ReceiveReg, RefuseReg, LookUp, StopOld, CloseOld,
                DeferredClose, Goto, Registered
  <2>2. QED
    BY <2>1 DEF NoGhostEntry, TypeOK
<1>5. ASSUME NEW e \in Dev, UnregisterOld(e) \/ DeferredUnregister(e)
      PROVE  NoGhostEntry'
  <2>1. /\ registry' = [registry EXCEPT ![IdOf[e]] = None]
        /\ \A d \in Dev : d # e => hpc'[d] = hpc[d]
    BY <1>5 DEF TypeOK, UnregisterOld, DeferredUnregister, Unregister, Goto
  <2>2. QED
    BY <2>1 DEF NoGhostEntry, TypeOK
<1>6. ASSUME NEW e \in Dev, RegisterNew(e) PROVE NoGhostEntry'
  BY <1>6 DEF NoGhostEntry, TypeOK, RegisterNew, Register, Goto, Registered
<1>7. QED
  BY <1>1, <1>2, <1>3, <1>4, <1>5, <1>6, NextCases

\* What no step undoes: a published device stays published, a handler that has
\* looked up goes forward and keeps "existing", and a device enters the registry
\* only from the "register" phase.
OneWay(d) ==
    /\ hpc[d] \in Published => hpc'[d] \in Published
    /\ hpc[d] \notin Before => hpc'[d] \notin Before /\ found'[d] = found[d]
    /\ hpc[d] \notin Before \cup {"stopOld"} => hpc'[d] \notin Before \cup {"stopOld"}
    /\ registry'[IdOf[d]] = d => registry[IdOf[d]] = d \/ hpc[d] = "register"
    /\ conn[d] = "closed" => conn'[d] = "closed"

\* Every step of the system is one-way for every device.
LEMMA OneWayStep ==
    ASSUME TypeOK, [Next]_vars
    PROVE  \A d \in Dev : OneWay(d)
<1> USE DevicesAssumption DEF DevicesAssumption, OneWay, Before, Published, Registered
<1>1. CASE UNCHANGED vars
  BY <1>1 DEF vars
<1>2. CASE Shutdown \/ \E e \in Dev : Reader(e) \/ Keepalive(e) \/ Environment(e)
  BY <1>2, WatchersFrame
<1>3. ASSUME NEW e \in Dev,
             WriteOK(e) \/ EndWaitAT(e) \/ VcomDeadline(e) \/ LeaveSpin(e) \/ Wake(e)
      PROVE  \A d \in Dev : OneWay(d)
  BY <1>3, HandlerMoves DEF TypeOK
<1>4. ASSUME NEW e \in Dev, ReceiveReg(e) \/ RefuseReg(e) \/ DeferredClose(e)
      PROVE  \A d \in Dev : OneWay(d)
  BY <1>4 DEF TypeOK, ReceiveReg, RefuseReg, DeferredClose, Goto, CloseConn
<1>5. ASSUME NEW e \in Dev, LookUp(e) PROVE \A d \in Dev : OneWay(d)
  BY <1>5 DEF TypeOK, LookUp, Goto
<1>6. ASSUME NEW e \in Dev, StopOld(e) PROVE \A d \in Dev : OneWay(d)
  BY <1>6 DEF TypeOK, StopOld, Goto
<1>7. ASSUME NEW e \in Dev, CloseOld(e) PROVE \A d \in Dev : OneWay(d)
  BY <1>7 DEF TypeOK, CloseOld, Goto, CloseConn
<1>8. ASSUME NEW e \in Dev, UnregisterOld(e) \/ DeferredUnregister(e)
      PROVE  \A d \in Dev : OneWay(d)
  BY <1>8 DEF TypeOK, UnregisterOld, DeferredUnregister, Unregister, Goto
<1>9. ASSUME NEW e \in Dev, RegisterNew(e) PROVE \A d \in Dev : OneWay(d)
  BY <1>9 DEF TypeOK, RegisterNew, Register, Goto
<1>10. QED
  BY <1>1, <1>2, <1>3, <1>4, <1>5, <1>6, <1>7, <1>8, <1>9, NextCases

\* "existing" and StopKeepalive are written by one statement each.
LEMMA OneWriter ==
    ASSUME TypeOK, [Next]_vars
    PROVE  /\ \A e \in Dev : found'[e] # found[e] => LookUp(e)
           /\ \A d \in Dev : stop'[d] # stop[d] => \E e \in Dev : StopOld(e) /\ found[e] = d
           /\ process' = "panicked" /\ process # "panicked" => \E e \in Dev : StopOld(e)
<1> DEFINE Goal == /\ \A e \in Dev : found'[e] # found[e] => LookUp(e)
                   /\ \A d \in Dev : stop'[d] # stop[d] =>
                         \E e \in Dev : StopOld(e) /\ found[e] = d
                   /\ process' = "panicked" /\ process # "panicked" => \E e \in Dev : StopOld(e)
<1>1. CASE UNCHANGED vars
  BY <1>1 DEF vars
<1>2. CASE Shutdown \/ \E e \in Dev : Reader(e) \/ Keepalive(e) \/ Environment(e)
  BY <1>2, WatchersFrame
<1>3. ASSUME NEW e \in Dev,
             WriteOK(e) \/ EndWaitAT(e) \/ VcomDeadline(e) \/ LeaveSpin(e) \/ Wake(e)
      PROVE  Goal
  BY <1>3, HandlerMoves
<1>4. ASSUME NEW e \in Dev,
             \/ ReceiveReg(e) \/ RefuseReg(e) \/ DeferredClose(e) \/ CloseOld(e)
             \/ UnregisterOld(e) \/ DeferredUnregister(e) \/ RegisterNew(e)
      PROVE  Goal
  BY <1>4 DEF ReceiveReg, RefuseReg, DeferredClose, CloseOld, UnregisterOld,
              DeferredUnregister, RegisterNew
<1>5. ASSUME NEW e \in Dev, LookUp(e) PROVE Goal
  <2>1. \A d \in Dev : d # e => found'[d] = found[d]
    BY <1>5 DEF LookUp, TypeOK
  <2>2. stop' = stop /\ process' = process
    BY <1>5 DEF LookUp
  <2>3. QED
    BY <1>5, <2>1, <2>2
<1>6. ASSUME NEW e \in Dev, StopOld(e) PROVE Goal
  <2>1. \A d \in Dev : d # found[e] => stop'[d] = stop[d]
    BY <1>6 DEF StopOld, TypeOK
  <2>2. found' = found
    BY <1>6 DEF StopOld
  <2>3. QED
    BY <1>6, <2>1, <2>2
<1>7. QED
  BY <1>1, <1>2, <1>3, <1>4, <1>5, <1>6, NextCases

\* A handler finds a registered device, and the entry is gone before that
\* device could be found by its own handler.
LEMMA ChainStep ==
    ASSUME TypeOK, NoGhostEntry, Chain, [Next]_vars
    PROVE  Chain'
<1> SUFFICES ASSUME NEW e \in Dev, found'[e] # None
             PROVE  /\ found'[e] \in Dev
                    /\ found'[e] # e
                    /\ IdOf[found'[e]] = IdOf[e]
                    /\ hpc'[found'[e]] \in Published
                    /\ hpc'[e] \notin Before
  BY DEF Chain
<1>1. CASE found'[e] = found[e]
  BY <1>1, OneWayStep DEF Chain, OneWay
<1>2. CASE found'[e] # found[e]
  <2>1. LookUp(e)
    BY <1>2, OneWriter
  <2>2. /\ hpc[e] = "get" /\ found'[e] = registry[IdOf[e]]
        /\ hpc'[e] = "stopOld" /\ IdOf[e] \in Id
        /\ \A d \in Dev : d # e => hpc'[d] = hpc[d]
    BY <2>1, DevicesAssumption DEF DevicesAssumption, LookUp, Goto, TypeOK
  <2>3. found'[e] \in Dev /\ IdOf[found'[e]] = IdOf[e] /\ hpc[found'[e]] \in Registered
    BY <2>2 DEF NoGhostEntry, TypeOK
  <2>4. QED
    BY <2>2, <2>3 DEF Registered, Published, Before
<1>3. QED
  BY <1>1, <1>2

\* The handler that closes a StopKeepalive is past that statement afterwards.
LEMMA StoppedByOtherStep ==
    ASSUME TypeOK, Chain, StoppedByOther, [Next]_vars
    PROVE  StoppedByOther'
<1> SUFFICES ASSUME NEW d \in Dev, stop'[d]
             PROVE  \E e \in Dev : found'[e] = d /\ hpc'[e] \notin Before \cup {"stopOld"}
  BY DEF StoppedByOther
<1>1. CASE stop[d]
  <2>1. PICK e \in Dev : found[e] = d /\ hpc[e] \notin Before \cup {"stopOld"}
    BY <1>1 DEF StoppedByOther
  <2>2. QED
    BY <2>1, OneWayStep DEF OneWay
<1>2. CASE ~stop[d]
  <2>1. PICK e \in Dev : StopOld(e) /\ found[e] = d
    BY <1>2, OneWriter
  <2>2. found'[e] = d /\ hpc'[e] = "closeOld"
    BY <2>1 DEF StopOld, Goto, TypeOK
  <2>3. QED
    BY <2>2 DEF Before
<1>3. QED
  BY <1>1, <1>2

\* A handler leaves the last two phases of a takeover only by their statements.
LEMMA TakeoverMoves ==
    ASSUME TypeOK, [Next]_vars, NEW e \in Dev
    PROVE  /\ hpc[e] = "closeOld" => hpc'[e] = "closeOld" \/ CloseOld(e)
           /\ hpc[e] = "unregOld" => hpc'[e] = "unregOld" \/ UnregisterOld(e)
<1> DEFINE Goal == /\ hpc[e] = "closeOld" => hpc'[e] = "closeOld" \/ CloseOld(e)
                   /\ hpc[e] = "unregOld" => hpc'[e] = "unregOld" \/ UnregisterOld(e)
<1>1. CASE UNCHANGED vars
  BY <1>1 DEF vars
<1>2. CASE Shutdown \/ \E d \in Dev : Reader(d) \/ Keepalive(d) \/ Environment(d)
  BY <1>2, WatchersFrame
<1>3. ASSUME NEW d \in Dev,
             WriteOK(d) \/ EndWaitAT(d) \/ VcomDeadline(d) \/ LeaveSpin(d) \/ Wake(d)
      PROVE  Goal
  BY <1>3, HandlerMoves DEF TypeOK, Registered
<1>4. ASSUME NEW d \in Dev,
             \/ ReceiveReg(d) \/ RefuseReg(d) \/ LookUp(d) \/ StopOld(d)
             \/ RegisterNew(d) \/ DeferredUnregister(d) \/ DeferredClose(d)
      PROVE  Goal
  BY <1>4 DEF TypeOK, ReceiveReg, RefuseReg, LookUp, StopOld, RegisterNew,
              DeferredUnregister, DeferredClose, Goto
<1>5. ASSUME NEW d \in Dev, CloseOld(d) PROVE Goal
  <2>1. \A c \in Dev : c # d => hpc'[c] = hpc[c]
    BY <1>5 DEF CloseOld, Goto, TypeOK
  <2>2. hpc[d] = "closeOld"
    BY <1>5 DEF CloseOld, Goto
  <2>3. QED
    BY <1>5, <2>1, <2>2
<1>6. ASSUME NEW d \in Dev, UnregisterOld(d) PROVE Goal
  <2>1. \A c \in Dev : c # d => hpc'[c] = hpc[c]
    BY <1>6 DEF UnregisterOld, Goto, TypeOK
  <2>2. hpc[d] = "unregOld"
    BY <1>6 DEF UnregisterOld, Goto
  <2>3. QED
    BY <1>6, <2>1, <2>2
<1>7. QED
  BY <1>1, <1>2, <1>3, <1>4, <1>5, <1>6, NextCases

\* The takeover that closed a StopKeepalive goes on to close the connection and
\* to remove the entry, and neither is undone.
LEMMA SupersededStep ==
    ASSUME TypeOK, Superseded, Chain, StoppedByOther, [Next]_vars
    PROVE  Superseded'
<1> SUFFICES ASSUME NEW d \in Dev, stop'[d]
             PROVE  \/ \E e \in Dev : found'[e] = d /\ hpc'[e] = "closeOld"
                    \/ /\ conn'[d] = "closed"
                       /\ \/ registry'[IdOf[d]] # d
                          \/ \E e \in Dev : found'[e] = d /\ hpc'[e] = "unregOld"
  BY DEF Superseded
<1>1. CASE ~stop[d]
  <2>1. PICK e \in Dev : StopOld(e) /\ found[e] = d
    BY <1>1, OneWriter
  <2>2. found'[e] = d /\ hpc'[e] = "closeOld"
    BY <2>1 DEF StopOld, Goto, TypeOK
  <2>3. QED
    BY <2>2
<1>2. CASE \E e \in Dev : found[e] = d /\ hpc[e] = "closeOld"
  <2>1. PICK e \in Dev : found[e] = d /\ hpc[e] = "closeOld"
    BY <1>2
  <2>2. found'[e] = d
    BY <2>1, OneWayStep DEF OneWay, Before
  <2>3. CASE CloseOld(e)
    BY <2>1, <2>2, <2>3 DEF CloseOld, CloseConn, Goto, TypeOK
  <2>4. QED
    BY <2>1, <2>2, <2>3, TakeoverMoves
<1>3. CASE stop[d] /\ conn[d] = "closed" /\ registry[IdOf[d]] # d
  <2>1. PICK e \in Dev : found[e] = d
    BY <1>3 DEF StoppedByOther
  <2>2. hpc[d] \in Published
    BY <2>1, DevicesAssumption DEF DevicesAssumption, Chain
  <2>3. QED
    BY <1>3, <2>2, OneWayStep DEF OneWay, Published, Registered
<1>4. CASE /\ conn[d] = "closed"
           /\ \E e \in Dev : found[e] = d /\ hpc[e] = "unregOld"
  <2>1. PICK e \in Dev : found[e] = d /\ hpc[e] = "unregOld"
    BY <1>4
  <2>2. found'[e] = d /\ conn'[d] = "closed"
    BY <1>4, <2>1, OneWayStep DEF OneWay, Before
  <2>3. CASE UnregisterOld(e)
    <3>1. IdOf[d] = IdOf[e] /\ IdOf[d] \in Id
      BY <2>1, DevicesAssumption DEF DevicesAssumption, Chain
    <3>2. registry'[IdOf[d]] = None
      BY <2>3, <3>1 DEF UnregisterOld, Unregister, TypeOK
    <3>3. QED
      BY <2>2, <3>2, DevicesAssumption DEF DevicesAssumption
  <2>4. QED
    BY <2>1, <2>2, <2>3, TakeoverMoves
<1>5. QED
  BY <1>1, <1>2, <1>3, <1>4 DEF Superseded

\* The registry is written by three statements.
LEMMA RegistryWriters ==
    ASSUME TypeOK, [Next]_vars, registry' # registry
    PROVE  \E e \in Dev : UnregisterOld(e) \/ DeferredUnregister(e) \/ RegisterNew(e)
<1>1. ~UNCHANGED vars
  BY DEF vars
<1>2. ~(Shutdown \/ \E e \in Dev : Reader(e) \/ Keepalive(e) \/ Environment(e))
  BY WatchersFrame
<1>3. \A e \in Dev :
        ~(WriteOK(e) \/ EndWaitAT(e) \/ VcomDeadline(e) \/ LeaveSpin(e) \/ Wake(e))
  BY HandlerMoves
<1>4. \A e \in Dev :
        ~(\/ ReceiveReg(e) \/ RefuseReg(e) \/ LookUp(e) \/ StopOld(e)
          \/ CloseOld(e) \/ DeferredClose(e))
  BY DEF ReceiveReg, RefuseReg, LookUp, StopOld, CloseOld, DeferredClose
<1>5. QED
  BY <1>1, <1>2, <1>3, <1>4, NextCases

\* A handler enters Registered only by storing its entry.
LEMMA EnterRegistered ==
    ASSUME TypeOK, [Next]_vars, NEW d \in Dev,
           hpc[d] \notin Registered, hpc'[d] \in Registered
    PROVE  RegisterNew(d)
<1> USE DEF Registered
<1>1. ~UNCHANGED vars
  BY DEF vars
<1>2. ~(Shutdown \/ \E e \in Dev : Reader(e) \/ Keepalive(e) \/ Environment(e))
  BY WatchersFrame
<1>3. \A e \in Dev :
        ~(WriteOK(e) \/ EndWaitAT(e) \/ VcomDeadline(e) \/ LeaveSpin(e) \/ Wake(e))
  BY HandlerMoves DEF TypeOK
<1>4. \A e \in Dev :
        ~(\/ ReceiveReg(e) \/ RefuseReg(e) \/ LookUp(e) \/ StopOld(e) \/ CloseOld(e)
          \/ UnregisterOld(e) \/ DeferredUnregister(e) \/ DeferredClose(e))
  BY DEF TypeOK, ReceiveReg, RefuseReg, LookUp, StopOld, CloseOld, UnregisterOld,
         DeferredUnregister, DeferredClose, Goto
<1>5. PICK e \in Dev : RegisterNew(e)
  BY <1>1, <1>2, <1>3, <1>4, NextCases
<1>6. e = d
  BY <1>5 DEF RegisterNew, Goto, TypeOK
<1>7. QED
  BY <1>5, <1>6

\* An entry of a waiting device goes only when a rival removes or replaces it.
LEMMA LostToRivalStep ==
    ASSUME TypeOK, NoGhostEntry, LostToRival, [Next]_vars
    PROVE  LostToRival'
<1> USE DevicesAssumption DEF DevicesAssumption
<1> DEFINE Lost(d) == hpc[d] \in Registered /\ registry[IdOf[d]] # d
           Rival(d, e) == IdOf[e] = IdOf[d] /\ hpc[e] \notin Before
<1>1. ASSUME NEW d \in Dev, NEW e \in Dev \ {d}, Rival(d, e)
      PROVE  IdOf[e] = IdOf[d] /\ hpc'[e] \notin Before
  BY <1>1, OneWayStep DEF OneWay
<1>2. \A d \in Dev : Lost(d) => \E e \in Dev \ {d} : Rival(d, e)
  BY DEF LostToRival, Before
<1>3. SUFFICES ASSUME NEW d \in Dev, hpc'[d] \in Registered, registry'[IdOf[d]] # d
               PROVE  \E e \in Dev \ {d} : IdOf[e] = IdOf[d] /\ hpc'[e] \notin Before
  BY DEF LostToRival, Before
<1>4. CASE Lost(d)
  BY <1>1, <1>2, <1>4
<1>5. CASE ~Lost(d) /\ registry' = registry
  <2>1. hpc[d] \notin Registered
    BY <1>3, <1>5
  <2>2. ~RegisterNew(d)
    BY <1>3, <1>5 DEF RegisterNew, Register, TypeOK
  <2>3. QED
    BY <1>3, <2>1, <2>2, EnterRegistered
<1>6. ASSUME NEW e \in Dev, UnregisterOld(e) \/ DeferredUnregister(e) \/ RegisterNew(e),
             ~Lost(d)
      PROVE  \E c \in Dev \ {d} : IdOf[c] = IdOf[d] /\ hpc'[c] \notin Before
  <2>1. /\ registry' = [registry EXCEPT ![IdOf[e]] = registry'[IdOf[e]]]
        /\ hpc' = [hpc EXCEPT ![e] = hpc'[e]]
        /\ hpc'[e] \notin Before
    BY <1>6 DEF UnregisterOld, DeferredUnregister, RegisterNew, Register, Unregister,
                Goto, Before, TypeOK
  <2>2. e # d
    BY <1>3, <1>6 DEF UnregisterOld, DeferredUnregister, RegisterNew, Register, Goto,
                      Registered, TypeOK
  <2>3. hpc'[d] = hpc[d]
    BY <2>1, <2>2 DEF TypeOK
  <2>4. IdOf[e] = IdOf[d]
    BY <1>3, <1>6, <2>1, <2>3 DEF TypeOK
  <2>5. QED
    BY <2>1, <2>2, <2>4
<1>7. registry' # registry =>
          \E e \in Dev : UnregisterOld(e) \/ DeferredUnregister(e) \/ RegisterNew(e)
  BY RegistryWriters
<1>8. QED
  BY <1>4, <1>5, <1>6, <1>7

\* A channel stays closed, and the reader polls it before it stops.
LEMMA ReaderStoppedStep ==
    ASSUME TypeOK, ReaderStopped, [Next]_vars
    PROVE  ReaderStopped'
<1> SUFFICES ASSUME NEW d \in Dev, reader'[d] = "stopped" PROVE stop'[d]
  BY DEF ReaderStopped
<1>1. stop[d] => stop'[d]
  <2>1. ASSUME NEW e \in Dev, StopOld(e), found[e] = d PROVE stop'[d]
    BY <2>1 DEF StopOld, TypeOK
  <2>2. QED
    BY <2>1, OneWriter
<1>2. reader[d] = "stopped" \/ stop[d]
  <2>1. CASE UNCHANGED vars
    BY <2>1 DEF vars
  <2>2. ASSUME NEW e \in Dev, Reader(e) PROVE reader[d] = "stopped" \/ stop[d]
    BY <2>2 DEF TypeOK, Reader, ReaderPoll, ReaderAgain, ReaderFails, ReaderGoto
  <2>3. ASSUME NEW e \in Dev, EndWaitAT(e) \/ LeaveSpin(e)
        PROVE  reader[d] = "stopped"
    BY <2>3 DEF TypeOK, EndWaitAT, LeaveSpin, StartHelpers
  <2>4. ASSUME NEW e \in Dev,
               \/ ReceiveReg(e) \/ RefuseReg(e) \/ LookUp(e) \/ StopOld(e) \/ CloseOld(e)
               \/ UnregisterOld(e) \/ RegisterNew(e) \/ WriteOK(e) \/ VcomDeadline(e)
               \/ Wake(e) \/ DeferredUnregister(e) \/ DeferredClose(e)
               \/ Keepalive(e) \/ Environment(e)
        PROVE  reader' = reader
    BY <2>4 DEF ReceiveReg, RefuseReg, LookUp, StopOld, CloseOld, UnregisterOld, RegisterNew,
                WriteOK, VcomDeadline, Wake, DeferredUnregister, DeferredClose, Keepalive,
                KeepStop, KeepTick, KeepSent, KeepFails, KeepGoto, Environment, PeerCloses,
                SessionCloses, helperVars
  <2>5. CASE Shutdown
    BY <2>5 DEF Shutdown, Cancel, Exit, helperVars
  <2>6. QED
    BY <2>1, <2>2, <2>3, <2>4, <2>5, NextCases
<1>3. QED
  BY <1>1, <1>2 DEF ReaderStopped

\* The second close of a StopKeepalive is by another handler than the first, and
\* neither is the device's own.
LEMMA PanicNeedsRaceStep ==
    ASSUME TypeOK, Chain, StoppedByOther, PanicNeedsRace, [Next]_vars
    PROVE  PanicNeedsRace'
<1> SUFFICES ASSUME process' = "panicked"
             PROVE  \E d \in Dev : \E e \in Dev \ {d} : \E f \in Dev \ {d, e} :
                        found'[e] = d /\ found'[f] = d
  BY DEF PanicNeedsRace
<1>1. CASE process = "panicked"
  <2>1. PICK d \in Dev : \E e \in Dev \ {d} : \E f \in Dev \ {d, e} :
                found[e] = d /\ found[f] = d
    BY <1>1 DEF PanicNeedsRace
  <2>2. PICK e \in Dev \ {d} : \E f \in Dev \ {d, e} : found[e] = d /\ found[f] = d
    BY <2>1
  <2>3. PICK f \in Dev \ {d, e} : found[e] = d /\ found[f] = d
    BY <2>2
  <2>4. found'[e] = d /\ found'[f] = d
    BY <2>3, OneWayStep, DevicesAssumption DEF DevicesAssumption, Chain, OneWay
  <2>5. QED
    BY <2>3, <2>4
<1>2. CASE process # "panicked"
  <2>1. PICK f \in Dev : StopOld(f)
    BY <1>2, OneWriter
  <2>2. /\ hpc[f] = "stopOld" /\ found' = found
        /\ found[f] \in Dev /\ stop[found[f]]
    BY <2>1 DEF StopOld, Goto, TypeOK
  <2>3. PICK e \in Dev : found[e] = found[f] /\ hpc[e] \notin Before \cup {"stopOld"}
    BY <2>2 DEF StoppedByOther
  <2>4. e # f /\ found[f] # f /\ found[f] # e
    BY <2>2, <2>3, DevicesAssumption DEF DevicesAssumption, Chain
  <2>5. QED
    BY <2>2, <2>3, <2>4
<1>3. QED
  BY <1>1, <1>2

(***************************************************************************)
(* The theorems.                                                           *)
(***************************************************************************)

\* The inductive invariant holds in every reachable state: the registry, the
\* takeovers in progress and the closed channels fit together.
THEOREM Invariant == Spec => [](IInv /\ PanicNeedsRace)
<1>1. IInv /\ PanicNeedsRace /\ TypeOK' /\ [Next]_vars => (IInv /\ PanicNeedsRace)'
  BY NoGhostStep, ChainStep, StoppedByOtherStep, SupersededStep, LostToRivalStep,
     ReaderStoppedStep, PanicNeedsRaceStep DEF IInv
<1>2. QED
  BY InitIInv, TypeCorrect, <1>1, PTL DEF Spec

\* However many connections register at once, the registry lists only devices
\* whose handler is still running, under the identifier they gave (Register,
\* Unregister, handleDevice's defer).
THEOREM NoGhost == Spec => []NoGhostEntry
<1>1. IInv => NoGhostEntry
  BY DEF IInv
<1>2. QED
  BY Invariant, <1>1, PTL

\* A takeover is never left half done: a stopped device loses its connection and
\* its entry for good (handleDevice 177-185).
THEOREM TakeoverComplete == Spec => []Superseded
<1>1. IInv => Superseded
  BY DEF IInv
<1>2. QED
  BY Invariant, <1>1, PTL

\* A device that clients can find has a reader that will notice its end, or is
\* about to be removed (deviceReader 252-254, handleDevice 180-184).
THEOREM AlwaysWatched == Spec => []Watched
<1>1. IInv => Watched
  BY DevicesAssumption DEF DevicesAssumption, IInv, Superseded, ReaderStopped, Watched
<1>2. QED
  BY Invariant, <1>1, PTL

\* Without another connection that claims its identifier a waiting device is
\* never dropped from the registry (handleDevice 201).
THEOREM KeptUnlessContested == Spec => []LostToRival
<1>1. IInv => LostToRival
  BY DEF IInv
<1>2. QED
  BY Invariant, <1>1, PTL

\* The panic on a closed StopKeepalive needs three connections with one
\* identifier, two of them registering at the same time (handleDevice 180-181).
THEOREM PanicOnlyByRace == Spec => []PanicNeedsRace
  BY Invariant, PTL
=============================================================================
