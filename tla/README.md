# A TLA+ model of proxy-rfc2217

The proxy accepts two kinds of TCP connections on one port. A *device* (a serial
converter on a mobile line) sends `AT+REG=<token>` and stays connected. A *client*
sends `AT+CONNECT=<token>`, or dials `ATD<number>` in modem emulation, and is
bridged to the device of that identifier. An HTTP API lists devices and sessions
and can terminate a session.

The code is small but almost all of its difficulty is concurrency: one goroutine
per connection, two more per registered device, three or four more per session,
all sharing two `sync.Map`s, two `net.Conn`s and a handful of channels, with no
lock held across any two of the steps that belong together.

## Inventory

| Component | State | Operations | Hard behaviour | What makes it correct |
|---|---|---|---|---|
| Device registration (`handler.go` `handleDevice`, `device/registry.go`) | `Registry.devices`, `Device.StopKeepalive`, the local `existing` | look up, take over (close channel, close connection, unregister), register, reply, deferred unregister and close | two connections of one identifier interleave between `Get` and `Register`; `Unregister` deletes by identifier, whoever is there | the registry lists only live handlers; a takeover leaves nothing of the old device behind; an entry is lost only to a rival |
| Device supervision (`deviceReader`, `deviceKeepalive`) | `stop`, `connClosed`, `readClosed` | poll, read with a deadline, NOP on a tick, close | a goroutine that ends without telling the handler; a read that can no longer see the socket | a dead device leaves the registry; a superseded device's goroutines end |
| Client handler (`handleClient`) | the local `dev`, `Device.InSession`/`SessionID` | look up, busy check, create, mark, reply, bridge, end, unmark | check-then-act on the busy mark; the looked-up `Device` is used after it has been replaced | a device is never left busy; overlaps come only from races |
| Session manager (`session/manager.go`) | `Manager.sessions`, `Session.done` | `Create`, `End`, `Terminate` | `Terminate` meets a handler that is before, in or after the bridge | a terminated session leaves the table; `done` is closed once |
| Bridge (`session/bridge.go`) | two copy goroutines, a keepalive, the counters | `Run`, `copyWithActivity`, `keepalive` | half-closed sessions; the keepalive closes a connection under a copy; `deviceReader` still reads the same connection | no byte is copied after the end; both connections are closed |
| Composition (`cmd/proxy/main.go`, `connection/server.go`) | shared registry and connections, the context | accept, shutdown | an unrecovered panic in one handler stops everybody | each side does to the other only what that one allows |
| AT command reader (`protocol.go`) | the `bufio.Reader`, the partial line, the data before it, the deadline | `ReadATCommandWithPresets`, `readLineWithSkipped` | the deadline fires in the middle of a line; a retry that never reads | every command is read once, in order, and no piece of one is taken for port settings or session data |
| Command loop and modem emulation (`Handle`, `modem.go`) | `ModemState`, collected presets | read a command, answer, hand over | presets and pipelined bytes dropped at a hand-over | what the client set before the dial reaches the device; each command is answered once, in the form the client has chosen; the handshake ends |
| Port settings (`usrvcom.go`, `rfc2217.go`) | none | parse and build USR-VCOM and RFC 2217 packets | checksums, escaping of 0xFF | the device is set to what the client's packet asks for |
| HTTP API (`internal/api`) | login cookie | list, terminate | terminates a session it found a moment ago | see session manager |
| TCP keepalive, configuration, `rfc2217/constants.go` | none | socket options, environment variables | none | none |

Interactions: a client's handler finds a device's connection through the registry
and from then on holds the pointer; `Bridge.Run`, `Bridge.keepalive` and
`Manager.Terminate` close that connection under the device's own goroutines; a
takeover, `deviceKeepalive` and the device handler's deferred `Close` close it under
the session. Nobody is told: each side learns of it from a failing read or write.

`PROJECT.json` lists the hazards, each at its line, with the properties that cover it.

## The modules

### Devices

One member of `Dev` is one accepted connection together with the `Device` its
handler allocates; `IdOf` gives the identifier it claims. `hpc` is where its
handler is (`handler.go` 140-243), and there is one action for every access to
shared state: `LookUp` (`registry.Get`), `StopOld`, `CloseOld`, `UnregisterOld` (the
takeover, 177-186), `RegisterNew`, `WriteOK`, `EndWaitAT`, `Wake` (the `select`),
`DeferredUnregister`, `DeferredClose`. `Reader*` and `Keep*` are the two goroutines.
`found` is the local `existing`; `stop[d]` says that the channel
`StopKeepalive` is closed, and closing it twice sets `process` to `"panicked"`,
after which nothing moves. A connection is `"open"`, `"eof"` (the peer has gone; a
write may still appear to succeed) or `"closed"` (by the proxy).

The bare `Devices` contains a client side reduced to what it can do to a device:
`SessionCloses` closes the connection of a device that has been registered.

`VcomDev` are the devices that send a USR-VCOM packet after `AT+REG`. For those,
`ReadATCommand` (timeout 0, `protocol.go` 81-90) answers an expired deadline with
`continue`: `VcomDeadline` enters the loop and only a local close leaves it.

### Sessions

One member of `Client` is one client connection; it creates at most one session,
so a session is named by its client. `cpc` is where `handleClient` is
(`handler.go` 396-533, then `bridge.go` 36-79 as the phases `"run"` to `"join"`, then
the end). `busy[d]` is `Device.SessionID` when `InSession` is set. `copying[c]` are
the copy goroutines that still run, `nop[c]` the bridge's keepalive, `term[c]` the
progress of a `Terminate` of that session. `IsInSession`, `Create` and
`SetSession` are separate actions, as they are separate critical sections. A client
that is not served (a bad command or token, no such device, a busy one) is in phase
`"refuse"`, and `Refuse` writes ERROR or NO CARRIER and closes its connection.

The bare `Sessions` contains a device side reduced to what a client can see:
devices register (once, before any client can have found them), unregister, go away and have
their connection closed.

### Proxy

`D == INSTANCE Devices` and `S == INSTANCE Sessions` over the shared `registry` and
`conn`. A step is a step of one side's own actions that leaves the other side's
private state alone; the stand-ins (`SessionCloses` in `Devices`, `DeviceSide` in
`Sessions`) are replaced by the real other side. `DevicesSpec` and `SessionsSpec`
say that `Proxy` implements both component specifications, so what is proved of
a component holds of the whole: this is the refinement that the separation rests on.

### Bridge and Pipe

`Bridge` adds the bytes of a session to `Sessions`. Every action is an action of
`S == INSTANCE Sessions` together with what it does to the bytes (`Dial`, `Refuse`,
`Reply`, `StartBridge`, `CopyBreaks`, `ReadEnds`, `WriteNoCarrier`, and `Control` for those that
move none), or it moves bytes and leaves the control alone (`ForwardPresets` and
`ForwardBuffered`, `handler.go` 460-518; `CopyRead` and `CopyWrite`, the two halves of a
turn of `copyWithActivity`; `DeviceReaderTakes`, `handler.go` 258-270; `PeerSends`). So
every behaviour of `Bridge` is one of `Sessions`. A byte is its sender and its position in
what that sender sends after its AT command; a USR-VCOM packet counts as one. `unread[p]`
is what the proxy has not yet read of `p`, `buffered[c]` what the handler's `bufio.Reader`
had read beyond the command, `held[c][dir]` a copy goroutine's `buf`, `counted` the
session's `BytesIn` and `BytesOut`. A write may stop in the middle when the connection is
dead, or when a keepalive has set a write deadline on it.

`Pipe` is what any byte stream promises: the receiver gets what was sent, in order, each
byte at most once, perhaps with holes. `UpPipe` and `DownPipe` say that a session
implements it in each direction, from a client's `sent` to what the device got of it, and
back.

### PortSettings, CommandReader and Handshake

These three model a connection up to the point where the others begin. `Handshake`
EXTENDS `CommandReader`, which EXTENDS `PortSettings`.

`PortSettings` has no state: `ParseUSRVCOM`, `ToRFC2217Commands`, `BuildRFC2217Packet`
and `ParseRFC2217Commands` are the functions of that name, on sequences of bytes. Its second
part says what the two protocols mean (`VcomPacket`: the packet a client sends for a
setting; `TelnetReads`: what a telnet peer takes from a stream; `Sets`: the
subnegotiations of a setting), and `Faithful(s)` holds one against the other.

`CommandReader` is `ReadATCommandWithPresets` over `readLineWithSkipped` over the
`bufio.Reader`. A message is a command line or a packet of settings, given by its bytes; it
is cut into *parts*, which the network delivers one by one or together, and which
the reader takes whole. The code looks at bytes, so a message has to be cut wherever the code
may change its mind: a newline is at a part's end, and an `A` that is followed by
`T`, or that is the last byte to be had when the code looks for the `T`, begins a part,
whether it stands in a command or in the middle of a packet. `ReaderAssumption` requires
this of the constants. `unread` is the socket, `buf` the `bufio.Reader`, `line`,
`skipped`, `allSkipped` and `vcom` the variables of the two functions. `ReadPart` and
`ReadLineEnd` read a part without and with a newline; `Fill` is the read from the socket
when a byte is wanted (`ReadByte`) or peeked at (the `T` behind an `A`, the LF behind a
CR: `Peeks`). `DeadlineKeepsData`, `DeadlineDropsLine`, `TimesOut` and `StreamEnds` are
the ways out of a read that failed (`protocol.go` 61-91), in the order of its conditions;
`Again` is the next turn of the loop with its check of the overall timeout, `Call` a call
with the timeout of its caller. Time is counted in ticks and passes only while the reader
waits; what arrives earlier or later in between makes no difference to it. `torn` is a
history variable: the messages that have not been read as what they are, because an
error has cut them in two or because they are on a line that no command begins
(`Astray`). There are such lines: `readLineWithSkipped` starts a command at any `A` with a `T`
behind it (`protocol.go` 171-178), in the middle of a packet too, and takes everything up
to the next newline for it, the client's real command included.

`Handshake` is the loop of `Handle`: `ModemCommand` (with `HandleCommand`, the answer's mode and
the mode after it), `Tone`, `ModemDial`, `Connect`, `Register`, `GiveUp`, each with what it
passes on (`config`, `presets`) and with the call of the reader that follows it. `ForwardOf` is
what `handleClient` makes of it for the device (355-391). `Register` starts the second reader of
`handleDevice`; `DeviceTone` and `DeviceWaitEnds` are its end. `Handles` is what the branches of
the loop have in common, `Executes` that the command just read is executed as a `kind`: that of
its message or, for a line that has gone astray, some member of `StrayKind`, since what
`parseATCommand` makes of it depends on its bytes. `done`, `kinds` and `lost` are histories: the
messages executed (0 for a line gone astray), as what, and what lay in the first `bufio.Reader`
when the second was made. Whether a token is good, and whether a plain OK can still be written
once the peer has gone, is left open. `Devices` and `Sessions` begin with a command that has
been read: `Handshake` says which commands are, and in which order.

`CommandPipe` is a refinement: with the messages as the stream and `done` as what was got
(a 0 is nothing that was sent), `Handshake` implements `Pipe`.

`MCDevices`, `MCSessions`, `MCProxy`, `MCBridge`, `MCHandshake` give the constants their values
for TLC; `DevicesProofs`, `SessionsProofs`, `BridgeProofs`, `PortSettingsProofs` and
`HandshakeProofs` (which extends the one before it) hold the theorems about the module of that
name; `ProxyProofs` those about the composition. `SettingsProofs` extends `HandshakeProofs` with
the proof of `SettingsKept`.

The operators whose comment begins with "Mutant:" are not part of a specification. Each is an
action changed as a plausible mistake in the code would change it (the `ok` of a
lookup ignored, a deferred call in the wrong place, a close left out); with it in the
place of the action, the property it is paired with in `PROJECT.json` fails.

## What is checked

| Run | Instance | Result |
|---|---|---|
| `devices_safety` | 3 connections, 1 identifier, any device may send USR-VCOM; symmetric | `TypeOK`, `NoGhostEntry`, `Superseded`, `Watched`, `LostToRival`, `PanicNeedsRace` hold |
| `devices_live` | 2 connections, keepalive on, fair | `DeadDeviceRemoved`, `SupersededHelpersEnd` hold |
| `sessions_safety` | 2 modem clients, 1 device, keepalive on, API; symmetric | `TypeOK`, `BusyOwned`, `MarkLostToRival`, `QuietAfterEnd`, `EndClosesBoth`, `NoLateOverlap` hold |
| `proxy` | 1 device, 1 client, keepalive on, API, fair | `DevicesSpec` (a refinement), `ServedDeviceLeaves`, `TerminateFrees`, `BothGoneEnds` hold |
| `bridge_safety` | 1 modem client with presets, 1 device; the client sends 3, the device 2 | `TypeOK`, `UpKept`, `HandshakeFirst`, `CountsCarried`, `UpPipe`, `DownPipe` hold |
| `handshake` | 10 kinds of messages, each cut in one or two places, up to 3 of them; line deadline 1, timeouts 2; fair | `TypeOK`, `NoneIgnored`, `NoFragments`, `SettingsKept`, `AnswersInForm`, `ConversionFaithful`, `CommandPipe`, `Decided`, `WaitEnds` hold |
| `devices_panic` | 3 connections | `NoPanic` fails (finding 1) |
| `devices_dropped` | 2 connections | `StaysRegistered` fails (finding 2) |
| `devices_vcom` | 2 connections that send USR-VCOM, fair | `DeadDeviceRemoved` fails (finding 3) |
| `sessions_busy` | 2 clients, 1 device | `Exclusive` fails (finding 4) |
| `bridge_transparent` | as `bridge_safety` | `Transparent` fails (finding 5) |
| `bridge_no_carrier` | as `bridge_safety` | `NoCarrierSent` fails (finding 6) |

Bounds. Every set is finite, and outside `Bridge` and `Handshake` every variable ranges over a
finite set, so the runs explore all reachable states and no guard carries a bound. `Bridge` has
one: `MaxSent`, how much each peer sends. Three of the client are a USR-VCOM packet, a byte
pipelined behind it and one sent during the session; two of the device are what a hole or a
reordering needs. All connections of an instance claim one identifier: handlers of different
identifiers share no state, so contention for one is the hard case. Three device connections are
what the double close needs: two that take over from a third. They also give a handler whose
entry was deleted by one rival while another takes over. Two clients are what an overlap of two
sessions needs, and of one that wipes the other's mark (`MarkLostToRival`). The wipe by a third
client that `NoLateOverlap` excepts cannot happen with two, so the run checks the stronger
statement that no client passes the check beside a marked session; the theorem is for any number
of clients. `devices_safety` has no keepalive, which adds no transition on the registry;
`devices_live`, `sessions_safety` and `proxy` have it. `proxy` has one device: what a takeover
does to a session is that the device is unregistered and its connection closed, which `Sessions`
contains (`DeviceUnregisters`, `DeviceClosed`), and that a takeover is no more than that is
proved for any number of devices (`ImplementsSessions`). `SessionsSpec` is not among the run's
properties for that reason: with one device it could hardly fail. `bridge_safety` has one client
and one device, as sessions share bytes only in an overlap, and no keepalive: `UpKept` is
claimed without write deadlines only.

`Handshake` is bounded by `MaxMessages`. Three are what the hazards need: settings, a modem
command and a dial; two commands and what is pipelined behind them. The kinds are one of each
way a command is treated, a USR-VCOM packet, one with a LF among its bytes, one with an `A` and
a `T` among them, and an RFC 2217 packet; the cuts are where the code looks at two bytes
together (`A`|`T`, CR|LF) or decides by what it has (a header without the rest, `AT` without the
rest). With a line deadline of 1 and timeouts of 2, a call has one pass that times out before
its overall timeout and one that does so with it; a longer timeout only adds passes of the first
kind. `ConversionFaithful` goes through all 40 modes and five rates, of one, two and three bytes
(`Modes`); as it has no variables, one state is enough. All 2^24 rates are covered by the
theorem. `StrayKind` bounds what a line gone astray may be executed as: a modem command, which
is what the rest of a packet gives, and a dial, which it gives if its next bytes are `D` and a
digit.

The runs do not check for deadlock: the connections of an instance are used up, and a
panicked or exited process stops.

Fairness. `FairSpec` asks weak fairness of each handler, of the reader, keepalive and
copy goroutines and of a `Terminate` in progress. The Go runtime schedules every
runnable goroutine, and every wait of these that the fairness helps along is ended by a
timer (read deadlines of 5 s, the ticker, write deadlines) or by an event that is a
step of the model. Nothing is asked of devices, clients, the API and the
shutdown, nor of any timer on a bridge: in particular a copy goroutine whose peer is open and
silent may wait for ever.

The connection of `Handshake` is one goroutine and a clock: `WF_vars(Proxy)` says that it is
scheduled and that time passes. Nothing is asked of its peer, who may fall silent in the
middle of a line.

## What the runs found

1. **`devices_panic`** (`handler.go:181`). Two connections that re-register the same
   device at the same time both find the old entry and both close its
   `StopKeepalive`. The second close panics, no handler recovers, and the proxy goes down.
   `PanicNeedsRace` (proved) says that this is the only way.
2. **`devices_dropped`** (`handler.go:201`). The deferred `Unregister` deletes by
   identifier, whoever is registered by then. In TLC's trace a device registers twice at once:
   both handlers find no entry, the first one's `OK` cannot be written, the second one
   registers, and the first one's deferred `Unregister` deletes the second's entry. A superseded
   handler that wakes up after its successor's `Register` does the same. The new device stays
   connected, is sent its NOPs, and no client finds it. `LostToRival` (proved) says that a
   device that no other connection contests is never dropped.
3. **`devices_vcom`** (`protocol.go:81`). After a USR-VCOM packet the wait for an
   optional command never ends once its deadline has expired: a busy loop, in which a dead
   device stays registered.
4. **`sessions_busy`** (`handler.go:428`). Two clients that check the busy mark before
   either sets it both get `OK` and both bridge to the device.
   `NoLateOverlap` (proved) says that once a session is marked, a further client passes the
   check only if a third one had a session on the device, too, and has ended and wiped the mark.
5. **`bridge_transparent`** (`handler.go:259`). `deviceReader` is not paused for a session.
   It reads from the connection the bridge reads from and discards what it gets, so a byte
   that the device sends in the middle of a session may never reach the client. `DownPipe`
   (proved) is what is left: what does arrive is in order and not repeated.
6. **`bridge_no_carrier`** (`handler.go:530`). `CHANGELOG.md` 26 lists NO CARRIER at the end of
   a modem's session, and the comment at `handler.go` 528 says the same. `Run` has closed the
   client's connection by then (`bridge.go` 73), so the write always fails.

`UpKept` names a loss in the other direction that no document denies: when the buffered
data begins with a USR-VCOM packet, only the port settings are forwarded, and bytes that
the client pipelined behind the packet are dropped (`handler.go` 477-512).

Some of what the properties state, or have to except, is worth knowing although no run is
about it.

- The comments at `bridge.go` 34 and 53 speak of *one* side, or *either* direction, closing;
  `Run` (55-58) waits for both. A client that only listens keeps the session of a device that
  has gone, and the mark on it. `BothGoneEnds` (checked) is what does hold.
- `doc/connection-sequence.md` 117 and 121-126 number the parities of SET-PARITY from 0 = NONE to
  4 = SPACE. The code (`usrvcom.go` 170) sends 1 = NONE to 5 = SPACE, as RFC 2217 has it and as
  `CHANGELOG.md` 45-53 explains (0 is a query). Here the document is out of date;
  `ConversionFaithful` takes the side of RFC 2217 and of the changelog.
- `SettingsKept` claims other data than USR-VCOM only if no ATDT stands between it and the
  command, and, across modem commands, for a modem's dial: `AT+CONNECT` takes only the data
  directly before it, and `ATDT` forgets its own. A USR-VCOM packet survives every
  command, and goes before RFC 2217 data that came after it.
- `doc/connection-sequence.md` 93 takes the eight bytes from 55 AA 55 on, before AT, for a
  USR-VCOM packet. One with a CR or LF among its bytes is not taken for one
  (`protocol.go` 161): the byte ends a line, and neither piece is a packet. 7O1 has the
  parameter 0x0A, and the device gets the checksum byte instead of its settings. Neither is one
  with `A` and `T` among its bytes (`protocol.go` 172): that of the rate 16724,
  55 AA 55 00 41 54 03 98, becomes data that is dropped and a command line that swallows the
  client's command, so that a client may be answered a modem's OK to an `AT+CONNECT` that was
  never executed. `Unmistakable` excludes both.
- A wrong checksum is logged and accepted. A rate with a byte 0xFF is sent to the
  device without doubling it, and the device reads something else.
- Data that begins like a USR-VCOM packet and is none is dropped. So is the rest of a packet
  that an error has cut, if the rest begins like one: that of a packet for the rate
  0x55AA55 (5614165), cut behind its header. `Unmistakable` names these exceptions
  and the ones before, and `SettingsKept` claims all other packets.
- A line that is not complete within one second is dropped by the line deadline, although
  the overall timeout has not passed, and its rest is then read as data before the next
  command; a packet on the same line goes with it. `NoFragments`, `NoneIgnored` and
  `SettingsKept` are claimed for messages that no error has cut, and `torn` says which
  those are.
- A command pipelined behind `AT+REG` may be left in the first `bufio.Reader` (`lost`).
- A client that has set numeric answers gets a plain `ERROR` when the handshake times out.

## What is proved

All theorems are for any set of connections, clients and identifiers, any amount of data,
any messages and any timeouts; the only assumptions are the named ones of the modules.
`DevicesAssumption`, `SessionsAssumption`, `ProxyAssumption`, `BridgeAssumption` and
`ReaderAssumption` say that the constants have their types and that `None` is not a
connection. `HandshakeAssumption` says besides what a message is: a command begins with
`AT`, which is cut between its two letters at most, and ends with CR, LF or CR LF, which may
be cut in two; the messages in the domain of `Asks` are the packets of the settings they are
said to ask for. Nothing is assumed about what data holds: an `A` with a `T` behind it, and
an `A` at the end of what has arrived, may occur anywhere in it, as long as a part begins
there (`ReaderAssumption`).

`DevicesProofs`. `TypeOK` is inductive. The others rest on one inductive invariant, `IInv ==
TypeOK /\ NoGhostEntry /\ Superseded /\ LostToRival /\ Chain /\ StoppedByOther /\
ReaderStopped`. None of the safety properties is inductive alone, because a handler in the
middle of a takeover acts on a local copy. `Chain` says whom that copy can name: another
connection with the same identifier, one that has been registered before and therefore will
never be stored again. With it, `UnregisterOld` and `DeferredUnregister`, which delete whoever
is there, can only remove an entry (`NoGhost`), and the entry they remove belongs to someone
with a rival (`KeptUnlessContested`). `StoppedByOther` says that a closed channel was closed by
a handler that is past that statement, which gives `PanicOnlyByRace` at the second close and
`TakeoverComplete`. `ReaderStopped` ties the reader to the channel, which gives `AlwaysWatched`.

`SessionsProofs`. `IInv == TypeOK /\ TableOfPhases /\ CopyingInsideRun /\ ClientClosedFirst /\
BusyOwned /\ MarkLostToRival /\ EndClosesBoth`: the table is determined by the phases
(`TableOfPhases`), copy goroutines exist only between the start and the join
(`CopyingInsideRun`), and a closed client connection stays closed while the device's is being
closed (`ClientClosedFirst`). From these follow `NeverStuckBusy`, `MarkLostOnlyToRival`,
`NoCopyAfterEnd`, `BothClosed` and, as an action property, `OverlapOnlyByRace`.

`ProxyProofs`, assuming only `ProxyAssumption` (both of the above). `DP` and `SP` are
`DevicesProofs` and `SessionsProofs` at the variables of `Proxy`. What either side needs of
the other is one fact, `Link`: a device that a client holds has been registered. Closing
its connection is then a step `Devices` allows (`SessionCloses`), and storing it again,
which `Sessions` forbids, cannot happen. `IInv == D!TypeOK /\ D!NoGhostEntry /\ Link` is
inductive (`NoGhostEntry` because the client finds its device in the registry), and under
it every step of `Proxy` is a step or a stutter of both components: `ImplementsDevices`
and `ImplementsSessions`. Through these the theorems about the components hold of the
whole proxy; `ProxyNoGhost`, `ProxyNeverStuckBusy`, `ProxyNoCopyAfterEnd` and
`ProxyTakeoverComplete` state the most important ones.

`BridgeProofs`. `ImplementsSessions` is the superposition, step by step: with the bytes taken
away, a step of `Bridge` is a step of `Sessions` or a stutter. So `SP!IInv`, the invariant of
`SessionsProofs`, holds here too, and what the bytes need of the control comes from it. `IInv ==
TypeOK /\ SP!IInv /\ ByteInv /\ UpCover /\ CountsCarried /\ Unassigned` follows each byte on its
way. `UnreadIs`, `BufferedIs`, `UpHeld` and `DownHeld` say which positions lie in the
connection, in the `bufio.Reader` and in each copy's `buf`; the way down is weaker than the way
up, since `deviceReader` and the copy of an overlapping session read the same connection.
`Handshaken` orders the presets, the buffered data and the start of the copies, and the first
word of a client in session is the reply; a client that is refused (`RefuseIs`) gets no other
word. `AtDevice` and `AtClient` say that what a peer has got is in order and before all that the
copies hold. `UpCover` says that nothing is left out on the way up. `StepCases` reduces the
actions to seven effects on the bytes (`DialEffect` to `SendsEffect`), and each part of the
invariant is proved once for each. From `IInv` follow `TypeCorrect`, `NothingLostUp`,
`HandshakeOrder` and `CountsTrue`, and, step by step, the two refinements of `Pipe`: `PipeUp`
and `PipeDown`. They hold with overlapping sessions too, in which two clients write to one
device.

`PortSettingsProofs`. `ConversionsFaithful`: for every setting whose rate has no byte 255, the
packet the proxy sends for a client's USR-VCOM packet is read by a telnet peer as the commands
that set the device to what the client asked for, and `ParseRFC2217Commands` reads from it
what went in. What the model's functions compute is proved without induction theorems, by
`Induction`, a least counterexample among the numbers up to a bound, for which arithmetic is
enough. A recursive function is a `CHOOSE`, so it is shown to exist first (`TelnetRuns`,
`CommandsRead`, `Flattened`). The argument then has three parts. `TelnetCommand`:
wherever a complete command lies in the data (`HasCommand`), a telnet peer that is between
two commands reads it, byte by byte, and is between two commands again behind it; `CommandIn`
says the same of the proxy's own search. `FourAppended`: the packet for the device is
four such commands, each behind the other. `ParsedAsMeant`: the one header of the client's packet
is its first, and the arithmetic of its bytes gives back the rate and the mode. The exception is
needed: the proxy does not double a byte 255, which the telnet peer takes for the
beginning of a command.

`HandshakeProofs`. Six layers, each on the one before. `Control` is the type of everything but
the data (`ControlTypeCorrect`); with `ModemInv`, which ties `modem` to the commands executed,
it gives `AnsweredInForm`. `OrderInv` says that what is done, the line, and what is ahead (the
`bufio.Reader`, then the socket) are in the order of the script, which gives `CommandsInOrder`,
the refinement of `Pipe`. `StreamInv` says that nothing is missing: what is ahead has no holes
(`NoHoles`), a line that has been begun is a beginning of its command and goes on with the next
part of it (`LineIs`), the data skipped lies before both (`SkippedBefore`), of a command
executed nothing is still to come, not even the LF behind its CR (`EndedInv`), and a command
whose first part has been read has been executed or is the line (`BegunInv`); the last two
unless an error has cut the command, which is what `torn` records. They give `NoCommandIgnored`
and, with `FragInv` (no part of a command is among the data), `NoFragmentKept`. `SettingsTypes`,
which says that what has been collected are parts of messages and that a configuration is one,
completes `TypeOK` (`TypeCorrect`). `SettingsConverted` takes `ConversionFaithful` from
`PortSettingsProofs`.

`SettingsProofs`. `SettingsReachDevice` follows the one packet of a client from its first byte
to the device, for any packet that is `Unmistakable`, any cuts and any commands behind it.
Nothing says in which of `skipped`, `allSkipped`, `vcom`, `config` and `presets` its bytes are
at a given moment, so `SettingsKept` is far from inductive. `KeptInv` says it: as long as no
packet has been read there is nothing (`Nothing`), and the only one that has been read
(`Touched`, `Only`) is at one of four stages: its first parts are data of this line and of lines
that have ended (`Collected`), it is settings as it was meant (`Parsed`), a modem command has
kept it as data (`Stored`), or another command has dropped it (`Forgotten`). `Position` says how
much of it has been read, so that the next part taken is its next one. One lemma for each effect
moves it along: `StageTakes`, `StageEnds` (a line ends), `StageKept` (the deadline ends it),
`StageDropped` (which would have cut a command), `StageModem`, `StageTone`; `StageStays` does
the others. A line's data is recognised only if it is all of the packet or an error has cut it
(`LineOfPacket`, with `VcomPacketIs` and `PrefixShorter` about its bytes). `LfBehind` is needed
for one corner: the LF behind a CR is read with the command, although it may be a message of its
own and no data. `AstrayInv` deals with the lines that no command begins. The packet has no `A`
and `T` of its own, so such a line can only begin at an `A` at its end and a `T` that begins
another packet (`AstrayBegins`), and then the reader has still to read that other packet, so
that there is not only one (`StuckStays`). At the hand-over, all of the packet has been read
(`ReadBehind`, from `EndedInv`), and `Delivered` goes through the stages: `ForwardOf` makes of
each what `SettingsKept` claims, by `ConversionsFaithful` where it is settings, and the stages
in which the data is gone are those with the commands between that `SettingsKept` excepts.

Only model-checked: the liveness properties (`DeadDeviceRemoved`, `SupersededHelpersEnd`,
`ServedDeviceLeaves`, `TerminateFrees`, `BothGoneEnds`, `Decided`, `WaitEnds`), as fairness and
`ENABLED` are outside the prover. Every invariant and every action property of a passing run,
and every refinement, is a theorem. That a property fails is shown by TLC's counterexample.

## What is not modelled

The text of replies, log lines (with them `IsQuery`, `String`, `ModeString`), HTML and JSON;
durations other than the order of deadlines and timeouts in the handshake (elsewhere a timer
may fire at any time); the content of bytes after the handshake, and the telnet NOPs among them
(what a receiver got is considered beside the NOPs); the three socket options per
platform, whose effect (a dead peer becomes an error) is `PeerCloses` and `ClientGone`;
configuration, of which only `IdleTimeout > 0` (`KeepaliveOn`) and the timeouts matter here;
`ModemState.Echo`, which nothing reads; the branch for a line that is no AT command, which
is dead, since a line that is not empty begins with `AT`; `rfc2217/constants.go`,
`BuildResponse`, `SendRFC2217Responses`, `SendToDevice` and the modem's ERROR, which
nothing calls.

Of the HTTP API, only what changes state is modelled (`Terminate`). `ListInfo` of the registry
and of the session manager take each entry under its own lock, and the answers are
snapshots that nothing in the proxy acts on; `/login` and `/logout` set a cookie in the
browser and keep nothing.

## Plan

Done: all modules, their runs, and the proofs above. What could be added: `SettingsKept` is
about one packet before a session; of several, the last USR-VCOM packet on lines of its own
wins over data that came after it, which a property could say and the stages of
`SettingsProofs` would have to be told apart by packet for.
