----------------------------- MODULE Handshake -----------------------------
(***************************************************************************)
(* What happens on a connection before it is a device's or a session:      *)
(* Handle's command loop, the modem it emulates, the port settings it      *)
(* collects on the way and hands over, and the wait of handleDevice for an *)
(* optional ATDT (internal/connection/handler.go, modem.go).               *)
(*                                                                         *)
(* One connection.  Modules Devices, Sessions and Bridge go on where this  *)
(* one ends.  Whether a token is good is left open.                        *)
(***************************************************************************)
EXTENDS CommandReader

CONSTANTS
    Asks,               \* the settings that each USR-VCOM message asks for
    StrayKind,          \* bound: what a line that no command begins may be
    InitTimeout,        \* the timeouts of the configuration
    PostConnectTimeout

VARIABLES
    phase,    \* "handshake", "device" (waits for ATDT), "idle" (a device that has
              \* been waited for), "client" (handleClient), "closed"
    modem,    \* ModemState: "none", Verbose ("text") or not ("numeric")
    config,   \* Handle's usrvcomCfg
    presets,  \* Handle's rfc2217Presets
    forward,  \* the bytes of rfc2217Buf, which go to the device first
    replies,  \* what has been written: to which message, what, in which form
    done,     \* history: the commands executed, 0 for a line that no command begins
    kinds,    \* history: what each of them was executed as
    lost      \* history: the parts left behind in Handle's bufio.Reader

handlerVars == <<phase, modem, config, presets, forward, replies, done, kinds, lost>>
vars == <<readerVars, handlerVars>>

\* The parts of a command: AT begins it, and its end is CR, LF or CR LF.
IsCommand(parts) ==
    /\ \/ IsPrefix(AT, parts[1])
       \/ parts[1] = <<AT[1]>> /\ Len(parts) > 1 /\ Head(parts[2]) = AT[2]
    /\ IsNewline(Last(Last(parts)))
    /\ \A i \in 1 .. Len(parts) - 1 : IsNewline(Last(parts[i])) =>
          i = Len(parts) - 1 /\ Last(parts[i]) = CR /\ Last(parts) = <<LF>>

ASSUME HandshakeAssumption ==
    /\ InitTimeout \in Nat \ {0}
    /\ PostConnectTimeout \in Nat \ {0}
    /\ StrayKind \subseteq CommandKind /\ StrayKind # {}
    /\ DOMAIN Asks \subseteq Kind \ CommandKind
    /\ \A k \in DOMAIN Asks : Asks[k] \in Setting /\ FlattenSeq(Text[k]) = VcomPacket(Asks[k])
    /\ \A k \in Kind \cap CommandKind : IsCommand(Text[k])

Init ==
    /\ ReaderInit
    /\ now = 0 /\ timeout = InitTimeout /\ deadline = Min({LineDeadline, InitTimeout})
    /\ reading = "reads"
    /\ line = <<>> /\ skipped = <<>> /\ allSkipped = <<>> /\ vcom = NoConfig
    /\ phase = "handshake" /\ modem = "none"
    /\ config = NoConfig /\ presets = <<>> /\ forward = <<>>
    /\ replies = <<>> /\ done = <<>> /\ kinds = <<>> /\ lost = <<>>

\* The command the reader has returned.
Message == IF Astray(line) THEN 0 ELSE line[1][1]

Or(c, default) == IF c # NoConfig THEN c ELSE default

Reply(word, form) == replies' = Append(replies, [to |-> Message, word |-> word, form |-> form])

\* As what it is executed.  What a line is that no command begins depends on its
\* bytes and is left open.
Executes(kind) ==
    /\ reading = "returned"
    /\ IF Message = 0 THEN kind \in StrayKind ELSE kind = script[Message]
    /\ done' = Append(done, Message) /\ kinds' = Append(kinds, kind)

Handles(kind) ==
    /\ phase = "handshake"
    /\ Executes(kind)
    /\ config' = Or(vcom, config)

Stops == UNCHANGED <<now, callVars>>

(***************************************************************************)
(* The modem.                                                              *)
(***************************************************************************)

\* Mutant: ATV0 is answered in the mode it sets.
HandleCommandSwitchesFirst(kind, mode) ==
    CASE kind \in {"atz", "atv1"} -> [answers |-> "text", after |-> "text"]
      [] kind = "atv0" -> [answers |-> "numeric", after |-> "numeric"]
      [] OTHER -> [answers |-> mode, after |-> mode]

\* The mode in which a command is answered, and the mode after it.
HandleCommand(kind, mode) ==
    CASE kind = "atz" -> [answers |-> "text", after |-> "text"]
      [] kind = "atv0" -> [answers |-> mode, after |-> "numeric"]
      [] kind = "atv1" -> [answers |-> mode, after |-> "text"]
      [] OTHER -> [answers |-> mode, after |-> mode]

\* The first modem command turns the emulation on.
Mode == IF modem = "none" THEN "text" ELSE modem

\* Mutant: every command is read through a bufio.Reader of its own.
ModemCommandNewReader ==
    /\ \E kind \in ModemKind :
          /\ Handles(kind)
          /\ modem' = HandleCommand(kind, Mode).after
          /\ Reply("OK", HandleCommand(kind, Mode).answers)
    /\ presets' = presets \o allSkipped
    /\ Call(PostConnectTimeout, 0)
    /\ buf' = <<>>
    /\ UNCHANGED <<peerVars, unread, torn, phase, forward, lost>>

ModemCommand ==
    /\ \E kind \in ModemKind :
          /\ Handles(kind)
          /\ modem' = HandleCommand(kind, Mode).after
          /\ Reply(IF kind = "ati" THEN "info" ELSE "OK", HandleCommand(kind, Mode).answers)
    /\ presets' = presets \o allSkipped
    /\ Call(PostConnectTimeout, 0)
    /\ UNCHANGED <<peerVars, unread, buf, torn, phase, forward, lost>>

\* ATDT with no number or no modem; the data before it is forgotten.  The plain
\* OK may fail, which ends the connection.
Tone ==
    /\ Handles("tone") \/ (modem = "none" /\ Handles("dial"))
    /\ \/ /\ Reply("OK", IF modem = "none" THEN "plain" ELSE modem)
          /\ Call(PostConnectTimeout, 0)
          /\ UNCHANGED phase
       \/ /\ modem = "none" /\ gone
          /\ phase' = "closed"
          /\ Stops /\ UNCHANGED replies
    /\ UNCHANGED <<peerVars, unread, buf, torn, modem, presets, forward, lost>>

(***************************************************************************)
(* The hand-over to handleClient.                                          *)
(***************************************************************************)

\* The bytes for the device: a USR-VCOM packet's settings, or else the data that
\* came before the command.
ForwardOf(c, data) ==
    IF c # NoConfig THEN BuildRFC2217Packet(c)
    ELSE IF ~IsUSRVCOM(data) THEN data
    ELSE IF ParseUSRVCOM(data) # NoConfig THEN BuildRFC2217Packet(ParseUSRVCOM(data))
    ELSE <<>>

Token(form) ==
    \/ phase' = "client" /\ UNCHANGED replies
    \/ phase' = "closed" /\ Reply(IF form = "plain" THEN "ERROR" ELSE "NO CARRIER", form)

HandOver(parts, form) ==
    /\ Token(form)
    /\ \E data \in {Data(parts)} : forward' = ForwardOf(config', data)
    /\ Stops
    /\ UNCHANGED <<peerVars, unread, buf, torn, modem, presets, lost>>

\* Mutant: the data before earlier commands is not taken over.
DialForgetsPresets ==
    /\ Handles("dial")
    /\ modem # "none"
    /\ HandOver(allSkipped, modem)

\* ATD<number> in modem mode: its own data, or else that before the modem commands.
ModemDial ==
    /\ Handles("dial")
    /\ modem # "none"
    /\ HandOver(IF allSkipped = <<>> THEN presets ELSE allSkipped, modem)

Connect == Handles("connect") /\ HandOver(allSkipped, "plain")

(***************************************************************************)
(* handleDevice up to its wait.                                            *)
(***************************************************************************)

BadToken ==
    /\ phase' = "closed" /\ Reply("ERROR", "plain")
    /\ Stops /\ UNCHANGED <<lost, buf>>

\* The OK may fail.  The wait reads through a bufio.Reader of its own.
Register ==
    /\ Handles("reg")
    /\ \/ BadToken
       \/ /\ phase' = "device" /\ Reply("OK", "plain")
          /\ lost' = buf /\ buf' = <<>>
          /\ Call(0, PostConnectTimeout)
       \/ /\ gone /\ phase' = "closed"
          /\ Stops /\ UNCHANGED <<lost, buf, replies>>
    /\ UNCHANGED <<peerVars, unread, torn, modem, presets, forward>>

\* Any command ends the wait; only ATDT and ATDP are answered.
DeviceTone ==
    /\ phase = "device" /\ phase' = "idle"
    /\ \E kind \in CommandKind :
          /\ Executes(kind)
          /\ IF kind \in {"tone", "dial"} THEN Reply("OK", "plain") ELSE UNCHANGED replies
    /\ UNCHANGED <<readerVars, modem, config, presets, forward, lost>>

DeviceWaitEnds ==
    /\ phase = "device" /\ reading = "failed"
    /\ phase' = "idle"
    /\ UNCHANGED <<readerVars, modem, config, presets, forward, replies, done, kinds, lost>>

\* A plain ERROR, in modem mode too.
GiveUp ==
    /\ phase = "handshake" /\ reading = "failed"
    /\ phase' = "closed"
    /\ replies' = Append(replies, [to |-> 0, word |-> "ERROR", form |-> "plain"])
    /\ UNCHANGED <<readerVars, modem, config, presets, forward, done, kinds, lost>>

Handler ==
    \/ ModemCommand \/ Tone \/ ModemDial \/ Connect
    \/ Register \/ DeviceTone \/ DeviceWaitEnds \/ GiveUp

Waiting == phase \in {"handshake", "device"}

Peer == Waiting /\ (PeerSends \/ PeerCloses) /\ UNCHANGED handlerVars
Proxy == (Waiting /\ (Tick \/ Reader) /\ UNCHANGED handlerVars) \/ Handler

Next == Peer \/ Proxy

Spec == Init /\ [][Next]_vars

\* Time passes and the connection's goroutine is scheduled; the peer may fall
\* silent.
FairSpec == Spec /\ WF_vars(Proxy)

(***************************************************************************)
(* Properties.                                                             *)
(***************************************************************************)

Messages == 1 .. Len(script)
Commands == {m \in Messages : script[m] \in CommandKind}
Packets == Messages \ Commands
LastDone == done[Len(done)]

Part == {part \in Messages \X (Nat \ {0}) : part[2] <= Len(Text[script[part[1]]])}
Word == {"OK", "info", "ERROR", "NO CARRIER"}

ControlTypes ==
    /\ script \in Seq(Kind) /\ Len(script) <= MaxMessages
    /\ left \in Nat /\ gone \in BOOLEAN
    /\ script = <<>> => left = 0
    /\ script # <<>> => left < Len(Text[Last(script)])
    /\ {unread, buf, line, lost} \subseteq Seq(Part)
    /\ {now, timeout, deadline} \subseteq Nat
    /\ reading \in {"reads", "returned", "failed"}
    /\ phase \in {"handshake", "device", "idle", "client", "closed"}
    /\ modem \in {"none", "text", "numeric"}
    /\ replies \in Seq([to : Messages \cup {0}, word : Word, form : {"plain", "text", "numeric"}])
    /\ done \in Seq(Commands \cup {0})
    /\ kinds \in Seq(CommandKind) /\ Len(kinds) = Len(done)

DataTypes ==
    /\ {skipped, allSkipped, presets} \subseteq Seq(Part)
    /\ {vcom, config} \subseteq ConfigType
    /\ torn \subseteq Messages
    /\ forward \in Seq(Byte)

\* Every variable has its type, and a command that was returned has a line.
TypeOK == ControlTypes /\ DataTypes /\ (reading = "returned" => line # <<>>)

\* Commands are executed in the order they were sent in, each at most once.
Order == INSTANCE Pipe WITH
            Stream <- {"peer"}, sent <- [s \in {"peer"} |-> Len(script)],
            got <- [s \in {"peer"} |-> done]
CommandPipe == Order!Spec

\* The messages of which every part, but for a LF behind the CR, has left the
\* socket and the bufio.Reader.
Taken ==
    {m \in Messages : \A n \in 1 .. Len(Text[script[m]]) :
        \/ n > 1 /\ EndsLine(<<m, n - 1>>)
        \/ /\ m < Len(script) \/ n <= Len(Text[script[m]]) - left
           /\ <<m, n>> \notin ToSet(unread \o buf \o lost)}

\* No command is passed over: one that has been read, with no error in the middle
\* of it, has been executed or is about to be.
NoneIgnored ==
    \A m \in (Commands \cap Taken) \ torn :
        \/ m \in ToSet(done)
        \/ reading = "returned" /\ m = Message

\* Unless an error or another reader has cut a command: what is kept as port
\* settings never holds a piece of a command, and the LF of the command that asks
\* for the session is not left over to be taken for the session's first byte.
NoFragments ==
    (Commands \cap torn = {} /\ lost = <<>>) =>
        /\ \A part \in ToSet(allSkipped \o presets) : part[1] \in Packets
        /\ phase = "client" =>
              /\ \A part \in ToSet(buf \o unread) : part[1] > LastDone
              /\ LastDone < Len(script) \/ left = 0

\* An 'A' and a 'T' that the reader takes for the beginning of a command.
HoldsCommand(data) == \E i \in 1 .. Len(data) - 1 : SubSeq(data, i, i + 1) = AT

\* The reader cannot mistake the packet: there is no CR or LF in it and no 'A' with a
\* 'T' behind it, its rate has no byte 255, and only its beginning looks like a
\* USR-VCOM packet, if it is one, however an error cuts it.
Unmistakable(p) ==
    LET text == Text[script[p]]
        asks == script[p] \in DOMAIN Asks
    IN  /\ \A n \in 1 .. Len(text) : \A i \in 1 .. Len(text[n]) : ~IsNewline(text[n][i])
        /\ ~HoldsCommand(FlattenSeq(text))
        /\ asks => \A i \in 1 .. 3 : BigEndian(Asks[script[p]].baud, 3)[i] # IAC
        /\ \A a, b \in 1 .. Len(text) :
              /\ p \in torn \/ (a = 1 /\ b = Len(text))
              /\ IsUSRVCOM(FlattenSeq(SubSeq(text, a, b)))
              => asks /\ a = 1

\* The settings of the one packet sent before a session reach the device: those of
\* USR-VCOM converted, whatever commands come between, unless an error has cut the
\* packet; other data as it is, if no command or only modem commands and the modem's
\* dial follow it.  Not if an error cuts a command.
SettingsKept ==
    \A p \in Packets :
        LET between == {m \in Commands : p < m /\ m < LastDone}
        IN  (/\ phase = "client" /\ p < LastDone
             /\ Packets \cap 1 .. LastDone = {p}
             /\ Commands \cap torn = {}
             /\ Unmistakable(p))
            => IF script[p] \in DOMAIN Asks
               THEN (p \notin torn \/ between = {}) => TelnetReads(forward) = Sets(Asks[script[p]])
               ELSE (\/ between = {}
                     \/ /\ script[LastDone] = "dial"
                        /\ \A m \in between : script[m] \in ModemKind)
                    => forward = FlattenSeq(Text[script[p]])

\* The client has asked for numbers, before the n-th executed command.
Numeric(n) ==
    \E i \in 1 .. n - 1 :
        /\ kinds[i] = "atv0"
        /\ \A j \in i + 1 .. n - 1 : kinds[j] \notin {"atz", "atv1"}

Emulated(n) ==
    /\ \E i \in 1 .. n : kinds[i] \in ModemKind
    /\ \A i \in 1 .. n : kinds[i] \notin {"connect", "reg"}

FormOf(n) ==
    IF ~Emulated(n) THEN "plain"
    ELSE IF Numeric(n) /\ kinds[n] # "atz" THEN "numeric" ELSE "text"

\* The answers to commands; the ERROR of a handshake that fails is to none.
Answers ==
    IF phase = "closed" /\ reading = "failed" THEN Len(replies) - 1 ELSE Len(replies)

\* Every command that leaves the connection in the handshake, or lets it wait for
\* ATDT, is answered, once and in order, and in the form that the client has asked
\* for: as a modem from the first modem command on, in numbers from an ATV0 to an
\* ATV1 or ATZ.
AnswersInForm ==
    /\ Answers \in {Len(done) - 1, Len(done)}
    /\ Waiting => Answers = Len(done)
    /\ \A n \in 1 .. Answers : replies[n].to = done[n] /\ replies[n].form = FormOf(n)

\* The handshake comes to an end: once the peer is silent, the connection is a
\* session's or a device's, or it is closed.
Decided == <>(phase # "handshake")

\* handleDevice's wait for ATDT ends, unless a USR-VCOM packet has been read in it.
WaitEnds == (phase = "device") ~> (phase = "idle" \/ vcom # NoConfig)

\* Every mode, at rates that fill one, two and three bytes.
Modes == [baud : {110, 9600, 115200, 921600, 65520}, size : 5 .. 8,
          parity : {"N", "O", "E", "M", "S"}, stop : {1, 2}]

\* The conversion of USR-VCOM settings is right for all of them, by RFC 2217 and
\* what CHANGELOG.md says of the offset of one; doc/connection-sequence.md numbers the
\* parities from 0 = NONE and disagrees.  (A formula without variables: one state is
\* enough.)
ConversionFaithful == (script = <<>>) => \A s \in Modes : Faithful(s)
=============================================================================
