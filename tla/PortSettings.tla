---------------------------- MODULE PortSettings ----------------------------
(***************************************************************************)
(* Port settings on the wire: the USR-VCOM packet a client may send before *)
(* its command and the RFC 2217 commands the proxy sends the device for it *)
(* (internal/connection/usrvcom.go, internal/connection/rfc2217.go).       *)
(*                                                                         *)
(* Data is a sequence of bytes.  The operators of the first part are the   *)
(* proxy's; those of the second say what the two protocols mean, so that   *)
(* the first can be held against them.                                     *)
(***************************************************************************)
EXTENDS Integers, Sequences, FiniteSetsExt, SequencesExt

Byte == 0 .. 255

IAC == 255
SB == 250
SE == 240
ComPortOption == 44

SetBaudrate == 1
SetDatasize == 2
SetParity == 3
SetStopsize == 4

(***************************************************************************)
(* The proxy.                                                              *)
(***************************************************************************)

USRVCOMHeader == <<85, 170, 85>>
USRVCOMPacketLen == 8

HeaderAt(data, i) == SubSeq(data, i, i + 2) = USRVCOMHeader

IsUSRVCOM(data) == Len(data) >= 3 /\ HeaderAt(data, 1)

\* The bit of that weight.
Bit(byte, weight) == (byte \div weight) % 2

\* The weights of the bytes of a number of four.
Weight == <<16777216, 65536, 256, 1>>

BigEndian(n, width) == [i \in 1 .. width |-> (n \div Weight[4 - width + i]) % 256]

ConfigType == [BaudRate : Nat, DataBits : 0 .. 8, Parity : 0 .. 4, StopBits : 0 .. 2]

\* No configuration: the nil of the code.
NoConfig == [BaudRate |-> 0, DataBits |-> 0, Parity |-> 0, StopBits |-> 0]

\* Mutant: the parity type is taken without the enable bit.
ParseAlwaysParity(data) ==
    LET packet == SubSeq(data, 1, USRVCOMPacketLen)
        param == packet[7]
    IN  IF Len(data) < USRVCOMPacketLen THEN NoConfig
        ELSE [BaudRate |-> packet[4] * Weight[2] + packet[5] * Weight[3] + packet[6],
              DataBits |-> 5 + (param % 4),
              Parity |-> 1 + ((param \div 16) % 4),
              StopBits |-> 1 + Bit(param, 4)]

\* The first packet in data, wherever it begins.  Its checksum is not looked at
\* but for a log line.
ParseUSRVCOM(data) ==
    LET starts == {i \in 1 .. Len(data) - USRVCOMPacketLen + 1 : HeaderAt(data, i)}
        packet == SubSeq(data, Min(starts), Min(starts) + USRVCOMPacketLen - 1)
        param == packet[7]
    IN  IF starts = {} THEN NoConfig
        ELSE [BaudRate |-> packet[4] * Weight[2] + packet[5] * Weight[3] + packet[6],
              DataBits |-> 5 + (param % 4),
              Parity |-> IF Bit(param, 8) = 1 THEN 1 + ((param \div 16) % 4) ELSE 0,
              StopBits |-> 1 + Bit(param, 4)]

\* USR-VCOM counts parities from 0, RFC 2217 from 1.
ToRFC2217Commands(c) ==
    << [Command |-> SetBaudrate, Data |-> BigEndian(c.BaudRate, 4)],
       [Command |-> SetDatasize, Data |-> <<c.DataBits>>],
       [Command |-> SetParity,   Data |-> <<c.Parity + 1>>],
       [Command |-> SetStopsize, Data |-> <<c.StopBits>>] >>

Subnegotiation(cmd) == <<IAC, SB, ComPortOption, cmd.Command>> \o cmd.Data \o <<IAC, SE>>

BuildRFC2217Packet(c) ==
    LET commands == ToRFC2217Commands(c)
    IN  FlattenSeq([i \in 1 .. Len(commands) |-> Subnegotiation(commands[i])])

\* From 3 bytes behind i on, the next IAC SE ends the command at i; one with no
\* command byte is no command.
CommandEnd(data, i) ==
    Min({j \in i + 3 .. Len(data) - 1 : data[j] = IAC /\ data[j + 1] = SE} \cup {Len(data) + 1})

CommandAt(data, i) ==
    /\ SubSeq(data, i, i + 2) = <<IAC, SB, ComPortOption>>
    /\ CommandEnd(data, i) \in i + 4 .. Len(data)

\* The commands among data, as the log shows them.
ParseRFC2217Commands(data) ==
    LET from[i \in 1 .. Len(data) + 2] ==
            IF i > Len(data) - 2 THEN <<>>
            ELSE IF CommandAt(data, i)
            THEN <<[Command |-> data[i + 3], Data |-> SubSeq(data, i + 4, CommandEnd(data, i) - 1)]>>
                     \o from[CommandEnd(data, i) + 2]
            ELSE from[i + 1]
    IN  from[1]

(***************************************************************************)
(* The protocols.                                                          *)
(***************************************************************************)

\* A port's settings, parity by its letter.
Setting == [baud : 0 .. Weight[1] - 1, size : 5 .. 8, parity : {"N", "O", "E", "M", "S"},
            stop : {1, 2}]

Parities == <<"N", "O", "E", "M", "S">>
ParityIndex(s) == CHOOSE k \in 1 .. 5 : Parities[k] = s.parity

\* The packet a USR-VCOM client sends for s (doc/USR-VCOM.md).
VcomPacket(s) ==
    LET parity == IF s.parity = "N" THEN 0 ELSE 8 + 16 * (ParityIndex(s) - 2)
        content == BigEndian(s.baud, 3) \o <<(s.size - 5) + 4 * (s.stop - 1) + parity>>
    IN  USRVCOMHeader \o content \o <<(content[1] + content[2] + content[3] + content[4]) % 256>>

\* How a telnet peer reads data, byte by byte: the subnegotiations in it, IAC IAC
\* being a byte 255 (RFC 854, 855).
TelnetStep(s, b) ==
    CASE s.at = "data" -> [s EXCEPT !.at = IF b = IAC THEN "iac" ELSE "data"]
      [] s.at = "iac" -> [s EXCEPT !.at = IF b = SB THEN "sub" ELSE "data", !.arg = <<>>]
      [] s.at = "sub" /\ b = IAC -> [s EXCEPT !.at = "subIac"]
      [] s.at = "sub" /\ b # IAC -> [s EXCEPT !.arg = Append(@, b)]
      [] s.at = "subIac" /\ b = IAC -> [s EXCEPT !.at = "sub", !.arg = Append(@, b)]
      [] s.at = "subIac" /\ b = SE -> [s EXCEPT !.at = "data", !.got = Append(@, s.arg)]
      [] OTHER -> [s EXCEPT !.at = "data"]

TelnetReads(data) ==
    LET state[n \in 0 .. Len(data)] ==
            IF n = 0 THEN [at |-> "data", arg |-> <<>>, got |-> <<>>]
            ELSE TelnetStep(state[n - 1], data[n])
    IN  state[Len(data)].got

\* The subnegotiations that set a device to s (RFC 2217).
Sets(s) ==
    << <<44, 1>> \o BigEndian(s.baud, 4), <<44, 2, s.size>>,
       <<44, 3, ParityIndex(s)>>, <<44, 4, s.stop>> >>

\* What the proxy sends the device for a client's packet sets the device to what
\* the client asked for, and the proxy logs the commands it sends; except a baud
\* rate with a byte 255, which is not doubled.
Faithful(s) ==
    LET config == ParseUSRVCOM(VcomPacket(s))
        packet == BuildRFC2217Packet(config)
    IN  (\A i \in 1 .. 3 : BigEndian(s.baud, 3)[i] # IAC) =>
            /\ TelnetReads(packet) = Sets(s)
            /\ ParseRFC2217Commands(packet) = ToRFC2217Commands(config)
=============================================================================
