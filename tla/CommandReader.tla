--------------------------- MODULE CommandReader ---------------------------
(***************************************************************************)
(* How the proxy reads AT commands off a connection on which port settings *)
(* may come before them: ReadATCommandWithPresets, readLineWithSkipped and *)
(* the bufio.Reader below them (internal/connection/protocol.go).          *)
(*                                                                         *)
(* A message is a command line or data, such as a packet of port settings. *)
(* It travels in parts, which the network may deliver at once or one by    *)
(* one, and which the reader takes whole.  For that a part is a piece of   *)
(* one line: a newline in it (CR, LF or CR LF) is at its end.  And where   *)
(* the reader may see a command begin, at an 'A' that a 'T' follows or     *)
(* that is the last byte to be had, a part begins: a message is cut there, *)
(* whether the 'A' is a command's or the data's.  Time passes in ticks.    *)
(***************************************************************************)
EXTENDS PortSettings

CONSTANTS
    Kind,         \* the messages a peer may send
    Text,         \* the parts of each
    MaxMessages,  \* bound on the messages of the peer
    LineDeadline  \* the read deadline of one pass of the loop

CR == 13
LF == 10
AT == <<65, 84>>

\* What a line can be to parseATCommand and to the modem; "dial" has a number,
\* "tone" has none.
ModemKind == {"atz", "atv0", "atv1", "ati", "other"}
CommandKind == ModemKind \cup {"tone", "dial", "connect", "reg"}

ASSUME ReaderAssumption ==
    /\ Text \in [Kind -> Seq(Seq(Byte) \ {<<>>}) \ {<<>>}]
    /\ \A k \in Kind : \A n \in 1 .. Len(Text[k]) : \A i \in 2 .. Len(Text[k][n]) :
          Text[k][n][i] = AT[1] => i < Len(Text[k][n]) /\ Text[k][n][i + 1] # AT[2]
    /\ MaxMessages \in Nat
    /\ LineDeadline \in Nat \ {0}

VARIABLES
    script,      \* the kinds of the messages the peer has sent or begun
    left,        \* how many parts of the last of them it has still to send
    gone,        \* the peer has closed its side
    unread,      \* the parts that lie in the socket
    buf,         \* the parts that lie in the bufio.Reader
    now,         \* the time since the call
    timeout,     \* the timeout of the call, 0 for none
    deadline,    \* the connection's read deadline
    reading,     \* the call: "reads", has "returned" a command, has "failed"
    line,        \* readLineWithSkipped: the command line begun
    skipped,     \* readLineWithSkipped: the data before it
    allSkipped,  \* ReadATCommandWithPresets: the data of the lines before
    vcom,        \* ReadATCommandWithPresets: usrvcomCfg
    torn         \* history: the messages that have not been read as what they are: an
                 \* error has cut them in two, or the line they are on was begun by no
                 \* command

peerVars == <<script, left, gone>>
callVars == <<timeout, deadline, reading, line, skipped, allSkipped, vcom>>
readerVars == <<peerVars, unread, buf, now, callVars, torn>>

Bytes(part) == Text[script[part[1]]][part[2]]
IsNewline(b) == b \in {CR, LF}
EndsLine(part) == IsNewline(Last(Bytes(part)))

\* What of a part is data: the newline at its end never is.
Content(part) ==
    LET bytes == Bytes(part)
    IN  SubSeq(bytes, 1, Len(bytes) - Cardinality({i \in DOMAIN bytes : IsNewline(bytes[i])}))

Data(parts) == FlattenSeq([i \in 1 .. Len(parts) |-> Content(parts[i])])

ReaderInit ==
    /\ script = <<>> /\ left = 0 /\ gone = FALSE
    /\ unread = <<>> /\ buf = <<>> /\ torn = {}

(***************************************************************************)
(* bufio.Reader and readLineWithSkipped.                                   *)
(***************************************************************************)

\* The last byte of a part is looked at together with the next one: CR, and 'A'
\* in data.
Peeks(part) == Last(Bytes(part)) = CR \/ (line = <<>> /\ Bytes(part) = <<AT[1]>>)

\* ReadByte or Peek needs more than the bufio.Reader has.
Blocked == buf = <<>> \/ (Len(buf) = 1 /\ Peeks(buf[1]))

Waits == reading = "reads" /\ Blocked

Expired == now >= deadline
EndOfStream == gone /\ unread = <<>>

Fill ==
    /\ Waits /\ unread # <<>> /\ ~Expired
    /\ buf' = buf \o unread
    /\ unread' = <<>>
    /\ UNCHANGED <<peerVars, now, callVars, torn>>

\* The next part can be read: nothing has to be peeked, or it is there, or the
\* peek has failed.
Reads == reading = "reads" /\ buf # <<>> /\ (~Blocked \/ Expired \/ EndOfStream)

\* The next part belongs to a command line: it is one already, or 'A' and 'T'
\* begin one.
InCommand ==
    \/ line # <<>>
    \/ IsPrefix(AT, Bytes(buf[1]))
    \/ Bytes(buf[1]) = <<AT[1]>> /\ Len(buf) > 1 /\ Head(Bytes(buf[2])) = AT[2]

\* A line that is begun by an 'A' and a 'T' in the middle of something else.
Astray(l) == l # <<>> /\ ~(script[l[1][1]] \in CommandKind /\ l[1][2] = 1)

\* A part with no newline.
ReadPart ==
    /\ Reads /\ ~EndsLine(buf[1])
    /\ buf' = Tail(buf)
    /\ IF InCommand
       THEN line' = Append(line, buf[1]) /\ UNCHANGED skipped
       ELSE skipped' = Append(skipped, buf[1]) /\ UNCHANGED line
    /\ torn' = IF Blocked \/ Astray(line') THEN torn \cup {buf[1][1]} ELSE torn
    /\ UNCHANGED <<peerVars, unread, now, timeout, deadline, reading, allSkipped, vcom>>

(***************************************************************************)
(* The peer and time.  What arrives while the reader is at work is of no   *)
(* consequence before it waits again, and what the reader does takes no    *)
(* time beside its deadlines.  So all this happens while it waits.         *)
(***************************************************************************)

\* The next part of the message, or the first of another one.
PeerSends ==
    /\ Waits /\ ~gone
    /\ \/ /\ left > 0
          /\ left' = left - 1
          /\ UNCHANGED script
       \/ /\ left = 0 /\ Len(script) < MaxMessages
          /\ \E kind \in Kind :
                script' = Append(script, kind) /\ left' = Len(Text[kind]) - 1
    /\ LET m == Len(script')
       IN  unread' = Append(unread, <<m, Len(Text[script'[m]]) - left'>>)
    /\ UNCHANGED <<gone, buf, now, callVars, torn>>

PeerCloses ==
    /\ Waits /\ ~gone
    /\ gone' = TRUE
    /\ UNCHANGED <<script, left, unread, buf, now, callVars, torn>>

\* Time passes until the deadline, and while the reader spins because the
\* deadline is the timeout itself.
Tick ==
    /\ Waits
    /\ (unread = <<>> /\ ~Expired /\ ~gone) \/ now = timeout
    /\ now' = now + 1
    /\ UNCHANGED <<peerVars, unread, buf, callVars, torn>>

(***************************************************************************)
(* ReadATCommandWithPresets.                                               *)
(***************************************************************************)

\* The call: it sets a deadline unless its caller has (timeout 0).
Call(limit, callers) ==
    /\ now' = 0
    /\ timeout' = limit
    /\ deadline' = IF limit = 0 THEN callers ELSE Min({LineDeadline, limit})
    /\ reading' = "reads"
    /\ line' = <<>> /\ skipped' = <<>> /\ allSkipped' = <<>>
    /\ vcom' = NoConfig

\* Mutant: the overall timeout is left to the deadline.
AgainUnbounded(all, config) ==
    /\ allSkipped' = all /\ vcom' = config
    /\ line' = <<>> /\ skipped' = <<>>
    /\ deadline' = IF timeout = 0 THEN deadline ELSE Min({now + LineDeadline, timeout})
    /\ UNCHANGED <<timeout, reading>>

\* The next pass of the loop.
Again(all, config) ==
    /\ allSkipped' = all /\ vcom' = config
    /\ line' = <<>> /\ skipped' = <<>>
    /\ IF timeout > 0 /\ now > timeout
       THEN reading' = "failed" /\ UNCHANGED deadline
       ELSE /\ deadline' = IF timeout = 0 THEN deadline ELSE Min({now + LineDeadline, timeout})
            /\ UNCHANGED reading
    /\ UNCHANGED timeout

\* The data of a line: a USR-VCOM packet is parsed, a part of one is dropped, any
\* other data is kept.
VcomAfter(data) ==
    IF IsUSRVCOM(data) /\ ParseUSRVCOM(data) # NoConfig THEN ParseUSRVCOM(data) ELSE vcom

SkippedAfter(data, parts) ==
    IF IsUSRVCOM(data) THEN allSkipped ELSE allSkipped \o parts

\* Mutant: the LF behind a CR is left in the stream.
AfterLineKeepsLf == Tail(buf)

\* Mutant: the line is peeked at, not read.
AfterLineUnread == buf

\* What is left behind the end of a line: a LF that is there goes with its CR.
AfterLine ==
    IF Len(buf) > 1 /\ Peeks(buf[1]) /\ Bytes(buf[2]) = <<LF>>
    THEN SubSeq(buf, 3, Len(buf)) ELSE Tail(buf)

\* Mutant: an empty line is returned, too.
ReadLineEndEmpty ==
    /\ Reads /\ EndsLine(buf[1])
    /\ buf' = AfterLine
    /\ reading' = "returned"
    /\ UNCHANGED <<peerVars, unread, now, timeout, deadline, line, skipped, allSkipped, vcom, torn>>

\* A part with a newline ends the line; an empty line is passed over.
ReadLineEnd ==
    /\ Reads /\ EndsLine(buf[1])
    /\ buf' = AfterLine
    /\ IF InCommand
       THEN /\ reading' = "returned"
            /\ line' = Append(line, buf[1])
            /\ skipped' = <<>>
            /\ \E data \in {Data(skipped)} :
                  allSkipped' = SkippedAfter(data, skipped) /\ vcom' = VcomAfter(data)
            /\ UNCHANGED <<timeout, deadline>>
       ELSE LET parts == IF Data(<<buf[1]>>) = <<>> THEN skipped ELSE Append(skipped, buf[1])
            IN  \E data \in {Data(parts)} :
                    Again(SkippedAfter(data, parts), VcomAfter(data))
    /\ torn' = IF InCommand /\ (Blocked \/ Astray(line')) THEN torn \cup {buf[1][1]} ELSE torn
    /\ UNCHANGED <<peerVars, unread, now>>

\* The messages an error cuts in two.
Cut ==
    LET read == ToSet(line \o skipped)
    IN  {m \in {part[1] : part \in read} : <<m, Len(Text[script[m]])>> \notin read}

\* The read ends with an error.
ReadFails(error) ==
    /\ reading = "reads" /\ buf = <<>> /\ error
    /\ torn' = torn \cup Cut
    /\ UNCHANGED <<peerVars, unread, buf, now>>

Fail ==
    /\ reading' = "failed"
    /\ UNCHANGED <<timeout, deadline, line, skipped, allSkipped, vcom>>

\* The deadline finds data without a newline and no command begun.
DeadlineKeepsData ==
    /\ ReadFails(Expired)
    /\ skipped # <<>> /\ line = <<>>
    /\ \E data \in {Data(skipped)} :
          IF IsUSRVCOM(data) /\ ParseUSRVCOM(data) # NoConfig
          THEN Again(allSkipped, ParseUSRVCOM(data))
          ELSE Again(allSkipped \o skipped, vcom)

\* It finds nothing, or a command begun, which is dropped with the data before it.
DeadlineDropsLine ==
    /\ ReadFails(Expired)
    /\ skipped = <<>> \/ line # <<>>
    /\ vcom # NoConfig \/ (timeout > 0 /\ now < timeout)
    /\ Again(allSkipped, vcom)

\* Mutant: a wait without a timeout of its own goes on.
TimesOutTimed ==
    /\ ReadFails(Expired)
    /\ skipped = <<>> \/ line # <<>>
    /\ vcom = NoConfig /\ timeout > 0 /\ now >= timeout
    /\ Fail

\* It finds nothing, there is no USR-VCOM packet, and the timeout is over or the
\* caller's.
TimesOut ==
    /\ ReadFails(Expired)
    /\ skipped = <<>> \/ line # <<>>
    /\ vcom = NoConfig /\ (timeout = 0 \/ now >= timeout)
    /\ Fail

StreamEnds == ReadFails(EndOfStream /\ ~Expired) /\ Fail

Reader ==
    \/ Fill \/ ReadPart \/ ReadLineEnd
    \/ DeadlineKeepsData \/ DeadlineDropsLine \/ TimesOut \/ StreamEnds
=============================================================================
