-------------------------- MODULE HandshakeProofs --------------------------
(***************************************************************************)
(* Proofs about Handshake, for any messages, however they are cut, any     *)
(* number of them, and any timeouts.                                       *)
(***************************************************************************)
EXTENDS Handshake, PortSettingsProofs

(***************************************************************************)
(* The types of the control variables.                                     *)
(***************************************************************************)

\* There is a line when the reader has returned, and what is on one that no command
\* begins is known for torn.
LineBegun ==
    /\ reading = "returned" => line # <<>>
    /\ Astray(line) => \A i \in 1 .. Len(line) : line[i][1] \in torn

Control == ControlTypes /\ LineBegun

\* The peer has sent nothing, the rest of a message, or the first part of another.
Grows ==
    \/ script' = script
    \/ \E kind \in Kind : script' = Append(script, kind)

LEMMA Assumptions ==
    /\ Text \in [Kind -> Seq(Seq(Byte) \ {<<>>}) \ {<<>>}]
    /\ MaxMessages \in Nat
    /\ LineDeadline \in Nat /\ InitTimeout \in Nat /\ PostConnectTimeout \in Nat
    /\ StrayKind \subseteq CommandKind
    /\ \A k \in Kind \cap CommandKind : IsCommand(Text[k])
  BY ReaderAssumption, HandshakeAssumption, Zenon DEF ReaderAssumption, HandshakeAssumption

LEMMA MinOfTwo ==
    ASSUME NEW a \in Nat, NEW b \in Nat
    PROVE  Min({a, b}) \in Nat
<1>1. \E x \in {a, b} : \A y \in {a, b} : x <= y
  OBVIOUS
<1>2. Min({a, b}) \in {a, b}
  BY <1>1 DEF Min
<1>3. QED
  BY <1>2

\* A message keeps its kind and its parts.
LEMMA ScriptGrows ==
    ASSUME script \in Seq(Kind), Grows
    PROVE  /\ script' \in Seq(Kind)
           /\ Len(script') >= Len(script)
           /\ \A m \in Messages : script'[m] = script[m]
           /\ Messages \subseteq Messages' /\ Commands \subseteq Commands'
           /\ Part \subseteq Part'
           /\ \A part \in Part : Bytes(part)' = Bytes(part)
<1>1. /\ script' \in Seq(Kind)
      /\ Len(script') >= Len(script)
      /\ \A m \in 1 .. Len(script) : script'[m] = script[m]
  BY DEF Grows
<1>2. 1 .. Len(script) \subseteq 1 .. Len(script')
  BY <1>1
<1>3. \A part \in Part : part[1] \in 1 .. Len(script)
  BY DEF Part, Messages
<1>4. Part \subseteq Part'
  BY <1>1, <1>2, <1>3 DEF Part, Messages
<1>5. \A part \in Part : Bytes(part)' = Bytes(part)
  BY <1>1, <1>3 DEF Bytes
<1>6. QED
  BY <1>1, <1>2, <1>4, <1>5 DEF Messages, Commands

\* A step of the peer, of time or of the reader.
Reading == Waiting /\ (PeerSends \/ PeerCloses \/ Tick \/ Reader) /\ UNCHANGED handlerVars

LEMMA NextCases == [Next]_vars => Reading \/ Handler \/ UNCHANGED vars
  BY DEF Next, Peer, Proxy, Reading

\* The script grows only by what the peer sends.
LEMMA StepGrows ==
    ASSUME [Next]_vars
    PROVE  Grows
<1>1. CASE Reading
  BY <1>1 DEF Reading, Reader, PeerSends, PeerCloses, Tick, Fill, ReadPart, ReadLineEnd,
     DeadlineKeepsData, DeadlineDropsLine, TimesOut, StreamEnds, ReadFails, peerVars, Grows
<1>2. CASE Handler
  BY <1>2 DEF Handler, ModemCommand, Tone, ModemDial, Connect, HandOver,
         Register, BadToken, DeviceTone,
     DeviceWaitEnds, GiveUp, peerVars, readerVars, Grows
<1>3. CASE UNCHANGED vars
  BY <1>3 DEF vars, readerVars, peerVars, Grows
<1>4. QED
  BY <1>1, <1>2, <1>3, NextCases

\* The message that is being sent is not all sent.
SendingTypes ==
    /\ script \in Seq(Kind) /\ Len(script) <= MaxMessages
    /\ left \in Nat /\ gone \in BOOLEAN
    /\ script = <<>> => left = 0
    /\ script # <<>> => left < Len(Text[Last(script)])

LEMMA SendingStep ==
    ASSUME SendingTypes, [Next]_vars
    PROVE  SendingTypes'
<1>1. CASE PeerSends
  <2>1. CASE left > 0 /\ left' = left - 1 /\ UNCHANGED script
    BY <1>1, <2>1 DEF PeerSends, SendingTypes
  <2>2. ASSUME left = 0, Len(script) < MaxMessages, NEW kind \in Kind,
               script' = Append(script, kind), left' = Len(Text[kind]) - 1
        PROVE  SendingTypes'
    <3>1. PICK n \in Nat \ {0} : n = Len(Text[kind])
      <4>1. Text[kind] \in Seq(Seq(Byte) \ {<<>>}) \ {<<>>}
        BY Assumptions
      <4>2. QED
        BY <4>1
    <3>2. script' \in Seq(Kind) /\ Len(script') = Len(script) + 1 /\ Last(script') = kind
      BY <2>2 DEF SendingTypes, Last
    <3>3. script' # <<>> /\ Len(script') <= MaxMessages
      <4>1. PICK l \in Nat, max \in Nat : l = Len(script) /\ max = MaxMessages
        BY Assumptions DEF SendingTypes
      <4>2. Len(script') = l + 1 /\ l < max
        BY <2>2, <3>2, <4>1
      <4>3. QED
        BY <4>1, <4>2
    <3>4. left' \in Nat /\ left' < Len(Text[kind])
      BY <2>2, <3>1
    <3>5. gone' \in BOOLEAN
      BY <1>1 DEF PeerSends, SendingTypes
    <3>6. QED
      BY <3>2, <3>3, <3>4, <3>5 DEF SendingTypes
  <2>3. QED
    BY <1>1, <2>1, <2>2 DEF PeerSends
<1>2. CASE PeerCloses
  BY <1>2 DEF PeerCloses, SendingTypes
<1>3. CASE UNCHANGED peerVars
  BY <1>3 DEF peerVars, SendingTypes
<1>4. CASE Reading
  BY <1>1, <1>2, <1>3, <1>4 DEF Reading, Reader, Tick, Fill, ReadPart, ReadLineEnd,
     DeadlineKeepsData, DeadlineDropsLine, TimesOut, StreamEnds, ReadFails
<1>5. CASE Handler
  BY <1>3, <1>5 DEF Handler, ModemCommand, Tone, ModemDial, Connect, HandOver, Register, BadToken,
     DeviceTone, DeviceWaitEnds, GiveUp, readerVars, peerVars
<1>6. QED
  BY <1>3, <1>4, <1>5, NextCases DEF vars, readerVars

\* The parts are parts of messages sent.
QueueTypes == {unread, buf, line, lost} \subseteq Seq(Part)

\* What the peer sends is a part of the last message.
LEMMA SentPart ==
    ASSUME SendingTypes, SendingTypes', PeerSends
    PROVE  \E n \in Nat \ {0} :
              /\ <<Len(script'), n>> \in Part'
              /\ n = Len(Text[script'[Len(script')]]) - left'
              /\ unread' = Append(unread, <<Len(script'), n>>)
<1>1. script' # <<>>
  <2>1. CASE left > 0
    <3>1. script # <<>> /\ script' = script
      BY <2>1 DEF PeerSends, SendingTypes
    <3>2. QED
      BY <3>1
  <2>2. ASSUME NEW kind \in Kind, script' = Append(script, kind) PROVE script' # <<>>
    BY <2>2 DEF SendingTypes
  <2>3. QED
    BY <2>1, <2>2 DEF PeerSends
<1>2. PICK m \in Nat \ {0}, k \in Kind : m = Len(script') /\ k = script'[m]
  BY <1>1 DEF SendingTypes
<1>3. PICK t \in Nat, l \in Nat : t = Len(Text[k]) /\ l = left' /\ l < t
  <2>1. Text[k] \in Seq(Seq(Byte) \ {<<>>})
    BY Assumptions
  <2>2. left' \in Nat /\ left' < Len(Text[k])
    BY <1>1, <1>2 DEF SendingTypes, Last
  <2>3. QED
    BY <2>1, <2>2
<1>4. t - l \in Nat \ {0} /\ t - l <= t
  BY <1>3
<1>5. <<m, t - l>> \in Part'
  BY <1>2, <1>3, <1>4 DEF Part, Messages
<1>6. unread' = Append(unread, <<m, t - l>>)
  BY <1>2, <1>3 DEF PeerSends
<1>7. QED
  BY <1>2, <1>3, <1>4, <1>5, <1>6

LEMMA QueueStep ==
    ASSUME SendingTypes, SendingTypes', QueueTypes, [Next]_vars
    PROVE  QueueTypes'
<1>1. Part \subseteq Part' /\ Seq(Part) \subseteq Seq(Part')
  <2>1. Part \subseteq Part'
    BY StepGrows, ScriptGrows DEF SendingTypes
  <2>2. QED
    BY <2>1
<1>2. unread \in Seq(Part) /\ buf \in Seq(Part) /\ line \in Seq(Part) /\ lost \in Seq(Part)
  BY DEF QueueTypes
<1>3. <<>> \in Seq(Part)
  OBVIOUS
<1>4. SUFFICES ASSUME ~PeerSends
               PROVE  {unread', buf', line', lost'} \subseteq Seq(Part)
  <2>1. CASE PeerSends
    <3>1. PICK part \in Part' : unread' = Append(unread, part)
      BY <2>1, SentPart
    <3>2. unread \in Seq(Part')
      BY <1>1, <1>2
    <3>3. unread' \in Seq(Part')
      BY <3>1, <3>2
    <3>4. buf' = buf /\ line' = line
      BY <2>1 DEF PeerSends, callVars
    <3>5. lost' = lost
      <4>1. CASE Reading
        BY <4>1 DEF Reading, handlerVars
      <4>2. CASE Handler
        BY <2>1, <4>2 DEF PeerSends, Waits, Handler, ModemCommand, Tone, ModemDial, Connect,
           HandOver, Register, BadToken, DeviceTone, DeviceWaitEnds, GiveUp, Executes
      <4>3. QED
        BY <4>1, <4>2, NextCases DEF vars, handlerVars
    <3>6. QED
      BY <1>1, <1>2, <3>3, <3>4, <3>5 DEF QueueTypes
  <2>2. CASE ~PeerSends
    BY <1>1, <1>4, <2>2 DEF QueueTypes
  <2>3. QED
    BY <2>1, <2>2
<1>5. CASE Reading
  <2>1. lost' = lost
    BY <1>5 DEF Reading, handlerVars
  <2>2. CASE PeerCloses \/ Tick
    BY <1>2, <2>1, <2>2 DEF PeerCloses, Tick, callVars
  <2>3. CASE Fill
    BY <1>2, <1>3, <2>1, <2>3 DEF Fill, callVars
  <2>4. CASE ReadPart
    <3>1. buf # <<>> /\ buf[1] \in Part
      BY <1>2, <2>4 DEF ReadPart, Reads
    <3>2. buf' = Tail(buf) /\ unread' = unread /\ line' \in {line, Append(line, buf[1])}
      BY <2>4 DEF ReadPart
    <3>3. Tail(buf) \in Seq(Part) /\ Append(line, buf[1]) \in Seq(Part)
      BY <1>2, <3>1
    <3>4. QED
      BY <1>2, <2>1, <3>2, <3>3
  <2>5. CASE ReadLineEnd
    <3>1. buf # <<>> /\ buf[1] \in Part
      BY <1>2, <2>5 DEF ReadLineEnd, Reads
    <3>2. AfterLine \in Seq(Part)
      <4>1. Tail(buf) \in Seq(Part)
        BY <1>2, <3>1
      <4>2. ASSUME Len(buf) > 1 PROVE SubSeq(buf, 3, Len(buf)) \in Seq(Part)
        BY <1>2, <4>2
      <4>3. QED
        BY <4>1, <4>2 DEF AfterLine
    <3>3. buf' = AfterLine /\ unread' = unread /\ line' \in {<<>>, Append(line, buf[1])}
      BY <2>5 DEF ReadLineEnd, Again
    <3>4. Append(line, buf[1]) \in Seq(Part)
      BY <1>2, <3>1
    <3>5. QED
      BY <1>2, <1>3, <2>1, <3>2, <3>3, <3>4
  <2>6. CASE DeadlineKeepsData \/ DeadlineDropsLine
    <3>1. buf' = buf /\ unread' = unread /\ line' = <<>>
      BY <2>6 DEF DeadlineKeepsData, DeadlineDropsLine, ReadFails, Again
    <3>2. QED
      BY <1>2, <1>3, <2>1, <3>1
  <2>7. CASE TimesOut \/ StreamEnds
    <3>1. buf' = buf /\ unread' = unread /\ line' = line
      BY <2>7 DEF TimesOut, StreamEnds, ReadFails, Fail
    <3>2. QED
      BY <1>2, <2>1, <3>1
  <2>8. QED
    BY <1>4, <1>5, <2>2, <2>3, <2>4, <2>5, <2>6, <2>7 DEF Reading, Reader
<1>6. CASE Handler
  <2>1. unread' = unread
    BY <1>6 DEF Handler, ModemCommand, Tone, ModemDial, Connect, HandOver,
           Register, BadToken, DeviceTone,
       DeviceWaitEnds, GiveUp, readerVars
  <2>2. line' \in {line, <<>>}
    BY <1>6 DEF Handler, ModemCommand, Tone, ModemDial, Connect, HandOver,
           Register, BadToken, DeviceTone,
       DeviceWaitEnds, GiveUp, readerVars, callVars, Call, Stops
  <2>3. buf' \in {buf, <<>>} /\ lost' \in {lost, buf}
    BY <1>6 DEF Handler, ModemCommand, Tone, ModemDial, Connect, HandOver,
           Register, BadToken, DeviceTone,
       DeviceWaitEnds, GiveUp, readerVars
  <2>4. QED
    BY <1>2, <1>3, <2>1, <2>2, <2>3
<1>7. CASE UNCHANGED vars
  BY <1>2, <1>7 DEF vars, readerVars, callVars, handlerVars
<1>8. QED
  BY <1>5, <1>6, <1>7, NextCases

\* What is torn remains so, and a line remains what it is.
LEMMA TornGrows ==
    ASSUME [Next]_vars
    PROVE  torn \subseteq torn'
<1>1. CASE Reading
  BY <1>1 DEF Reading, Reader, PeerSends, PeerCloses, Tick, Fill, ReadPart, ReadLineEnd,
     DeadlineKeepsData, DeadlineDropsLine, TimesOut, StreamEnds, ReadFails
<1>2. CASE Handler
  BY <1>2 DEF Handler, ModemCommand, Tone, ModemDial, Connect, HandOver,
         Register, BadToken, DeviceTone,
     DeviceWaitEnds, GiveUp, readerVars
<1>3. CASE UNCHANGED vars
  BY <1>3 DEF vars, readerVars
<1>4. QED
  BY <1>1, <1>2, <1>3, NextCases

LEMMA AstrayKept ==
    ASSUME script \in Seq(Kind), Grows, NEW l \in Seq(Part)
    PROVE  Astray(l)' <=> Astray(l)
<1>1. l # <<>> => l[1] \in Part
  OBVIOUS
<1>2. \A part \in Part : script'[part[1]] = script[part[1]]
  BY ScriptGrows DEF Part
<1>3. QED
  BY <1>1, <1>2 DEF Astray

\* What a line that takes the next part in begins with.
LEMMA BeginsStill ==
    ASSUME SendingTypes, QueueTypes, LineBegun, buf # <<>>,
           NEW l, l = Append(line, buf[1]),
           NEW t, torn \subseteq t, Astray(l) => buf[1][1] \in t
    PROVE  l # <<>> /\ (Astray(l) => \A i \in 1 .. Len(l) : l[i][1] \in t)
<1>1. line \in Seq(Part) /\ buf[1] \in Part
  BY DEF QueueTypes
<1>2. PICK n \in Nat : n = Len(line)
  BY <1>1
<1>3. l # <<>> /\ Len(l) = n + 1 /\ l[n + 1] = buf[1] /\ \A i \in 1 .. n : l[i] = line[i]
  BY <1>1, <1>2
<1>4. SUFFICES ASSUME Astray(l), NEW i \in 1 .. n + 1 PROVE l[i][1] \in t
  BY <1>3
<1>5. CASE i = n + 1
  BY <1>3, <1>4, <1>5
<1>6. CASE i \in 1 .. n
  <2>1. line # <<>> /\ l[1] = line[1] /\ l[i] = line[i]
    BY <1>2, <1>3, <1>6
  <2>2. Astray(line)
    BY <1>4, <2>1 DEF Astray
  <2>3. QED
    BY <1>2, <1>6, <2>1, <2>2 DEF LineBegun
<1>7. QED
  BY <1>2, <1>4, <1>5, <1>6

LEMMA LineStep ==
    ASSUME SendingTypes, QueueTypes, LineBegun, [Next]_vars
    PROVE  LineBegun'
<1>1. torn \subseteq torn' /\ Grows
  BY StepGrows, TornGrows
<1>2. ASSUME line' = line \/ line' = <<>>, reading' = "returned" => reading = "returned" /\ line' = line
      PROVE  LineBegun'
  <2>1. CASE line' = line
    <3>1. Astray(line)' <=> Astray(line)
      <4>1. PICK l \in Seq(Part) : l = line
        BY DEF QueueTypes
      <4>2. Astray(l)' <=> Astray(l)
        BY <1>1, AstrayKept DEF SendingTypes
      <4>3. QED
        BY <2>1, <4>1, <4>2 DEF Astray
    <3>2. QED
      BY <1>1, <1>2, <2>1, <3>1 DEF LineBegun
  <2>2. CASE line' = <<>> /\ reading' # "returned"
    BY <2>2 DEF LineBegun, Astray
  <2>3. QED
    BY <1>2, <2>1, <2>2
<1>3. ASSUME line' = Append(line, buf[1]), buf # <<>>, script' = script,
             Astray(line') => buf[1][1] \in torn'
      PROVE  LineBegun'
  <2>1. PICK l : l = line'
    OBVIOUS
  <2>2. l # <<>> /\ (Astray(l) => \A i \in 1 .. Len(l) : l[i][1] \in torn')
    BY <1>1, <1>3, <2>1, BeginsStill
  <2>3. Astray(line)' <=> Astray(l)
    BY <1>3, <2>1 DEF Astray
  <2>4. QED
    BY <2>1, <2>2, <2>3 DEF LineBegun
<1>4. CASE Reading
  <2>1. CASE PeerSends \/ PeerCloses \/ Tick \/ Fill
    BY <1>2, <2>1 DEF PeerSends, PeerCloses, Tick, Fill, callVars
  <2>2. CASE ReadPart
    <3>1. CASE InCommand
      <4>1. buf # <<>> /\ line' = Append(line, buf[1]) /\ script' = script
        BY <2>2, <3>1 DEF ReadPart, Reads, peerVars
      <4>2. Astray(line') => buf[1][1] \in torn'
        BY <2>2 DEF ReadPart
      <4>3. QED
        BY <1>3, <4>1, <4>2
    <3>2. CASE ~InCommand
      BY <1>2, <2>2, <3>2 DEF ReadPart
    <3>3. QED
      BY <3>1, <3>2
  <2>3. CASE ReadLineEnd
    <3>1. CASE InCommand
      <4>1. buf # <<>> /\ line' = Append(line, buf[1]) /\ script' = script
        BY <2>3, <3>1 DEF ReadLineEnd, Reads, peerVars
      <4>2. Astray(line') => buf[1][1] \in torn'
        BY <2>3, <3>1 DEF ReadLineEnd
      <4>3. QED
        BY <1>3, <4>1, <4>2
    <3>2. CASE ~InCommand
      <4>1. line' = <<>> /\ reading' \in {reading, "failed"} /\ reading = "reads"
        BY <2>3, <3>2 DEF ReadLineEnd, Again, Reads
      <4>2. QED
        BY <1>2, <4>1
    <3>3. QED
      BY <3>1, <3>2
  <2>4. CASE DeadlineKeepsData \/ DeadlineDropsLine
    <3>1. line' = <<>> /\ reading' \in {reading, "failed"} /\ reading = "reads"
      BY <2>4 DEF DeadlineKeepsData, DeadlineDropsLine, ReadFails, Again
    <3>2. QED
      BY <1>2, <3>1
  <2>5. CASE TimesOut \/ StreamEnds
    BY <1>2, <2>5 DEF TimesOut, StreamEnds, ReadFails, Fail
  <2>6. QED
    BY <1>4, <2>1, <2>2, <2>3, <2>4, <2>5 DEF Reading, Reader
<1>5. CASE Handler
  <2>1. \/ line' = <<>> /\ reading' = "reads"
        \/ line' = line /\ reading' = reading
    BY <1>5 DEF Handler, ModemCommand, Tone, ModemDial, Connect, HandOver,
           Register, BadToken, DeviceTone,
       DeviceWaitEnds, GiveUp, readerVars, callVars, Call, Stops
  <2>2. QED
    BY <1>2, <2>1
<1>6. CASE UNCHANGED vars
  BY <1>2, <1>6 DEF vars, readerVars, callVars
<1>7. QED
  BY <1>4, <1>5, <1>6, NextCases

\* The call's deadline is of the connection's time.
CallTypes ==
    /\ {now, timeout, deadline} \subseteq Nat
    /\ reading \in {"reads", "returned", "failed"}
    /\ phase \in {"handshake", "device", "idle", "client", "closed"}
    /\ modem \in {"none", "text", "numeric"}

LEMMA CallStep ==
    ASSUME CallTypes, [Next]_vars
    PROVE  CallTypes'
<1>1. now \in Nat /\ timeout \in Nat /\ deadline \in Nat
  BY DEF CallTypes
<1>2. Min({LineDeadline, PostConnectTimeout}) \in Nat /\ Min({now + LineDeadline, timeout}) \in Nat
  BY <1>1, Assumptions, MinOfTwo
<1>3. CASE Reading
  <2>1. phase' = phase /\ modem' = modem
    BY <1>3 DEF Reading, handlerVars
  <2>2. CASE PeerSends \/ PeerCloses \/ Fill
    BY <2>1, <2>2 DEF PeerSends, PeerCloses, Fill, callVars, CallTypes
  <2>3. CASE Tick
    BY <1>1, <2>1, <2>3 DEF Tick, callVars, CallTypes
  <2>4. CASE ReadPart
    BY <2>1, <2>4 DEF ReadPart, CallTypes
  <2>5. CASE ReadLineEnd
    <3>1. /\ now' = now /\ timeout' = timeout
          /\ deadline' \in {deadline, Min({now + LineDeadline, timeout})}
          /\ reading' \in {reading, "returned", "failed"}
      BY <2>5 DEF ReadLineEnd, Again
    <3>2. QED
      BY <1>1, <1>2, <2>1, <3>1 DEF CallTypes
  <2>6. CASE DeadlineKeepsData \/ DeadlineDropsLine
    <3>1. /\ now' = now /\ timeout' = timeout
          /\ deadline' \in {deadline, Min({now + LineDeadline, timeout})}
          /\ reading' \in {reading, "failed"}
      BY <2>6 DEF DeadlineKeepsData, DeadlineDropsLine, ReadFails, Again
    <3>2. QED
      BY <1>1, <1>2, <2>1, <3>1 DEF CallTypes
  <2>7. CASE TimesOut \/ StreamEnds
    BY <2>1, <2>7 DEF TimesOut, StreamEnds, ReadFails, Fail, CallTypes
  <2>8. QED
    BY <1>3, <2>2, <2>3, <2>4, <2>5, <2>6, <2>7 DEF Reading, Reader
<1>4. CASE Handler
  <2>1. \/ Stops
        \/ Call(PostConnectTimeout, 0)
        \/ Call(0, PostConnectTimeout)
    BY <1>4 DEF Handler, ModemCommand, Tone, ModemDial, Connect, HandOver,
           Register, BadToken, DeviceTone,
       DeviceWaitEnds, GiveUp, readerVars, Stops
  <2>2. {now', timeout', deadline'} \subseteq Nat /\ reading' \in {reading, "reads"}
    <3>1. CASE Stops
      BY <1>1, <3>1 DEF Stops, callVars
    <3>2. CASE Call(PostConnectTimeout, 0) \/ Call(0, PostConnectTimeout)
      BY <1>2, <3>2, Assumptions DEF Call
    <3>3. QED
      BY <2>1, <3>1, <3>2
  <2>3. phase' \in {phase, "device", "idle", "client", "closed"}
    BY <1>4 DEF Handler, ModemCommand, Tone, ModemDial, Connect, HandOver, Token,
           Register, BadToken,
       DeviceTone, DeviceWaitEnds, GiveUp
  <2>4. modem' \in {"none", "text", "numeric"}
    <3>1. CASE ModemCommand
      <4>1. PICK kind \in ModemKind : modem' = HandleCommand(kind, Mode).after
        BY <3>1 DEF ModemCommand
      <4>2. Mode \in {"text", "numeric"}
        BY DEF Mode, CallTypes
      <4>3. QED
        BY <4>1, <4>2 DEF HandleCommand
    <3>2. CASE ~ModemCommand
      BY <1>4, <3>2 DEF Handler, Tone, ModemDial, Connect, HandOver, Register, BadToken, DeviceTone,
         DeviceWaitEnds, GiveUp, CallTypes
    <3>3. QED
      BY <3>1, <3>2
  <2>5. QED
    BY <2>2, <2>3, <2>4 DEF CallTypes
<1>5. CASE UNCHANGED vars
  BY <1>5 DEF vars, readerVars, callVars, handlerVars, CallTypes
<1>6. QED
  BY <1>3, <1>4, <1>5, NextCases

(***************************************************************************)
(* What a step does to the record of commands and answers.                 *)
(***************************************************************************)

Answered(form) ==
    \E word \in Word : replies' = Append(replies, [to |-> Message, word |-> word, form |-> form])

Unanswered == UNCHANGED replies

\* Nothing is executed or answered; handleDevice's wait may end.
NothingExecuted ==
    /\ UNCHANGED <<done, kinds, replies, modem>>
    /\ phase' = phase \/ (phase = "device" /\ phase' = "idle")
    /\ phase = "closed" => reading' = reading

GivesUp ==
    /\ UNCHANGED <<script, done, kinds, modem>>
    /\ phase = "handshake" /\ phase' = "closed" /\ reading' = "failed"
    /\ replies' = Append(replies, [to |-> 0, word |-> "ERROR", form |-> "plain"])

ExecutesModem(kind) ==
    /\ phase = "handshake" /\ phase' = "handshake"
    /\ kind \in ModemKind
    /\ modem' = HandleCommand(kind, Mode).after
    /\ Answered(HandleCommand(kind, Mode).answers)

ExecutesTone(kind) ==
    /\ phase = "handshake"
    /\ kind = "tone" \/ (kind = "dial" /\ modem = "none")
    /\ UNCHANGED modem
    /\ \/ phase' = "handshake" /\ Answered(IF modem = "none" THEN "plain" ELSE modem)
       \/ phase' = "closed" /\ Unanswered

ExecutesDial(kind) ==
    /\ phase = "handshake"
    /\ kind = "dial" /\ modem # "none"
    /\ UNCHANGED modem
    /\ \/ phase' = "client" /\ Unanswered
       \/ phase' = "closed" /\ Answered(modem)

ExecutesConnect(kind) ==
    /\ phase = "handshake"
    /\ kind = "connect"
    /\ UNCHANGED modem
    /\ \/ phase' = "client" /\ Unanswered
       \/ phase' = "closed" /\ Answered("plain")

ExecutesReg(kind) ==
    /\ phase = "handshake"
    /\ kind = "reg"
    /\ UNCHANGED modem
    /\ \/ phase' \in {"device", "closed"} /\ Answered("plain")
       \/ phase' = "closed" /\ Unanswered

EndsWait(kind) ==
    /\ phase = "device" /\ phase' = "idle"
    /\ kind \in CommandKind
    /\ UNCHANGED modem
    /\ Answered("plain") \/ Unanswered

ExecutesAs(kind) ==
    \/ ExecutesModem(kind) \/ ExecutesTone(kind) \/ ExecutesDial(kind)
    \/ ExecutesConnect(kind) \/ ExecutesReg(kind) \/ EndsWait(kind)

Executed ==
    /\ reading = "returned"
    /\ script' = script /\ left' = left /\ unread' = unread
    /\ phase' = "closed" => reading' = "returned"
    /\ \E kind \in CommandKind : Executes(kind) /\ ExecutesAs(kind)

LEMMA ReplyAnswers ==
    ASSUME NEW form
    PROVE  /\ Reply("OK", form) => Answered(form)
           /\ Reply("info", form) => Answered(form)
           /\ Reply("ERROR", form) => Answered(form)
           /\ Reply("NO CARRIER", form) => Answered(form)
  BY DEF Reply, Answered, Word

\* Together with the other things a handler does.
LEMMA ExecutedBy ==
    ASSUME NEW kind \in CommandKind, Executes(kind), ExecutesAs(kind),
           UNCHANGED <<peerVars, unread>>, phase' = "closed" => reading' = reading
    PROVE  Executed
  BY DEF Executed, Executes, peerVars

LEMMA RecordEffect ==
    ASSUME [Next]_vars
    PROVE  NothingExecuted \/ GivesUp \/ Executed
<1>1. CASE Reading
  BY <1>1 DEF Reading, Waiting, handlerVars, NothingExecuted
<1>2. CASE ModemCommand
  <2>1. PICK kind \in ModemKind :
           /\ Handles(kind)
           /\ modem' = HandleCommand(kind, Mode).after
           /\ Reply(IF kind = "ati" THEN "info" ELSE "OK", HandleCommand(kind, Mode).answers)
    BY <1>2 DEF ModemCommand
  <2>2. /\ phase = "handshake" /\ phase' = "handshake" /\ UNCHANGED <<peerVars, unread>>
        /\ Executes(kind) /\ kind \in CommandKind
    BY <1>2, <2>1 DEF ModemCommand, Handles, CommandKind
  <2>3. Answered(HandleCommand(kind, Mode).answers)
    BY <2>1, ReplyAnswers
  <2>4. ExecutesAs(kind)
    BY <2>1, <2>2, <2>3 DEF ExecutesModem, ExecutesAs
  <2>5. QED
    BY <2>2, <2>4, ExecutedBy
<1>3. CASE Tone
  <2>1. PICK kind \in {"tone", "dial"} :
           Handles(kind) /\ (kind = "tone" \/ (kind = "dial" /\ modem = "none"))
    BY <1>3 DEF Tone
  <2>2. /\ phase = "handshake" /\ UNCHANGED <<peerVars, unread, modem>>
        /\ Executes(kind) /\ kind \in CommandKind
    BY <1>3, <2>1 DEF Tone, Handles, CommandKind
  <2>3. \/ phase' = "handshake" /\ Reply("OK", IF modem = "none" THEN "plain" ELSE modem)
        \/ phase' = "closed" /\ Unanswered /\ reading' = reading
    BY <1>3, <2>2 DEF Tone, Unanswered, Stops, callVars
  <2>4. \/ phase' = "handshake" /\ Answered(IF modem = "none" THEN "plain" ELSE modem)
        \/ phase' = "closed" /\ Unanswered
    BY <2>3, ReplyAnswers
  <2>5. ExecutesAs(kind)
    BY <2>1, <2>2, <2>4 DEF ExecutesTone, ExecutesAs
  <2>6. QED
    BY <2>2, <2>3, <2>5, ExecutedBy
<1>4. CASE ModemDial
  <2>1. /\ phase = "handshake" /\ modem # "none" /\ UNCHANGED <<peerVars, unread, modem>>
        /\ Executes("dial") /\ "dial" \in CommandKind
        /\ reading' = reading /\ Token(modem)
    BY <1>4 DEF ModemDial, HandOver, Handles, CommandKind, Stops, callVars
  <2>2. (phase' = "client" /\ Unanswered) \/ (phase' = "closed" /\ Answered(modem))
    BY <2>1, ReplyAnswers DEF Token, Unanswered
  <2>3. ExecutesAs("dial")
    BY <2>1, <2>2 DEF ExecutesDial, ExecutesAs
  <2>4. QED
    BY <2>1, <2>3, ExecutedBy
<1>5. CASE Connect
  <2>1. /\ phase = "handshake" /\ UNCHANGED <<peerVars, unread, modem>>
        /\ Executes("connect") /\ "connect" \in CommandKind
        /\ reading' = reading /\ Token("plain")
    BY <1>5 DEF Connect, HandOver, Handles, CommandKind, Stops, callVars
  <2>2. (phase' = "client" /\ Unanswered) \/ (phase' = "closed" /\ Answered("plain"))
    BY <2>1, ReplyAnswers DEF Token, Unanswered
  <2>3. ExecutesAs("connect")
    BY <2>1, <2>2 DEF ExecutesConnect, ExecutesAs
  <2>4. QED
    BY <2>1, <2>3, ExecutedBy
<1>6. CASE Register
  <2>1. /\ phase = "handshake" /\ UNCHANGED <<peerVars, unread, modem>>
        /\ Executes("reg") /\ "reg" \in CommandKind
        /\ phase' = "closed" => reading' = reading
    BY <1>6 DEF Register, BadToken, Handles, CommandKind, Stops, callVars
  <2>2. \/ phase' \in {"device", "closed"} /\ Answered("plain")
        \/ phase' = "closed" /\ Unanswered
    BY <1>6, ReplyAnswers DEF Register, BadToken, Unanswered
  <2>3. ExecutesAs("reg")
    BY <2>1, <2>2 DEF ExecutesReg, ExecutesAs
  <2>4. QED
    BY <2>1, <2>3, ExecutedBy
<1>7. CASE DeviceTone
  <2>1. PICK kind \in CommandKind :
           /\ Executes(kind)
           /\ IF kind \in {"tone", "dial"} THEN Reply("OK", "plain") ELSE UNCHANGED replies
    BY <1>7 DEF DeviceTone
  <2>2. /\ phase = "device" /\ phase' = "idle" /\ UNCHANGED <<peerVars, unread, modem>>
    BY <1>7 DEF DeviceTone, readerVars
  <2>3. Answered("plain") \/ Unanswered
    BY <2>1, ReplyAnswers DEF Unanswered
  <2>4. ExecutesAs(kind)
    BY <2>2, <2>3 DEF EndsWait, ExecutesAs
  <2>5. QED
    BY <2>1, <2>2, <2>4, ExecutedBy
<1>8. CASE DeviceWaitEnds
  BY <1>8 DEF DeviceWaitEnds, NothingExecuted
<1>9. CASE GiveUp
  BY <1>9 DEF GiveUp, readerVars, peerVars, callVars, GivesUp
<1>10. CASE UNCHANGED vars
  BY <1>10 DEF vars, readerVars, callVars, handlerVars, NothingExecuted
<1>11. QED
  BY <1>1, <1>2, <1>3, <1>4, <1>5, <1>6, <1>7, <1>8, <1>9, <1>10, NextCases DEF Handler

RecordTypes ==
    /\ replies \in Seq([to : Messages \cup {0}, word : Word, form : {"plain", "text", "numeric"}])
    /\ done \in Seq(Commands \cup {0})
    /\ kinds \in Seq(CommandKind) /\ Len(kinds) = Len(done)

\* The form of an answer is the mode, or plain.
LEMMA ExecutedReplies ==
    ASSUME CallTypes, Executed
    PROVE  Unanswered \/ \E form \in {"plain", "text", "numeric"} : Answered(form)
<1>1. Mode \in {"text", "numeric"}
  BY DEF Mode, CallTypes
<1>2. PICK kind \in CommandKind : ExecutesAs(kind)
  BY DEF Executed
<1>3. HandleCommand(kind, Mode).answers \in {"text", "numeric"}
  BY <1>1 DEF HandleCommand
<1>4. QED
  BY <1>2, <1>3 DEF ExecutesAs, ExecutesModem, ExecutesTone, ExecutesDial, ExecutesConnect,
     ExecutesReg, EndsWait, CallTypes

\* What the reader has returned is a command, or a line that none begins.
LEMMA ReturnedCommand ==
    ASSUME LineBegun, QueueTypes, reading = "returned"
    PROVE  /\ Message \in Commands \cup {0} /\ Message \in Messages \cup {0}
           /\ Message = 0 <=> Astray(line)
           /\ Message # 0 => line[1] = <<Message, 1>>
<1>1. line # <<>> /\ line[1] \in Part
  BY DEF LineBegun, QueueTypes
<1>2. line[1] = <<line[1][1], line[1][2]>> /\ line[1][1] \in Messages /\ line[1][1] # 0
  BY <1>1 DEF Part, Messages
<1>3. CASE Astray(line)
  BY <1>3 DEF Message
<1>4. CASE ~Astray(line)
  <2>1. Message = line[1][1] /\ script[line[1][1]] \in CommandKind /\ line[1][2] = 1
    BY <1>1, <1>4 DEF Message, Astray
  <2>2. QED
    BY <1>2, <1>4, <2>1 DEF Commands
<1>5. QED
  BY <1>3, <1>4

LEMMA RecordStep ==
    ASSUME SendingTypes, QueueTypes, CallTypes, LineBegun, RecordTypes, [Next]_vars
    PROVE  RecordTypes'
<1>1. Messages \subseteq Messages' /\ Commands \subseteq Commands'
  BY StepGrows, ScriptGrows DEF SendingTypes
<1>. DEFINE Entry == [to : Messages \cup {0}, word : Word, form : {"plain", "text", "numeric"}]
            EntryNext == [to : Messages' \cup {0}, word : Word, form : {"plain", "text", "numeric"}]
            Record == Commands \cup {0}
            RecordNext == Commands' \cup {0}
<1>2. Entry \subseteq EntryNext /\ Record \subseteq RecordNext
  BY <1>1
<1>3. /\ replies \in Seq(EntryNext) /\ done \in Seq(RecordNext)
      /\ kinds \in Seq(CommandKind) /\ Len(kinds) = Len(done)
  <2>1. Seq(Entry) \subseteq Seq(EntryNext) /\ Seq(Record) \subseteq Seq(RecordNext)
    BY <1>2, SeqMonotonic
  <2>2. QED
    BY <2>1 DEF RecordTypes
<1>4. SUFFICES /\ replies' \in Seq(EntryNext) /\ done' \in Seq(RecordNext)
               /\ kinds' \in Seq(CommandKind) /\ Len(kinds') = Len(done')
  BY DEF RecordTypes, Word, CommandKind, ModemKind
<1>5. CASE NothingExecuted
  BY <1>3, <1>5 DEF NothingExecuted
<1>6. CASE GivesUp
  <2>1. [to |-> 0, word |-> "ERROR", form |-> "plain"] \in EntryNext
    BY DEF Word
  <2>2. QED
    BY <1>3, <1>6, <2>1 DEF GivesUp
<1>7. CASE Executed
  <2>1. Message \in RecordNext /\ Message \in Messages \cup {0}
    BY <1>1, <1>7, ReturnedCommand DEF Executed
  <2>2. PICK kind \in CommandKind : done' = Append(done, Message) /\ kinds' = Append(kinds, kind)
    BY <1>7 DEF Executed, Executes
  <2>3. done' \in Seq(RecordNext) /\ kinds' \in Seq(CommandKind) /\ Len(kinds') = Len(done')
    BY <1>3, <2>1, <2>2
  <2>4. ASSUME NEW form \in {"plain", "text", "numeric"}, Answered(form)
        PROVE  replies' \in Seq(EntryNext)
    <3>1. PICK word \in Word : replies' = Append(replies, [to |-> Message, word |-> word, form |-> form])
      BY <2>4 DEF Answered
    <3>2. [to |-> Message, word |-> word, form |-> form] \in EntryNext
      BY <1>1, <2>1
    <3>3. QED
      BY <1>3, <3>1, <3>2
  <2>5. QED
    BY <1>3, <1>7, <2>3, <2>4, ExecutedReplies DEF Unanswered
<1>8. QED
  BY <1>5, <1>6, <1>7, RecordEffect

LEMMA ControlParts ==
    ControlTypes <=> SendingTypes /\ QueueTypes /\ CallTypes /\ RecordTypes
  BY DEF ControlTypes, SendingTypes, QueueTypes, CallTypes, RecordTypes

LEMMA ControlInit == Init => Control
<1> SUFFICES ASSUME Init PROVE Control
  OBVIOUS
<1>1. <<>> \in Seq(Kind) /\ <<>> \in Seq(Part)
  OBVIOUS
<1>2. SendingTypes /\ QueueTypes /\ LineBegun
  <2>1. MaxMessages \in Nat /\ Len(<<>>) = 0
    BY Assumptions
  <2>2. SendingTypes
    <3>1. script = <<>> /\ left = 0 /\ gone = FALSE
      BY DEF Init, ReaderInit
    <3>2. Len(script) <= MaxMessages
      BY <2>1, <3>1
    <3>3. QED
      BY <1>1, <3>1, <3>2 DEF SendingTypes
  <2>3. QueueTypes /\ LineBegun
    BY <1>1 DEF Init, ReaderInit, QueueTypes, LineBegun, Astray
  <2>4. QED
    BY <2>2, <2>3
<1>3. CallTypes
  BY Assumptions, MinOfTwo DEF Init, CallTypes
<1>4. RecordTypes
  <2>1. ASSUME NEW T PROVE <<>> \in Seq(T)
    OBVIOUS
  <2>2. QED
    BY <2>1 DEF Init, RecordTypes
<1>5. QED
  BY <1>2, <1>3, <1>4, ControlParts DEF Control

LEMMA ControlStep == Control /\ [Next]_vars => Control'
<1> SUFFICES ASSUME Control, [Next]_vars PROVE Control'
  OBVIOUS
<1>1. SendingTypes /\ QueueTypes /\ CallTypes /\ RecordTypes /\ LineBegun
  BY ControlParts DEF Control
<1>2. SendingTypes' /\ CallTypes' /\ LineBegun' /\ RecordTypes'
  BY <1>1, SendingStep, CallStep, LineStep, RecordStep
<1>3. QueueTypes'
  BY <1>1, <1>2, QueueStep
<1>4. ControlTypes'
  BY <1>2, <1>3 DEF ControlTypes, SendingTypes, QueueTypes, CallTypes, RecordTypes
<1>5. QED
  BY <1>2, <1>4 DEF Control

\* The queues hold parts of messages that were sent, the record commands that were;
\* and when the reader has returned, it has a line, which a command's first part
\* begins or which is known to hold what the reader has mistaken.
THEOREM ControlTypeCorrect == Spec => []Control
  BY ControlInit, ControlStep, PTL DEF Spec

(***************************************************************************)
(* The answers.                                                            *)
(***************************************************************************)

\* What Handle knows of the commands executed: whether the emulation is on, and
\* in numbers.  handleDevice is entered, and left, with its OK answered.
ModemInv ==
    /\ phase \in {"handshake", "device"} => Len(replies) = Len(done)
    /\ phase = "handshake" =>
          /\ \A i \in 1 .. Len(done) : kinds[i] \notin {"connect", "reg"}
          /\ modem = "none" <=> \A i \in 1 .. Len(done) : kinds[i] \notin ModemKind
          /\ modem = "numeric" <=> Numeric(Len(done) + 1)
    /\ phase = "device" =>
          \E i \in 1 .. Len(done) : kinds[i] \in {"connect", "reg"}
    /\ phase = "closed" => reading \in {"returned", "failed"}

\* The commands executed stay what they are.
LEMMA DoneKept ==
    ASSUME Control, [Next]_vars
    PROVE  /\ UNCHANGED <<done, kinds>> \/ Executed
           /\ Len(done) \in Nat /\ 1 .. Len(done) \subseteq 1 .. Len(done')
           /\ \A i \in 1 .. Len(done) : done'[i] = done[i] /\ kinds'[i] = kinds[i]
<1>1. done \in Seq(Commands \cup {0}) /\ kinds \in Seq(CommandKind) /\ Len(kinds) = Len(done)
  BY DEF Control, ControlTypes
<1>2. UNCHANGED <<done, kinds>> \/ Executed
  BY RecordEffect DEF NothingExecuted, GivesUp
<1>3. CASE Executed
  <2>1. PICK kind \in CommandKind : done' = Append(done, Message) /\ kinds' = Append(kinds, kind)
    BY <1>3 DEF Executed, Executes
  <2>2. /\ \A i \in 1 .. Len(done) : done'[i] = done[i] /\ kinds'[i] = kinds[i]
        /\ 1 .. Len(done) \subseteq 1 .. Len(done')
    BY <1>1, <2>1
  <2>3. QED
    BY <1>1, <1>2, <2>2
<1>4. QED
  BY <1>1, <1>2, <1>3

LEMMA FormKept ==
    ASSUME NEW l \in Nat, NEW n \in Nat, \A i \in 1 .. l : kinds'[i] = kinds[i]
    PROVE  /\ n <= l + 1 => (Numeric(n)' <=> Numeric(n))
           /\ 0 < n /\ n <= l => FormOf(n)' = FormOf(n)
<1>1. ASSUME n <= l + 1 PROVE Numeric(n)' <=> Numeric(n)
  <2>1. \A i \in 1 .. n - 1 : kinds'[i] = kinds[i]
    BY <1>1
  <2>2. QED
    BY <2>1 DEF Numeric
<1>2. ASSUME 0 < n, n <= l PROVE FormOf(n)' = FormOf(n)
  <2>1. Numeric(n)' <=> Numeric(n)
    BY <1>1, <1>2
  <2>2. \A i \in 1 .. n : kinds'[i] = kinds[i]
    BY <1>2
  <2>3. Emulated(n)' <=> Emulated(n)
    BY <2>2 DEF Emulated
  <2>4. kinds'[n] = kinds[n]
    BY <1>2, <2>2
  <2>5. QED
    BY <2>1, <2>3, <2>4 DEF FormOf
<1>3. QED
  BY <1>1, <1>2

LEMMA NumericNext ==
    ASSUME NEW n \in Nat \ {0}
    PROVE  Numeric(n + 1)' <=> \/ kinds'[n] = "atv0"
                               \/ Numeric(n)' /\ kinds'[n] \notin {"atz", "atv1"}
<1>1. CASE kinds'[n] = "atv0"
  <2>1. n \in 1 .. (n + 1) - 1 /\ \A j \in n + 1 .. (n + 1) - 1 : FALSE
    OBVIOUS
  <2>2. Numeric(n + 1)'
    BY <1>1, <2>1 DEF Numeric
  <2>3. QED
    BY <1>1, <2>2
<1>2. ASSUME kinds'[n] # "atv0", Numeric(n + 1)'
      PROVE  Numeric(n)' /\ kinds'[n] \notin {"atz", "atv1"}
  <2>1. PICK i \in 1 .. (n + 1) - 1 :
           /\ kinds'[i] = "atv0"
           /\ \A j \in i + 1 .. (n + 1) - 1 : kinds'[j] \notin {"atz", "atv1"}
    BY <1>2 DEF Numeric
  <2>2. i # n
    BY <1>2, <2>1
  <2>3. i \in 1 .. n - 1 /\ n \in i + 1 .. (n + 1) - 1
    BY <2>2
  <2>4. \A j \in i + 1 .. n - 1 : j \in i + 1 .. (n + 1) - 1
    BY <2>3
  <2>5. QED
    BY <2>1, <2>3, <2>4 DEF Numeric
<1>3. ASSUME Numeric(n)', kinds'[n] \notin {"atz", "atv1"}
      PROVE  Numeric(n + 1)'
  <2>1. PICK i \in 1 .. n - 1 :
           /\ kinds'[i] = "atv0"
           /\ \A j \in i + 1 .. n - 1 : kinds'[j] \notin {"atz", "atv1"}
    BY <1>3 DEF Numeric
  <2>2. i \in 1 .. (n + 1) - 1
    BY <2>1
  <2>3. \A j \in i + 1 .. (n + 1) - 1 : j = n \/ j \in i + 1 .. n - 1
    BY <2>1
  <2>4. \A j \in i + 1 .. (n + 1) - 1 : kinds'[j] \notin {"atz", "atv1"}
    BY <1>3, <2>1, <2>3
  <2>5. QED
    BY <2>1, <2>2, <2>4 DEF Numeric
<1>4. QED
  BY <1>1, <1>2, <1>3

\* The commands executed, with the one that now is.
LEMMA ExecutedKinds ==
    ASSUME Control, [Next]_vars, Executed, NEW l \in Nat, l = Len(done)
    PROVE  /\ \E k \in CommandKind : Executes(k) /\ ExecutesAs(k) /\ kinds'[l + 1] = k
           /\ Len(done') = l + 1 /\ done'[l + 1] = Message
           /\ \A i \in 1 .. l : done'[i] = done[i] /\ kinds'[i] = kinds[i]
           /\ Message \in Messages \cup {0}
<1>1. /\ done \in Seq(Commands \cup {0}) /\ kinds \in Seq(CommandKind) /\ Len(kinds) = Len(done)
      /\ Message \in Messages \cup {0} /\ Message \in Commands \cup {0}
  BY ReturnedCommand, ControlParts DEF Control, ControlTypes, Executed
<1>2. PICK k \in CommandKind : Executes(k) /\ ExecutesAs(k)
  BY DEF Executed
<1>3. done' = Append(done, Message) /\ kinds' = Append(kinds, k)
  BY <1>2 DEF Executes
<1>4. Len(done') = l + 1 /\ done'[l + 1] = Message /\ kinds'[l + 1] = k
  BY <1>1, <1>3
<1>5. QED
  BY <1>1, <1>2, <1>4, DoneKept

\* An answer has the form that the client has asked for, and a command that is not
\* answered ends the handshake.
LEMMA ExecutedForm ==
    ASSUME Control, ModemInv, [Next]_vars, Executed, NEW l \in Nat, l = Len(done)
    PROVE  \/ Answered(FormOf(l + 1)')
           \/ Unanswered /\ phase' \notin {"handshake", "device"}
<1>1. PICK k \in CommandKind : ExecutesAs(k) /\ kinds'[l + 1] = k
  BY ExecutedKinds
<1>2. Len(done') = l + 1 /\ \A i \in 1 .. l : kinds'[i] = kinds[i]
  BY ExecutedKinds
<1>3. Numeric(l + 1)' <=> Numeric(l + 1)
  BY <1>2, FormKept
<1>4. \A i \in 1 .. l + 1 : i \in 1 .. l \/ i = l + 1
  OBVIOUS
<1>5. modem \in {"none", "text", "numeric"}
  BY DEF Control, ControlTypes
<1>6. ASSUME k \in {"connect", "reg"} \/ \E i \in 1 .. l : kinds[i] \in {"connect", "reg"}
      PROVE  FormOf(l + 1)' = "plain"
  <2>1. ~Emulated(l + 1)'
    BY <1>1, <1>2, <1>6 DEF Emulated
  <2>2. QED
    BY <2>1 DEF FormOf
<1>7. ASSUME k \notin ModemKind, \A i \in 1 .. l : kinds[i] \notin ModemKind
      PROVE  FormOf(l + 1)' = "plain"
  <2>1. ~Emulated(l + 1)'
    BY <1>1, <1>2, <1>4, <1>7 DEF Emulated
  <2>2. QED
    BY <2>1 DEF FormOf
<1>8. ASSUME k \notin {"connect", "reg"},
             \A i \in 1 .. l : kinds[i] \notin {"connect", "reg"},
             k \in ModemKind \/ \E i \in 1 .. l : kinds[i] \in ModemKind
      PROVE  FormOf(l + 1)' = IF Numeric(l + 1) /\ k # "atz" THEN "numeric" ELSE "text"
  <2>1. Emulated(l + 1)'
    BY <1>1, <1>2, <1>4, <1>8 DEF Emulated
  <2>2. QED
    BY <1>1, <1>3, <2>1 DEF FormOf
<1>9. CASE ExecutesModem(k)
  <2>1. /\ \A i \in 1 .. l : kinds[i] \notin {"connect", "reg"}
        /\ modem = "numeric" <=> Numeric(l + 1)
    BY <1>9 DEF ExecutesModem, ModemInv
  <2>2. FormOf(l + 1)' = IF Numeric(l + 1) /\ k # "atz" THEN "numeric" ELSE "text"
    BY <1>1, <1>8, <1>9, <2>1 DEF ExecutesModem, ModemKind
  <2>3. HandleCommand(k, Mode).answers = IF Numeric(l + 1) /\ k # "atz" THEN "numeric" ELSE "text"
    BY <1>1, <1>5, <2>1 DEF HandleCommand, Mode
  <2>4. QED
    BY <1>9, <2>2, <2>3 DEF ExecutesModem
<1>10. CASE ExecutesTone(k) \/ ExecutesDial(k)
  <2>1. /\ \A i \in 1 .. l : kinds[i] \notin {"connect", "reg"}
        /\ modem = "none" <=> \A i \in 1 .. l : kinds[i] \notin ModemKind
        /\ modem = "numeric" <=> Numeric(l + 1)
    BY <1>10 DEF ExecutesTone, ExecutesDial, ModemInv
  <2>2. k \in {"tone", "dial"} /\ k \notin ModemKind /\ k # "atz"
    BY <1>1, <1>10 DEF ExecutesTone, ExecutesDial, ModemKind
  <2>3. FormOf(l + 1)' = IF modem = "none" THEN "plain" ELSE modem
    <3>1. CASE modem = "none"
      BY <1>7, <2>1, <2>2, <3>1
    <3>2. CASE modem # "none"
      BY <1>5, <1>8, <2>1, <2>2, <3>2
    <3>3. QED
      BY <3>1, <3>2
  <2>4. QED
    BY <1>10, <2>3 DEF ExecutesTone, ExecutesDial
<1>11. CASE ExecutesConnect(k) \/ ExecutesReg(k)
  <2>1. k \in {"connect", "reg"}
    BY <1>1, <1>11 DEF ExecutesConnect, ExecutesReg
  <2>2. FormOf(l + 1)' = "plain"
    BY <1>6, <2>1
  <2>3. QED
    BY <1>11, <2>2 DEF ExecutesConnect, ExecutesReg
<1>12. CASE EndsWait(k)
  <2>1. \E i \in 1 .. l : kinds[i] \in {"connect", "reg"}
    BY <1>12 DEF EndsWait, ModemInv
  <2>2. FormOf(l + 1)' = "plain"
    BY <1>6, <2>1
  <2>3. QED
    BY <1>12, <2>2 DEF EndsWait
<1>13. QED
  BY <1>1, <1>9, <1>10, <1>11, <1>12 DEF ExecutesAs

\* An answer makes one more reply.
LEMMA AnswerAdded ==
    ASSUME RecordTypes, NEW form, Answered(form)
    PROVE  /\ Len(replies') = Len(replies) + 1
           /\ \A i \in 1 .. Len(replies) : replies'[i] = replies[i]
           /\ replies'[Len(replies) + 1].to = Message
           /\ replies'[Len(replies) + 1].form = form
  BY DEF RecordTypes, Answered

LEMMA ModemStep ==
    ASSUME Control, ModemInv, [Next]_vars
    PROVE  ModemInv'
<1>1. PICK l \in Nat : l = Len(done)
  BY DEF Control, ControlTypes
<1>2. /\ \A i \in 1 .. l : done'[i] = done[i] /\ kinds'[i] = kinds[i]
      /\ RecordTypes
  BY <1>1, DoneKept, ControlParts DEF Control
<1>3. CASE NothingExecuted
  <2>1. Len(done') = l /\ Len(replies') = Len(replies) /\ modem' = modem
    BY <1>1, <1>3 DEF NothingExecuted
  <2>2. /\ phase' \in {"handshake", "device"} => phase' = phase
        /\ phase' = "closed" => phase = "closed" /\ reading' = reading
    BY <1>3 DEF NothingExecuted
  <2>3. l + 1 \in Nat /\ l + 1 <= l + 1
    OBVIOUS
  <2>4. \A i \in 1 .. l : kinds'[i] = kinds[i]
    BY <1>2
  <2>5. Numeric(l + 1)' <=> Numeric(l + 1)
    BY <2>3, <2>4, FormKept, Zenon
  <2>6. QED
    BY <1>1, <1>2, <2>1, <2>2, <2>5 DEF ModemInv
<1>4. CASE GivesUp
  BY <1>4 DEF GivesUp, ModemInv
<1>5. CASE Executed
  <2>1. PICK k \in CommandKind : ExecutesAs(k) /\ kinds'[l + 1] = k
    BY <1>1, <1>5, ExecutedKinds
  <2>2. Len(done') = l + 1 /\ kinds'[l + 1] = k
    BY <1>1, <1>5, <2>1, ExecutedKinds
  <2>3. \A i \in 1 .. l + 1 : i \in 1 .. l \/ i = l + 1
    OBVIOUS
  <2>4. phase' \in {"handshake", "device"} => Len(replies') = Len(done')
    <3>1. phase \in {"handshake", "device"}
      BY <2>1 DEF ExecutesAs, ExecutesModem, ExecutesTone, ExecutesDial, ExecutesConnect,
         ExecutesReg, EndsWait
    <3>2. Len(replies) = l
      BY <1>1, <3>1 DEF ModemInv
    <3>3. QED
      BY <1>1, <1>2, <1>5, <2>2, <3>2, ExecutedForm, AnswerAdded
  <2>5. phase' = "handshake" =>
           /\ \A i \in 1 .. l + 1 : kinds'[i] \notin {"connect", "reg"}
           /\ modem' = "none" <=> \A i \in 1 .. l + 1 : kinds'[i] \notin ModemKind
           /\ modem' = "numeric" <=> Numeric(l + 2)'
    <3>1. SUFFICES ASSUME phase' = "handshake"
                   PROVE  /\ \A i \in 1 .. l + 1 : kinds'[i] \notin {"connect", "reg"}
                          /\ modem' = "none" <=> \A i \in 1 .. l + 1 : kinds'[i] \notin ModemKind
                          /\ modem' = "numeric" <=> Numeric(l + 2)'
      OBVIOUS
    <3>2. phase = "handshake" /\ (ExecutesModem(k) \/ ExecutesTone(k))
      BY <2>1, <3>1 DEF ExecutesAs, ExecutesModem, ExecutesTone, ExecutesDial, ExecutesConnect,
         ExecutesReg, EndsWait
    <3>3. /\ \A i \in 1 .. l : kinds[i] \notin {"connect", "reg"}
          /\ modem = "none" <=> \A i \in 1 .. l : kinds[i] \notin ModemKind
          /\ modem = "numeric" <=> Numeric(l + 1)
      BY <1>1, <3>2 DEF ModemInv, ExecutesModem, ExecutesTone
    <3>4. Numeric(l + 2)' <=> k = "atv0" \/ (Numeric(l + 1) /\ k \notin {"atz", "atv1"})
      <4>1. Numeric(l + 1)' <=> Numeric(l + 1)
        BY <1>2, FormKept
      <4>2. l + 1 \in Nat \ {0} /\ (l + 1) + 1 = l + 2
        OBVIOUS
      <4>3. QED
        BY <2>2, <4>1, <4>2, NumericNext
    <3>5. CASE ExecutesModem(k)
      <4>1. k \in ModemKind /\ k \notin {"connect", "reg"}
        BY <2>1, <3>5 DEF ExecutesModem, ModemKind
      <4>2. modem' = HandleCommand(k, Mode).after /\ modem \in {"none", "text", "numeric"}
        BY <2>1, <3>5 DEF ExecutesModem, Control, ControlTypes
      <4>3. modem' # "none" /\ (modem' = "numeric" <=> Numeric(l + 2)')
        BY <3>3, <3>4, <4>2 DEF HandleCommand, Mode
      <4>4. QED
        BY <1>2, <2>2, <2>3, <3>3, <4>1, <4>3
    <3>6. CASE ExecutesTone(k)
      <4>1. k \notin ModemKind /\ k \in {"tone", "dial"} /\ modem' = modem
        BY <2>1, <3>6 DEF ExecutesTone, ModemKind
      <4>2. QED
        BY <1>2, <2>2, <2>3, <3>3, <3>4, <4>1
    <3>7. QED
      BY <3>2, <3>5, <3>6
  <2>6. phase' = "device" =>
           \E i \in 1 .. l + 1 : kinds'[i] \in {"connect", "reg"}
    <3>1. ASSUME phase' = "device" PROVE k = "reg"
      BY <2>1, <3>1 DEF ExecutesAs, ExecutesModem, ExecutesTone, ExecutesDial,
         ExecutesConnect, ExecutesReg, EndsWait
    <3>2. QED
      BY <2>2, <3>1
  <2>7. (l + 1) + 1 = l + 2 /\ (phase' = "closed" => reading' \in {"returned", "failed"})
    BY <1>5 DEF Executed
  <2>8. QED
    BY <2>2, <2>4, <2>5, <2>6, <2>7 DEF ModemInv
<1>6. QED
  BY <1>3, <1>4, <1>5, RecordEffect

LEMMA AnswersStep ==
    ASSUME Control, ModemInv, AnswersInForm, [Next]_vars
    PROVE  AnswersInForm'
<1>1. PICK l \in Nat, r \in Nat : l = Len(done) /\ r = Len(replies)
  BY DEF Control, ControlTypes
<1>2. /\ \A i \in 1 .. l : done'[i] = done[i] /\ kinds'[i] = kinds[i]
      /\ RecordTypes
  BY <1>1, DoneKept, ControlParts DEF Control
<1>3. \A n \in 1 .. l : done'[n] = done[n] /\ FormOf(n)' = FormOf(n)
  BY <1>2, FormKept
<1>4. ASSUME Waiting
      PROVE  /\ r = l /\ Answers = l
             /\ \A n \in 1 .. l : replies[n].to = done[n] /\ replies[n].form = FormOf(n)
  BY <1>1, <1>4 DEF ModemInv, Waiting, AnswersInForm
<1>5. CASE NothingExecuted
  <2>1. Len(done') = l /\ replies' = replies /\ Answers' = Answers /\ (Waiting' => Waiting)
    BY <1>1, <1>5 DEF NothingExecuted, Answers, Waiting
  <2>2. PICK a \in Int : /\ a = Answers /\ a \in {l - 1, l}
                         /\ \A n \in 1 .. a : /\ replies[n].to = done[n]
                                             /\ replies[n].form = FormOf(n)
    BY <1>1 DEF AnswersInForm
  <2>3. \A n \in 1 .. a : n \in 1 .. l
    BY <1>1, <2>2
  <2>4. \A n \in 1 .. a : replies'[n].to = done'[n] /\ replies'[n].form = FormOf(n)'
    BY <1>3, <2>1, <2>2, <2>3
  <2>5. Waiting' => a = l
    BY <1>4, <2>1, <2>2
  <2>6. QED
    BY <2>1, <2>2, <2>4, <2>5 DEF AnswersInForm
<1>6. CASE GivesUp
  <2>1. Waiting /\ ~Waiting'
    BY <1>6 DEF GivesUp, Waiting
  <2>2. /\ Len(replies') = r + 1 /\ replies'[r + 1].to = 0
        /\ \A n \in 1 .. r : replies'[n] = replies[n]
    BY <1>1, <1>2, <1>6 DEF GivesUp, RecordTypes
  <2>3. Answers' = l /\ Len(done') = l
    BY <1>1, <1>4, <1>6, <2>1, <2>2 DEF Answers, GivesUp
  <2>4. \A n \in 1 .. l : replies'[n].to = done'[n] /\ replies'[n].form = FormOf(n)'
    BY <1>3, <1>4, <2>1, <2>2
  <2>5. QED
    BY <2>1, <2>3, <2>4 DEF AnswersInForm
<1>7. CASE Executed
  <2>1. Waiting
    BY <1>7 DEF Waiting, Executed, ExecutesAs, ExecutesModem, ExecutesTone, ExecutesDial, ExecutesConnect,
       ExecutesReg, EndsWait
  <2>2. /\ Len(done') = l + 1 /\ done'[l + 1] = Message
        /\ (phase' = "closed" => reading' = "returned")
    BY <1>1, <1>7, ExecutedKinds DEF Executed
  <2>3. CASE Answered(FormOf(l + 1)')
    <3>1. /\ Len(replies') = l + 1
          /\ \A n \in 1 .. l : replies'[n] = replies[n]
          /\ replies'[l + 1].to = Message /\ replies'[l + 1].form = FormOf(l + 1)'
      BY <1>1, <1>2, <1>4, <2>1, <2>3, AnswerAdded
    <3>2. Answers' = l + 1
      BY <2>2, <3>1 DEF Answers
    <3>3. \A n \in 1 .. l + 1 : n \in 1 .. l \/ n = l + 1
      OBVIOUS
    <3>4. \A n \in 1 .. l + 1 : replies'[n].to = done'[n] /\ replies'[n].form = FormOf(n)'
      BY <1>3, <1>4, <2>1, <2>2, <3>1, <3>3
    <3>5. QED
      BY <2>2, <3>2, <3>4 DEF AnswersInForm
  <2>4. CASE Unanswered /\ phase' \notin {"handshake", "device"}
    <3>1. Answers' = l /\ ~Waiting' /\ replies' = replies
      BY <1>4, <2>1, <2>2, <2>4 DEF Unanswered, Answers, Waiting
    <3>2. \A n \in 1 .. l : replies'[n].to = done'[n] /\ replies'[n].form = FormOf(n)'
      BY <1>3, <1>4, <2>1, <3>1
    <3>3. QED
      BY <2>2, <3>1, <3>2 DEF AnswersInForm
  <2>5. QED
    BY <1>1, <1>7, <2>3, <2>4, ExecutedForm
<1>8. QED
  BY <1>5, <1>6, <1>7, RecordEffect

\* Every command that leaves the connection in the handshake, or lets it wait for
\* ATDT, is answered, once and in order, and in the form that the client has asked
\* for: the modem is on exactly from the first modem command, and its mode is the
\* one that the last ATV0, ATV1 or ATZ has set.
THEOREM AnsweredInForm == Spec => []AnswersInForm
<1>1. Init => Control /\ ModemInv /\ AnswersInForm
  <2> SUFFICES ASSUME Init PROVE ModemInv /\ AnswersInForm
    BY ControlInit
  <2>1. done = <<>> /\ replies = <<>> /\ modem = "none" /\ phase = "handshake"
    BY DEF Init
  <2>2. Len(done) = 0 /\ Len(replies) = 0 /\ Answers = 0
    BY <2>1 DEF Answers
  <2>3. ~Numeric(1)
    BY DEF Numeric
  <2>4. QED
    BY <2>1, <2>2, <2>3 DEF ModemInv, AnswersInForm
<1>2. /\ Control /\ ModemInv /\ AnswersInForm /\ [Next]_vars
      => Control' /\ ModemInv' /\ AnswersInForm'
  BY ControlStep, ModemStep, AnswersStep
<1>3. QED
  BY <1>1, <1>2, PTL DEF Spec

(***************************************************************************)
(* The order of the commands.                                              *)
(***************************************************************************)

Before(part, other) ==
    part[1] < other[1] \/ (part[1] = other[1] /\ part[2] < other[2])

\* The peer has sent the part.
Arrived(part) ==
    \/ part[1] < Len(script)
    \/ part[1] = Len(script) /\ part[2] <= Len(Text[script[part[1]]]) - left

\* What is still to be read, in the bufio.Reader and behind it in the socket.
Ahead == buf \o unread

AheadInOrder ==
    /\ \A i, j \in 1 .. Len(Ahead) : i < j => Before(Ahead[i], Ahead[j])
    /\ \A i \in 1 .. Len(Ahead) : Arrived(Ahead[i])

LineFirst ==
    line # <<>> =>
        /\ Arrived(line[1])
        /\ \A i \in 1 .. Len(Ahead) : Before(line[1], Ahead[i])

\* The commands executed were sent before all that is still to be read.
DoneFirst ==
    \A n \in 1 .. Len(done) :
        Waiting /\ done[n] # 0 =>
            /\ \A i \in 1 .. Len(Ahead) : Before(<<done[n], 1>>, Ahead[i])
            /\ Arrived(<<done[n], 1>>)
            /\ line # <<>> => Before(<<done[n], 1>>, line[1])

OrderInv == AheadInOrder /\ LineFirst /\ DoneFirst

\* What is left of a sequence without its first k members.
Rest(c, b, k) ==
    /\ Len(c) = Len(b) - k
    /\ \A i \in 1 .. Len(c) : c[i] = b[k + i]

\* The next k parts are read, or lost.
Consumes(k) == script' = script /\ left' = left /\ Rest(Ahead', Ahead, k)

LEMMA ReadsFirst ==
    ASSUME NEW T, NEW b \in Seq(T), NEW u \in Seq(T), NEW c \in Seq(T), NEW k \in Nat,
           Rest(c, b, k)
    PROVE  Rest(c \o u, b \o u, k)
<1>1. PICK m \in Nat, n \in Nat, d \in Nat : m = Len(b) /\ n = Len(u) /\ d = Len(c) /\ d = m - k
  <2>1. Len(b) \in Nat /\ Len(u) \in Nat /\ Len(c) \in Nat
    OBVIOUS
  <2>2. QED
    BY <2>1 DEF Rest
<1>2. /\ Len(c \o u) = d + n
      /\ \A i \in 1 .. d + n : (c \o u)[i] = IF i <= d THEN c[i] ELSE u[i - d]
  <2>1. /\ Len(c \o u) = Len(c) + Len(u)
        /\ \A i \in 1 .. Len(c) + Len(u) : (c \o u)[i] = IF i <= Len(c) THEN c[i] ELSE u[i - Len(c)]
    BY ConcatProperties, Zenon
  <2>2. QED
    BY <1>1, <2>1
<1>3. /\ Len(b \o u) = m + n
      /\ \A i \in 1 .. m + n : (b \o u)[i] = IF i <= m THEN b[i] ELSE u[i - m]
  BY <1>1, ConcatProperties
<1>4. ASSUME NEW i \in 1 .. d + n PROVE (c \o u)[i] = (b \o u)[k + i]
  <2>1. k + i \in 1 .. m + n /\ (k + i <= m <=> i <= d) /\ k + i - m = i - d
    BY <1>1
  <2>2. CASE i <= d
    <3>1. i \in 1 .. d
      BY <2>2
    <3>2. (c \o u)[i] = c[i] /\ (b \o u)[k + i] = b[k + i]
      BY <1>2, <1>3, <2>1, <2>2
    <3>3. QED
      BY <1>1, <3>1, <3>2 DEF Rest
  <2>3. CASE ~(i <= d)
    <3>1. (c \o u)[i] = u[i - d]
      BY <1>2, <2>3
    <3>2. (b \o u)[k + i] = u[k + i - m]
      <4>1. PICK j \in 1 .. m + n : j = k + i /\ ~(j <= m)
        BY <2>1, <2>3
      <4>2. (b \o u)[j] = u[j - m]
        BY <1>3, <4>1
      <4>3. QED
        BY <4>1, <4>2
    <3>3. QED
      BY <2>1, <3>1, <3>2
  <2>4. QED
    BY <2>2, <2>3
<1>5. QED
  BY <1>1, <1>2, <1>3, <1>4 DEF Rest

\* The line stays or is dropped, or the first part of what was ahead begins it.
LineFrom(k) ==
    \/ line' = <<>>
    \/ line # <<>> /\ line'[1] = line[1]
    \/ line = <<>> /\ k > 0 /\ line'[1] = Ahead[1]

\* A command that is executed is not executed again.
ExecutedOnce == done' # done /\ Waiting' => line' = <<>>

Consumed == \E k \in 0 .. Len(Ahead) : Consumes(k) /\ LineFrom(k) /\ ExecutedOnce

Sent ==
    /\ UNCHANGED <<line, done, phase>>
    /\ \E n \in Nat \ {0} :
          /\ <<Len(script'), n>> \in Part'
          /\ n = Len(Text[script'[Len(script')]]) - left'
          /\ Ahead' = Append(Ahead, <<Len(script'), n>>)
    /\ \/ script' = script /\ left' = left - 1 /\ script # <<>>
       \/ left = 0 /\ \E kind \in Kind : script' = Append(script, kind) /\ left' = Len(Text[kind]) - 1

\* What is read is the beginning of what the bufio.Reader has.
LEMMA ReadsAhead ==
    ASSUME QueueTypes, NEW k \in Nat, NEW c \in Seq(Part), buf' = c, unread' = unread,
           script' = script, left' = left,
           k <= Len(buf), Rest(c, buf, k)
    PROVE  k \in 0 .. Len(Ahead) /\ Consumes(k) /\ (buf # <<>> => Ahead[1] = buf[1])
<1>1. PICK b \in Seq(Part), u \in Seq(Part) : b = buf /\ u = unread
  BY DEF QueueTypes
<1>2. Ahead = b \o u /\ Ahead' = c \o u
  BY <1>1 DEF Ahead
<1>3. Rest(c \o u, b \o u, k)
  BY <1>1, ReadsFirst
<1>4. Consumes(k)
  BY <1>2, <1>3 DEF Consumes
<1>5. /\ Len(b \o u) = Len(b) + Len(u)
      /\ \A i \in 1 .. Len(b) + Len(u) : (b \o u)[i] = IF i <= Len(b) THEN b[i] ELSE u[i - Len(b)]
  BY ConcatProperties, Zenon
<1>6. PICK m \in Nat, n \in Nat : m = Len(b) /\ n = Len(u)
  OBVIOUS
<1>7. k \in 0 .. Len(b \o u)
  BY <1>1, <1>5, <1>6
<1>8. b # <<>> => (b \o u)[1] = b[1]
  BY <1>5, <1>6
<1>9. QED
  BY <1>1, <1>2, <1>4, <1>7, <1>8

LEMMA SendsAhead ==
    ASSUME SendingTypes, SendingTypes', QueueTypes, PeerSends, UNCHANGED handlerVars
    PROVE  Sent
<1>1. PICK n \in Nat \ {0} :
         /\ <<Len(script'), n>> \in Part'
         /\ n = Len(Text[script'[Len(script')]]) - left'
         /\ unread' = Append(unread, <<Len(script'), n>>)
  BY SentPart
<1>2. Ahead' = Append(Ahead, <<Len(script'), n>>)
  <2>1. buf' = buf /\ buf \in Seq(Part) /\ unread \in Seq(Part)
    BY DEF PeerSends, QueueTypes
  <2>2. ASSUME NEW b \in Seq(Part), NEW u \in Seq(Part), NEW p
        PROVE  b \o Append(u, p) = Append(b \o u, p)
    <3>1. b \in Seq(Part \cup {p}) /\ u \in Seq(Part \cup {p})
      OBVIOUS
    <3>2. QED
      BY <3>1, AppendIsConcat, ConcatAssociative
  <2>3. QED
    BY <1>1, <2>1, <2>2 DEF Ahead
<1>3. \/ script' = script /\ left' = left - 1 /\ script # <<>>
      \/ left = 0 /\ \E kind \in Kind : script' = Append(script, kind) /\ left' = Len(Text[kind]) - 1
  BY DEF PeerSends, SendingTypes
<1>4. UNCHANGED <<line, done, phase>>
  BY DEF PeerSends, callVars, handlerVars
<1>5. QED
  BY <1>1, <1>2, <1>3, <1>4 DEF Sent

LEMMA AheadTypes ==
    ASSUME QueueTypes
    PROVE  Ahead \in Seq(Part) /\ Len(Ahead) \in Nat
<1>1. buf \in Seq(Part) /\ unread \in Seq(Part)
  BY DEF QueueTypes
<1>2. ASSUME NEW b \in Seq(Part), NEW u \in Seq(Part) PROVE b \o u \in Seq(Part)
  OBVIOUS
<1>3. Ahead \in Seq(Part)
  BY <1>1, <1>2 DEF Ahead
<1>4. QED
  BY <1>3

LEMMA AheadTypesNext ==
    ASSUME QueueTypes'
    PROVE  Ahead' \in Seq(Part')
<1>1. buf' \in Seq(Part') /\ unread' \in Seq(Part')
  BY DEF QueueTypes
<1>2. ASSUME NEW T, NEW b \in Seq(T), NEW u \in Seq(T) PROVE b \o u \in Seq(T)
  OBVIOUS
<1>3. QED
  BY <1>1, <1>2 DEF Ahead

LEMMA RestTypes ==
    ASSUME NEW T, NEW b \in Seq(T)
    PROVE  /\ Rest(b, b, 0)
           /\ b # <<>> => Tail(b) \in Seq(T) /\ Rest(Tail(b), b, 1)
           /\ Len(b) > 1 => SubSeq(b, 3, Len(b)) \in Seq(T) /\ Rest(SubSeq(b, 3, Len(b)), b, 2)
           /\ <<>> \in Seq(T) /\ Rest(<<>>, b, Len(b))
<1>1. Rest(b, b, 0)
  BY DEF Rest
<1>2. ASSUME b # <<>> PROVE Tail(b) \in Seq(T) /\ Rest(Tail(b), b, 1)
  BY <1>2 DEF Rest
<1>3. ASSUME Len(b) > 1 PROVE SubSeq(b, 3, Len(b)) \in Seq(T) /\ Rest(SubSeq(b, 3, Len(b)), b, 2)
  <2>1. PICK m \in Nat : m = Len(b) /\ m > 1
    BY <1>3
  <2>2. PICK s \in Seq(T) : /\ s = SubSeq(b, 3, m) /\ Len(s) = m - 2
                            /\ \A i \in 1 .. m - 2 : s[i] = b[3 + i - 1]
    <3>1. \A i \in 3 .. m : b[i] \in T
      BY <2>1
    <3>2. /\ SubSeq(b, 3, m) \in Seq(T)
          /\ Len(SubSeq(b, 3, m)) = IF 3 <= m THEN m - 3 + 1 ELSE 0
          /\ \A i \in 1 .. m - 3 + 1 : SubSeq(b, 3, m)[i] = b[3 + i - 1]
      BY <2>1, <3>1, SubSeqProperties
    <3>3. m - 3 + 1 = m - 2 /\ (IF 3 <= m THEN m - 3 + 1 ELSE 0) = m - 2
      BY <2>1
    <3>4. QED
      BY <3>2, <3>3
  <2>3. \A i \in 1 .. m - 2 : 3 + i - 1 = 2 + i
    OBVIOUS
  <2>4. \A i \in 1 .. m - 2 : s[i] = b[2 + i]
    BY <2>2, <2>3
  <2>5. QED
    BY <2>1, <2>2, <2>4 DEF Rest
<1>4. <<>> \in Seq(T) /\ Rest(<<>>, b, Len(b))
  BY DEF Rest
<1>5. QED
  BY <1>1, <1>2, <1>3, <1>4

\* Nothing is read.
LEMMA ReadsNone ==
    ASSUME QueueTypes, Ahead' = Ahead, script' = script, left' = left,
           line' = line \/ line' = <<>>, ExecutedOnce
    PROVE  Consumed
<1>1. Rest(Ahead, Ahead, 0) /\ 0 \in 0 .. Len(Ahead)
  BY AheadTypes, RestTypes
<1>2. LineFrom(0)
  BY DEF LineFrom
<1>3. QED
  BY <1>1, <1>2 DEF Consumed, Consumes

\* One or two parts are read, or the whole bufio.Reader is left behind.
LineReads(k) == line' = line \/ line' = <<>> \/ (k > 0 /\ line' = Append(line, buf[1]))

LEMMA ReadsSome ==
    ASSUME QueueTypes, NEW k \in Nat, NEW c \in Seq(Part), buf' = c, unread' = unread,
           script' = script, left' = left, k <= Len(buf), Rest(c, buf, k),
           LineReads(k), ExecutedOnce
    PROVE  Consumed
<1>1. k \in 0 .. Len(Ahead) /\ Consumes(k) /\ (buf # <<>> => Ahead[1] = buf[1])
  BY ReadsAhead
<1>2. LineFrom(k)
  <2>1. line \in Seq(Part) /\ buf \in Seq(Part)
    BY DEF QueueTypes
  <2>2. ASSUME k > 0, line' = Append(line, buf[1]) PROVE LineFrom(k)
    <3>1. buf # <<>>
      BY <2>1, <2>2
    <3>2. buf[1] \in Part
      BY <2>1, <3>1
    <3>3. line # <<>> => line'[1] = line[1]
      BY <2>1, <2>2, <3>2
    <3>4. line = <<>> => line'[1] = buf[1]
      BY <2>1, <2>2, <3>2
    <3>5. QED
      BY <1>1, <2>2, <3>1, <3>3, <3>4 DEF LineFrom
  <2>3. QED
    BY <2>2 DEF LineFrom, LineReads
<1>3. QED
  BY <1>1, <1>2 DEF Consumed

\* Every step sends one part, or reads some and goes on with the line or drops it.
LEMMA AheadEffect ==
    ASSUME Control, [Next]_vars
    PROVE  Sent \/ Consumed
<1>1. SendingTypes /\ SendingTypes' /\ QueueTypes
  BY ControlParts, SendingStep DEF Control
<1>2. buf \in Seq(Part) /\ unread \in Seq(Part)
  BY <1>1 DEF QueueTypes
<1>3. CASE Reading
  <2>1. done' = done /\ UNCHANGED handlerVars
    BY <1>3 DEF Reading, handlerVars
  <2>2. ExecutedOnce
    BY <2>1 DEF ExecutedOnce
  <2>3. CASE PeerSends
    BY <1>1, <2>1, <2>3, SendsAhead
  <2>4. CASE PeerCloses \/ Tick \/ DeadlineKeepsData \/ DeadlineDropsLine \/ TimesOut \/ StreamEnds
    <3>1. /\ buf' = buf /\ unread' = unread /\ script' = script /\ left' = left
          /\ line' = line \/ line' = <<>>
      BY <2>4 DEF PeerCloses, Tick, DeadlineKeepsData, DeadlineDropsLine, TimesOut, StreamEnds,
         ReadFails, Again, Fail, peerVars, callVars
    <3>2. Ahead' = Ahead
      BY <3>1 DEF Ahead
    <3>3. QED
      BY <1>1, <2>2, <3>1, <3>2, ReadsNone
  <2>5. CASE Fill
    <3>1. /\ buf' = buf \o unread /\ unread' = <<>> /\ script' = script /\ left' = left
          /\ line' = line
      BY <2>5 DEF Fill, peerVars, callVars
    <3>2. ASSUME NEW b \in Seq(Part), NEW u \in Seq(Part) PROVE (b \o u) \o <<>> = b \o u
      OBVIOUS
    <3>3. Ahead' = Ahead
      BY <1>2, <3>1, <3>2 DEF Ahead
    <3>4. QED
      BY <1>1, <2>2, <3>1, <3>3, ReadsNone
  <2>6. CASE ReadPart
    <3>1. /\ buf # <<>> /\ buf' = Tail(buf) /\ unread' = unread /\ script' = script /\ left' = left
          /\ line' = line \/ line' = Append(line, buf[1])
      BY <2>6 DEF ReadPart, Reads, peerVars
    <3>2. Tail(buf) \in Seq(Part) /\ Rest(Tail(buf), buf, 1) /\ 1 <= Len(buf)
      BY <1>2, <3>1, RestTypes
    <3>3. PICK c \in Seq(Part) : c = Tail(buf)
      BY <3>2
    <3>4. LineReads(1)
      BY <3>1 DEF LineReads
    <3>5. QED
      BY <1>1, <2>2, <3>1, <3>2, <3>3, <3>4, ReadsSome
  <2>7. CASE ReadLineEnd
    <3>1. /\ buf # <<>> /\ buf' = AfterLine /\ unread' = unread /\ script' = script /\ left' = left
          /\ line' = <<>> \/ line' = Append(line, buf[1])
      BY <2>7 DEF ReadLineEnd, Reads, Again, peerVars
    <3>2. \/ AfterLine = Tail(buf)
          \/ AfterLine = SubSeq(buf, 3, Len(buf)) /\ Len(buf) > 1
      BY DEF AfterLine
    <3>3. CASE AfterLine = Tail(buf)
      <4>1. Tail(buf) \in Seq(Part) /\ Rest(Tail(buf), buf, 1) /\ 1 <= Len(buf)
        BY <1>2, <3>1, RestTypes
      <4>2. PICK c \in Seq(Part) : c = Tail(buf)
        BY <4>1
      <4>3. LineReads(1)
        BY <3>1 DEF LineReads
      <4>4. QED
        BY <1>1, <2>2, <3>1, <3>3, <4>1, <4>2, <4>3, ReadsSome
    <3>4. CASE AfterLine = SubSeq(buf, 3, Len(buf)) /\ Len(buf) > 1
      <4>1. SubSeq(buf, 3, Len(buf)) \in Seq(Part) /\ Rest(SubSeq(buf, 3, Len(buf)), buf, 2)
        BY <1>2, <3>4, RestTypes
      <4>2. PICK c \in Seq(Part) : c = SubSeq(buf, 3, Len(buf))
        BY <4>1
      <4>3. LineReads(2) /\ 2 <= Len(buf)
        BY <1>2, <3>1, <3>4 DEF LineReads
      <4>4. QED
        BY <1>1, <2>2, <3>1, <3>4, <4>1, <4>2, <4>3, ReadsSome
    <3>5. QED
      BY <3>2, <3>3, <3>4
  <2>8. QED
    BY <1>3, <2>3, <2>4, <2>5, <2>6, <2>7 DEF Reading, Reader
<1>4. CASE Handler
  <2>1. unread' = unread /\ script' = script /\ left' = left
    BY <1>4 DEF Handler, ModemCommand, Tone, ModemDial, Connect, HandOver,
           Register, BadToken, DeviceTone,
       DeviceWaitEnds, GiveUp, readerVars, peerVars
  <2>2. line' = line \/ line' = <<>>
    BY <1>4 DEF Handler, ModemCommand, Tone, ModemDial, Connect, HandOver,
           Register, BadToken, DeviceTone,
       DeviceWaitEnds, GiveUp, readerVars, callVars, Call, Stops
  <2>3. ExecutedOnce
    <3>1. CASE ModemCommand \/ Tone \/ ModemDial \/ Connect \/ Register
      <4>1. line' = <<>> \/ phase' \in {"closed", "client"}
        BY <3>1 DEF ModemCommand, Tone, ModemDial, Connect, HandOver, Token,
               Register, BadToken, Call
      <4>2. QED
        BY <4>1 DEF ExecutedOnce, Waiting
    <3>2. CASE DeviceTone \/ DeviceWaitEnds \/ GiveUp
      <4>1. phase' \in {"closed", "idle"}
        BY <3>2 DEF DeviceTone, DeviceWaitEnds, GiveUp
      <4>2. QED
        BY <4>1 DEF ExecutedOnce, Waiting
    <3>3. QED
      BY <1>4, <3>1, <3>2 DEF Handler
  <2>4. buf' = buf \/ buf' = <<>>
    BY <1>4 DEF Handler, ModemCommand, Tone, ModemDial, Connect, HandOver,
           Register, BadToken, DeviceTone,
       DeviceWaitEnds, GiveUp, readerVars
  <2>5. CASE buf' = buf
    <3>1. Ahead' = Ahead
      BY <2>1, <2>5 DEF Ahead
    <3>2. QED
      BY <1>1, <2>1, <2>2, <2>3, <3>1, ReadsNone
  <2>6. CASE buf' = <<>>
    <3>1. <<>> \in Seq(Part) /\ Rest(<<>>, buf, Len(buf)) /\ Len(buf) \in Nat
      BY <1>2, RestTypes
    <3>2. PICK c \in Seq(Part), k \in Nat : c = <<>> /\ k = Len(buf)
      BY <3>1
    <3>3. LineReads(k) /\ k <= Len(buf) /\ Rest(c, buf, k)
      BY <2>2, <3>1, <3>2 DEF LineReads
    <3>4. buf' = c
      BY <2>6, <3>2
    <3>5. QED
      BY <1>1, <2>1, <2>3, <3>3, <3>4, ReadsSome
  <2>7. QED
    BY <2>4, <2>5, <2>6
<1>5. CASE UNCHANGED vars
  <2>1. /\ buf' = buf /\ unread' = unread /\ script' = script /\ left' = left /\ line' = line
        /\ done' = done
    BY <1>5 DEF vars, readerVars, peerVars, callVars, handlerVars
  <2>2. Ahead' = Ahead /\ ExecutedOnce
    BY <2>1 DEF Ahead, ExecutedOnce
  <2>3. QED
    BY <1>1, <2>1, <2>2, ReadsNone
<1>6. QED
  BY <1>3, <1>4, <1>5, NextCases

\* What is sent comes after all that was sent before.
LEMMA SentAfter ==
    ASSUME SendingTypes, SendingTypes', Sent
    PROVE  \E p \in Part' :
              /\ Ahead' = Append(Ahead, p) /\ Arrived(p)'
              /\ \A q \in Nat \X Nat : Arrived(q) => Before(q, p) /\ Arrived(q)'
<1>1. PICK n \in Nat \ {0} :
         /\ <<Len(script'), n>> \in Part'
         /\ n = Len(Text[script'[Len(script')]]) - left'
         /\ Ahead' = Append(Ahead, <<Len(script'), n>>)
  BY DEF Sent
<1>2. PICK p \in Part' : p = <<Len(script'), n>> /\ p[1] = Len(script') /\ p[2] = n
  BY <1>1
<1>3. Arrived(p)'
  BY <1>1, <1>2 DEF Arrived
<1>4. ASSUME NEW q \in Nat \X Nat, Arrived(q) PROVE Before(q, p) /\ Arrived(q)'
  <2>1. PICK m \in Nat, i \in Nat, l \in Nat : m = q[1] /\ i = q[2] /\ l = Len(script)
    BY DEF SendingTypes
  <2>2. m < l \/ (m = l /\ i <= Len(Text[script[m]]) - left)
    BY <1>4, <2>1 DEF Arrived
  <2>3. CASE script' = script /\ left' = left - 1 /\ script # <<>>
    <3>1. PICK k \in Kind : k = script[l]
      BY <2>1, <2>3 DEF SendingTypes
    <3>2. PICK t \in Nat, f \in Nat : t = Len(Text[k]) /\ f = left
      <4>1. Text[k] \in Seq(Seq(Byte) \ {<<>>})
        BY Assumptions
      <4>2. QED
        BY <4>1 DEF SendingTypes
    <3>3. n = t - (f - 1) /\ p[1] = l /\ p[2] = n
      BY <1>1, <1>2, <2>1, <2>3, <3>1, <3>2
    <3>4. m < l \/ (m = l /\ i <= t - f)
      BY <2>2, <3>1, <3>2
    <3>5. Before(q, p)
      BY <2>1, <3>3, <3>4 DEF Before
    <3>6. m < l \/ (m = l /\ i <= t - (f - 1))
      BY <3>2, <3>4
    <3>7. Arrived(q)'
      BY <2>1, <2>3, <3>1, <3>2, <3>6 DEF Arrived
    <3>8. QED
      BY <3>5, <3>7
  <2>4. ASSUME NEW kind \in Kind, script' = Append(script, kind)
        PROVE  Before(q, p) /\ Arrived(q)'
    <3>1. Len(script') = l + 1
      BY <2>1, <2>4 DEF SendingTypes
    <3>2. m < l + 1
      BY <2>1, <2>2
    <3>3. QED
      BY <1>2, <2>1, <3>1, <3>2 DEF Before, Arrived
  <2>5. QED
    BY <2>3, <2>4 DEF Sent
<1>5. QED
  BY <1>1, <1>2, <1>3, <1>4

\* The connection does not come back to the handshake or to the wait.
LEMMA WaitingBefore ==
    ASSUME [Next]_vars, Waiting'
    PROVE  Waiting
  BY RecordEffect DEF Waiting, NothingExecuted, GivesUp, Executed, ExecutesAs, ExecutesModem,
     ExecutesTone, ExecutesDial, ExecutesConnect, ExecutesReg, EndsWait

LEMMA OrderConsumed ==
    ASSUME Control, OrderInv, [Next]_vars, Consumed
    PROVE  OrderInv'
<1>1. PICK k \in 0 .. Len(Ahead) : Consumes(k) /\ LineFrom(k) /\ ExecutedOnce
  BY DEF Consumed
<1>2. PICK l \in Nat : l = Len(Ahead)
  BY ControlParts, AheadTypes DEF Control
<1>3. \A q : Arrived(q)' <=> Arrived(q)
  BY <1>1 DEF Arrived, Consumes
<1>4. Len(Ahead') = l - k /\ \A i \in 1 .. l - k : Ahead'[i] = Ahead[k + i]
  BY <1>1, <1>2 DEF Consumes, Rest
<1>5. /\ \A i \in 1 .. l - k : k + i \in 1 .. l
      /\ \A i, j \in 1 .. l - k : i < j => k + i < k + j
  BY <1>1, <1>2
<1>6. AheadInOrder'
  BY <1>2, <1>3, <1>4, <1>5 DEF OrderInv, AheadInOrder
<1>7. ASSUME k > 0
      PROVE  /\ 1 \in 1 .. l /\ Arrived(Ahead[1])
             /\ \A i \in 1 .. l - k : Before(Ahead[1], Ahead[k + i])
  <2>1. 1 \in 1 .. l /\ \A i \in 1 .. l - k : 1 < k + i
    BY <1>1, <1>2, <1>7
  <2>2. QED
    BY <1>2, <1>5, <2>1 DEF OrderInv, AheadInOrder
<1>8. LineFirst'
  BY <1>1, <1>2, <1>3, <1>4, <1>5, <1>7 DEF OrderInv, LineFirst, LineFrom
<1>9. ASSUME NEW n \in 1 .. Len(done'), Waiting', done'[n] # 0, NEW c, c = <<done'[n], 1>>
      PROVE  /\ \A i \in 1 .. l : k < i => Before(c, Ahead[i])
             /\ Arrived(c)
             /\ line' # <<>> => Before(c, line'[1])
  <2>1. Waiting
    BY <1>9, WaitingBefore
  <2>2. CASE n \in 1 .. Len(done)
    <3>1. done'[n] = done[n]
      BY <2>2, DoneKept
    <3>2. /\ \A i \in 1 .. l : Before(c, Ahead[i])
          /\ Arrived(c)
          /\ line # <<>> => Before(c, line[1])
      BY <1>2, <1>9, <2>1, <2>2, <3>1 DEF OrderInv, DoneFirst
    <3>3. line' # <<>> => Before(c, line'[1])
      BY <1>1, <1>7, <3>2 DEF LineFrom
    <3>4. QED
      BY <3>2, <3>3
  <2>3. CASE n \notin 1 .. Len(done)
    <3>1. Executed /\ done' = Append(done, Message) /\ done \in Seq(Commands \cup {0}) /\ done' # done
      BY <1>9, <2>3, DoneKept DEF Control, ControlTypes, Executed, Executes
    <3>2. c = <<Message, 1>> /\ Message # 0
      BY <1>9, <2>3, <3>1
    <3>3. line # <<>> /\ line[1][1] = Message /\ line[1][2] = 1
      BY <3>1, <3>2, ReturnedCommand, ControlParts DEF Executed, Control, LineBegun
    <3>4. Arrived(line[1]) /\ \A i \in 1 .. l : Before(line[1], Ahead[i])
      BY <1>2, <3>3 DEF OrderInv, LineFirst
    <3>5. Arrived(c) /\ \A i \in 1 .. l : Before(c, Ahead[i])
      BY <3>2, <3>3, <3>4 DEF Arrived, Before
    <3>6. line' = <<>>
      BY <1>1, <1>9, <3>1 DEF ExecutedOnce
    <3>7. QED
      BY <3>5, <3>6
  <2>4. QED
    BY <2>2, <2>3
<1>10. DoneFirst'
  <2>1. ASSUME NEW n \in 1 .. Len(done'), Waiting', done'[n] # 0, NEW c, c = <<done'[n], 1>>
        PROVE  /\ \A i \in 1 .. Len(Ahead') : Before(c, Ahead'[i])
               /\ Arrived(c)'
               /\ line' # <<>> => Before(c, line'[1])
    <3>1. \A i \in 1 .. l - k : k < k + i
      BY <1>1, <1>2
    <3>2. \A i \in 1 .. l - k : Before(c, Ahead[k + i])
      BY <1>5, <1>9, <2>1, <3>1
    <3>3. \A i \in 1 .. Len(Ahead') : Before(c, Ahead'[i])
      BY <1>4, <3>2
    <3>4. QED
      BY <1>3, <1>9, <2>1, <3>3
  <2>2. QED
    BY <2>1 DEF DoneFirst
<1>11. QED
  BY <1>6, <1>8, <1>10 DEF OrderInv

LEMMA OrderSent ==
    ASSUME Control, Control', OrderInv, [Next]_vars, Sent
    PROVE  OrderInv'
<1>1. PICK p \in Part' :
         /\ Ahead' = Append(Ahead, p) /\ Arrived(p)'
         /\ \A q \in Nat \X Nat : Arrived(q) => Before(q, p) /\ Arrived(q)'
  BY SentAfter, ControlParts DEF Control, ControlTypes, SendingTypes
<1>2. PICK l \in Nat : l = Len(Ahead) /\ Ahead \in Seq(Part)
  BY ControlParts, AheadTypes DEF Control
<1>3. Part \subseteq Nat \X Nat
  BY DEF Part, Messages
<1>4. /\ Len(Ahead') = l + 1 /\ Ahead'[l + 1] = p
      /\ \A i \in 1 .. l : Ahead'[i] = Ahead[i] /\ Ahead[i] \in Nat \X Nat
  BY <1>1, <1>2, <1>3
<1>5. \A i \in 1 .. l + 1 : i \in 1 .. l \/ i = l + 1
  OBVIOUS
<1>6. line' = line /\ done' = done /\ (Waiting' => Waiting)
  BY DEF Sent, Waiting
<1>7. line # <<>> => line[1] \in Nat \X Nat
  <2>1. line \in Seq(Part)
    BY DEF Control, ControlTypes
  <2>2. QED
    BY <1>3, <2>1
<1>8. AheadInOrder'
  <2>1. \A i \in 1 .. l : Arrived(Ahead[i])' /\ Before(Ahead[i], p)
    BY <1>1, <1>2, <1>4 DEF OrderInv, AheadInOrder
  <2>2. \A i \in 1 .. l + 1 : Arrived(Ahead[i])'
    BY <1>1, <1>4, <1>5, <2>1 DEF Arrived
  <2>3. ASSUME NEW i \in 1 .. l + 1, NEW j \in 1 .. l + 1, i < j
        PROVE  Before(Ahead'[i], Ahead'[j])
    <3>1. i \in 1 .. l
      BY <2>3
    <3>2. CASE j \in 1 .. l
      BY <1>2, <1>4, <2>3, <3>1, <3>2 DEF OrderInv, AheadInOrder
    <3>3. CASE j = l + 1
      BY <1>4, <2>1, <3>1, <3>3
    <3>4. QED
      BY <1>5, <3>2, <3>3
  <2>4. QED
    BY <1>4, <2>2, <2>3 DEF AheadInOrder
<1>9. LineFirst'
  <2>1. ASSUME line # <<>>
        PROVE  /\ Arrived(line[1])'
               /\ \A i \in 1 .. l + 1 : Before(line[1], Ahead'[i])
    <3>1. Arrived(line[1]) /\ \A i \in 1 .. l : Before(line[1], Ahead[i])
      BY <1>2, <2>1 DEF OrderInv, LineFirst
    <3>2. PICK q \in Nat \X Nat : q = line[1] /\ q = line'[1]
      BY <1>6, <1>7, <2>1
    <3>3. Before(q, p) /\ Arrived(q)'
      BY <1>1, <3>1, <3>2
    <3>4. \A i \in 1 .. l + 1 : Before(q, Ahead'[i])
      BY <1>4, <1>5, <3>1, <3>2, <3>3
    <3>5. QED
      BY <3>2, <3>3, <3>4
  <2>2. QED
    BY <1>4, <1>6, <2>1 DEF LineFirst
<1>10. DoneFirst'
  <2>1. ASSUME NEW n \in 1 .. Len(done), Waiting', done[n] # 0, NEW c, c = <<done[n], 1>>
        PROVE  /\ \A i \in 1 .. Len(Ahead') : Before(c, Ahead'[i])
               /\ Arrived(c)'
               /\ line' # <<>> => Before(c, line'[1])
    <3>1. done \in Seq(Commands \cup {0})
      BY DEF Control, ControlTypes
    <3>2. done[n] \in Nat
      BY <3>1 DEF Commands, Messages
    <3>3. c \in Nat \X Nat
      BY <2>1, <3>2
    <3>4. /\ \A i \in 1 .. l : Before(c, Ahead[i])
          /\ Arrived(c)
          /\ line # <<>> => Before(c, line[1])
      BY <1>2, <1>6, <2>1 DEF OrderInv, DoneFirst
    <3>5. \A i \in 1 .. Len(Ahead') : Before(c, Ahead'[i])
      BY <1>1, <1>4, <1>5, <3>3, <3>4
    <3>6. QED
      BY <1>1, <1>6, <3>3, <3>4, <3>5
  <2>2. QED
    BY <1>6, <2>1 DEF DoneFirst
<1>11. QED
  BY <1>8, <1>9, <1>10 DEF OrderInv

\* What has been read comes before what is still to be read, and every command
\* executed comes before both.
THEOREM InOrder == Spec => [](Control /\ OrderInv)
<1>1. Init => OrderInv
  <2> SUFFICES ASSUME Init PROVE OrderInv
    OBVIOUS
  <2>1. buf = <<>> /\ unread = <<>> /\ line = <<>> /\ done = <<>>
    BY DEF Init, ReaderInit
  <2>2. Ahead = <<>> /\ Len(<<>>) = 0
    BY <2>1 DEF Ahead
  <2>3. QED
    BY <2>1, <2>2 DEF OrderInv, AheadInOrder, LineFirst, DoneFirst
<1>2. Control /\ OrderInv /\ [Next]_vars => Control' /\ OrderInv'
  BY ControlStep, AheadEffect, OrderSent, OrderConsumed
<1>3. QED
  BY <1>1, <1>2, ControlInit, PTL DEF Spec

\* The history of the commands is that of a pipe: nothing is added to it, or a line
\* that no command begins, or the next command.
LEMMA PipeOthers ==
    ASSUME Len(script) \in Nat, Len(script') \in Nat, Len(script') >= Len(script),
           done \in Seq(Nat), done' = done \/ done' = Append(done, 0)
    PROVE  Order!Next
<1>1. [i \in 1 .. 0 |-> 0] = <<>> /\ [i \in 1 .. 1 |-> 0] = <<0>>
  OBVIOUS
<1>2. done' \in Seq(Nat)
  OBVIOUS
<1>3. ASSUME NEW s \in {"peer"} PROVE Order!Others(s)
  <2>1. CASE done' = done
    <3>1. 0 \in 0 .. Len(done') /\ done' = done \o [i \in 1 .. 0 |-> 0]
      BY <1>1, <2>1, ConcatEmptySeq
    <3>2. QED
      BY <3>1 DEF Order!Others
  <2>2. CASE done' = Append(done, 0)
    <3>1. done' = done \o [i \in 1 .. 1 |-> 0]
      BY <1>1, <2>2, AppendIsConcat
    <3>2. 1 \in 0 .. Len(done')
      BY <2>2
    <3>3. QED
      BY <3>1, <3>2 DEF Order!Others
  <2>3. QED
    BY <2>1, <2>2
<1>4. QED
  BY <1>2, <1>3 DEF Order!Next

LEMMA PipeDelivers ==
    ASSUME Len(script) \in Nat, Len(script') = Len(script), done \in Seq(Nat),
           NEW m \in 1 .. Len(script), done' = Append(done, m),
           \A i \in 1 .. Len(done) : done[i] < m
    PROVE  Order!Next
<1>1. [i \in 1 .. 1 |-> m + i - 1] = <<m>>
  <2>1. \A i \in 1 .. 1 : m + i - 1 = m
    OBVIOUS
  <2>2. [i \in 1 .. 1 |-> m + i - 1] = [i \in 1 .. 1 |-> m]
    BY <2>1
  <2>3. [i \in 1 .. 1 |-> m] = <<m>>
    OBVIOUS
  <2>4. QED
    BY <2>2, <2>3
<1>2. m \in Nat /\ done' \in Seq(Nat)
  OBVIOUS
<1>3. done' = done \o [i \in 1 .. 1 |-> m + i - 1]
  BY <1>1, <1>2, AppendIsConcat
<1>4. 1 \in 1 .. Len(script) - m + 1
  OBVIOUS
<1>5. ASSUME NEW s \in {"peer"} PROVE Order!Delivers(s)
  BY <1>3, <1>4 DEF Order!Delivers
<1>6. QED
  BY <1>2, <1>5 DEF Order!Next

\* What Handle and handleDevice execute is what the peer has sent, in that order and
\* each command at most once, though two bufio.Readers read the connection and
\* deadlines drop lines.
THEOREM CommandsInOrder == Spec => CommandPipe
<1>1. Init => Order!Init
  <2> SUFFICES ASSUME Init PROVE Order!Init
    OBVIOUS
  <2>1. script = <<>> /\ done = <<>> /\ Len(<<>>) = 0
    BY DEF Init, ReaderInit
  <2>2. QED
    BY <2>1 DEF Order!Init
<1>2. Control /\ Control' /\ OrderInv /\ [Next]_vars => [Order!Next]_(Order!vars)
  <2> SUFFICES ASSUME Control, Control', OrderInv, [Next]_vars PROVE Order!Next
    OBVIOUS
  <2>1. done \in Seq(Nat) /\ script \in Seq(Kind) /\ script' \in Seq(Kind)
    <3>1. script \in Seq(Kind) /\ script' \in Seq(Kind) /\ done \in Seq(Commands \cup {0})
      BY DEF Control, ControlTypes
    <3>2. Commands \cup {0} \subseteq Nat
      BY <3>1 DEF Commands, Messages
    <3>3. done \in Seq(Nat)
      BY <3>1, <3>2, SeqMonotonic
    <3>4. QED
      BY <3>1, <3>3
  <2>2. Len(script) \in Nat /\ Len(script') \in Nat
    BY <2>1
  <2>3. Len(script') >= Len(script)
    BY <2>1, StepGrows, ScriptGrows
  <2>4. CASE UNCHANGED <<done, kinds>>
    BY <2>1, <2>2, <2>3, <2>4, PipeOthers
  <2>5. CASE Executed
    <3>1. /\ done' = Append(done, Message) /\ script' = script /\ Waiting
          /\ Message \in Messages \cup {0} /\ (Message # 0 => line[1] = <<Message, 1>>)
          /\ line # <<>>
      BY <2>5, ReturnedCommand, ControlParts DEF Executed, Executes, Control, LineBegun, Waiting,
         ExecutesAs, ExecutesModem, ExecutesTone, ExecutesDial, ExecutesConnect, ExecutesReg,
         EndsWait
    <3>2. CASE Message = 0
      BY <2>1, <2>2, <2>3, <3>1, <3>2, PipeOthers
    <3>3. CASE Message # 0
      <4>1. PICK m \in 1 .. Len(script) : m = Message
        BY <3>1, <3>3 DEF Messages
      <4>2. ASSUME NEW i \in 1 .. Len(done), done[i] # 0 PROVE done[i] < m
        <5>1. Before(<<done[i], 1>>, line[1])
          BY <3>1, <4>2 DEF OrderInv, DoneFirst
        <5>2. QED
          BY <3>1, <3>3, <4>1, <5>1 DEF Before
      <4>3. \A i \in 1 .. Len(done) : done[i] < m
        BY <4>2
      <4>4. QED
        BY <2>1, <2>2, <3>1, <4>1, <4>3, PipeDelivers
    <3>4. QED
      BY <3>2, <3>3
  <2>6. QED
    BY <2>4, <2>5, DoneKept
<1>3. QED
  BY <1>1, <1>2, InOrder, PTL DEF Spec, CommandPipe, Order!Spec

(***************************************************************************)
(* No command is passed over, and none is taken for port settings.         *)
(*                                                                         *)
(* What is ahead has no holes: each part is followed by the next one of    *)
(* its message, or by the first one of the next message.  So a command     *)
(* line that has been begun goes on with its own parts up to its end, and  *)
(* what leaves the bufio.Reader otherwise is the data of a packet, unless  *)
(* an error or another reader has come between.                            *)
(***************************************************************************)

PartsOf(m) == Len(Text[script[m]])

LastSent == <<Len(script), PartsOf(Len(script)) - left>>

Follows(part, other) ==
    other = IF part[2] < PartsOf(part[1]) THEN <<part[1], part[2] + 1>> ELSE <<part[1] + 1, 1>>

NoHoles ==
    /\ \A i \in 1 .. Len(Ahead) - 1 : Follows(Ahead[i], Ahead[i + 1])
    /\ Ahead # <<>> => Ahead[Len(Ahead)] = LastSent

\* The n-th part of a message is the next to come.
NextIs(m, n) == IF Ahead = <<>> THEN LastSent = <<m, n - 1>> ELSE Ahead[1] = <<m, n>>

\* A line that a command begins is the beginning of it, and goes on with the rest.
LineIs ==
    line # <<>> /\ ~Astray(line) =>
        /\ \A i \in 1 .. Len(line) : line[i] = <<Message, i>>
        /\ reading = "reads" =>
              /\ \A i \in 1 .. Len(line) : ~EndsLine(line[i])
              /\ NextIs(Message, Len(line) + 1)

\* The data skipped was sent before the command line and before what is ahead.
SkippedBefore ==
    reading = "reads" =>
        \A i \in 1 .. Len(skipped) :
            /\ Arrived(skipped[i])
            /\ \A j \in 1 .. Len(Ahead) : Before(skipped[i], Ahead[j])
            /\ line # <<>> => Before(skipped[i], line[1])

NoneIs(parts, part) == \A i \in 1 .. Len(parts) : parts[i] # part

Done(m) == \E i \in 1 .. Len(done) : done[i] = m
Executing(m) == reading = "returned" /\ Message = m

\* Nothing of a command executed is still to come, not even the LF behind its CR.
Ended(m) ==
    /\ \A i \in 1 .. Len(Ahead) : m < Ahead[i][1]
    /\ Arrived(<<m, PartsOf(m)>>)

EndedInv == \A m \in Commands \ torn : Done(m) \/ Executing(m) => Ended(m)

\* A command of which the first part was read has been executed, or is the line.
Begun(m) == line # <<>> /\ Message = m /\ reading # "failed"

BegunInv ==
    \A m \in Commands \ torn :
        NoneIs(Ahead, <<m, 1>>) /\ NoneIs(lost, <<m, 1>>) => Done(m) \/ Begun(m)

\* Only handleDevice's wait leaves anything behind.
LostInv == phase = "handshake" => lost = <<>>

StreamInv == NoHoles /\ LineIs /\ SkippedBefore /\ EndedInv /\ BegunInv /\ LostInv

(***************************************************************************)
(* The steps, by what they do to the stream.                               *)
(***************************************************************************)

PeerSent == Sent /\ UNCHANGED <<reading, skipped, allSkipped, torn, lost, presets>>

Idles ==
    /\ Ahead' = Ahead
    /\ phase' = phase \/ phase' # "handshake"
    /\ UNCHANGED <<script, left, line, reading, skipped, allSkipped, torn, done, lost, presets>>

TakesPart == ReadPart /\ UNCHANGED handlerVars
TakesEnd == ReadLineEnd /\ UNCHANGED handlerVars

Fails ==
    /\ reading = "reads" /\ Ahead' = Ahead
    /\ torn' = torn \cup Cut
    /\ \/ UNCHANGED <<line, skipped>> /\ reading' = "failed"
       \/ line' = <<>> /\ skipped' = <<>> /\ reading' \in {"reads", "failed"}
    /\ allSkipped' = allSkipped \/ allSkipped' = allSkipped \o skipped
    /\ UNCHANGED <<script, left, done, lost, presets, phase>>

Executes1 ==
    /\ reading = "returned" /\ done' = Append(done, Message)
    /\ \/ UNCHANGED <<line, reading, skipped, allSkipped>>
       \/ line' = <<>> /\ reading' = "reads" /\ skipped' = <<>> /\ allSkipped' = <<>>
    /\ \/ UNCHANGED <<buf, lost>>
       \/ phase = "handshake" /\ phase' # "handshake" /\ lost' = buf /\ buf' = <<>>
    /\ phase' = phase \/ phase' # "handshake"
    /\ presets' = presets \/ presets' = presets \o allSkipped
    /\ UNCHANGED <<script, left, unread, torn>>

LEMMA StreamEffect ==
    ASSUME Control, [Next]_vars
    PROVE  PeerSent \/ Idles \/ TakesPart \/ TakesEnd \/ Fails \/ Executes1
<1>1. SendingTypes /\ SendingTypes' /\ QueueTypes
  BY ControlParts, SendingStep DEF Control
<1>2. CASE Reading
  <2>1. UNCHANGED handlerVars
    BY <1>2 DEF Reading
  <2>2. CASE PeerSends
    <3>1. Sent
      BY <1>1, <2>1, <2>2, SendsAhead
    <3>2. QED
      BY <2>1, <2>2, <3>1 DEF PeerSends, callVars, handlerVars, PeerSent
  <2>3. CASE PeerCloses \/ Tick
    BY <2>1, <2>3 DEF PeerCloses, Tick, peerVars, callVars, handlerVars, Idles, Ahead
  <2>4. CASE Fill
    <3>1. /\ buf' = buf \o unread /\ unread' = <<>>
          /\ buf \in Seq(Part) /\ unread \in Seq(Part)
      BY <1>1, <2>4 DEF Fill, QueueTypes
    <3>2. ASSUME NEW b \in Seq(Part), NEW u \in Seq(Part) PROVE (b \o u) \o <<>> = b \o u
      OBVIOUS
    <3>3. Ahead' = Ahead
      BY <3>1, <3>2 DEF Ahead
    <3>4. QED
      BY <2>1, <2>4, <3>3 DEF Fill, peerVars, callVars, handlerVars, Idles
  <2>5. CASE ReadPart \/ ReadLineEnd
    BY <2>1, <2>5 DEF TakesPart, TakesEnd
  <2>6. CASE DeadlineKeepsData \/ DeadlineDropsLine \/ TimesOut \/ StreamEnds
    <3>1. /\ reading = "reads" /\ buf' = buf /\ unread' = unread /\ torn' = torn \cup Cut
          /\ UNCHANGED peerVars
      BY <2>6 DEF DeadlineKeepsData, DeadlineDropsLine, TimesOut, StreamEnds, ReadFails
    <3>2. /\ \/ UNCHANGED <<line, skipped>> /\ reading' = "failed"
             \/ line' = <<>> /\ skipped' = <<>> /\ reading' \in {reading, "failed"}
          /\ allSkipped' = allSkipped \/ allSkipped' = allSkipped \o skipped
      BY <2>6 DEF DeadlineKeepsData, DeadlineDropsLine, TimesOut, StreamEnds, Fail, Again
    <3>3. Ahead' = Ahead
      BY <3>1 DEF Ahead
    <3>4. QED
      BY <2>1, <3>1, <3>2, <3>3 DEF peerVars, handlerVars, Fails
  <2>7. QED
    BY <1>2, <2>2, <2>3, <2>4, <2>5, <2>6 DEF Reading, Reader
<1>3. CASE ModemCommand \/ Tone \/ ModemDial \/ Connect \/ Register
  <2>1. /\ reading = "returned" /\ done' = Append(done, Message)
        /\ UNCHANGED <<script, left, unread, torn>>
    BY <1>3 DEF ModemCommand, Tone, ModemDial, Connect, HandOver,
           Register, BadToken, Handles, Executes, peerVars
  <2>2. \/ UNCHANGED <<line, reading, skipped, allSkipped>>
        \/ line' = <<>> /\ reading' = "reads" /\ skipped' = <<>> /\ allSkipped' = <<>>
    BY <1>3 DEF ModemCommand, Tone, ModemDial, Connect, HandOver,
           Register, BadToken, Call, Stops, callVars
  <2>3. \/ UNCHANGED <<buf, lost>>
        \/ phase = "handshake" /\ phase' # "handshake" /\ lost' = buf /\ buf' = <<>>
    BY <1>3 DEF ModemCommand, Tone, ModemDial, Connect, HandOver, Register, BadToken, Handles
  <2>4. presets' = presets \/ presets' = presets \o allSkipped
    BY <1>3 DEF ModemCommand, Tone, ModemDial, Connect, HandOver, Register, BadToken
  <2>5. phase' = phase \/ phase' # "handshake"
    BY <1>3 DEF ModemCommand, Tone, ModemDial, Connect, HandOver, Register, BadToken, Token, Handles
  <2>6. QED
    BY <2>1, <2>2, <2>3, <2>4, <2>5 DEF Executes1
<1>4. CASE DeviceTone
  BY <1>4 DEF DeviceTone, Executes, readerVars, peerVars, callVars, Executes1
<1>5. CASE DeviceWaitEnds \/ GiveUp
  BY <1>5 DEF DeviceWaitEnds, GiveUp, readerVars, peerVars, callVars, Idles, Ahead
<1>6. CASE UNCHANGED vars
  BY <1>6 DEF vars, readerVars, peerVars, callVars, handlerVars, Idles, Ahead
<1>7. QED
  BY <1>2, <1>3, <1>4, <1>5, <1>6, NextCases DEF Handler

\* The parts of a command.
LEMMA CommandParts ==
    ASSUME SendingTypes, NEW m \in Commands
    PROVE  /\ PartsOf(m) \in Nat \ {0}
           /\ \/ IsPrefix(AT, Bytes(<<m, 1>>))
              \/ /\ Bytes(<<m, 1>>) = <<AT[1]>>
                 /\ PartsOf(m) > 1 /\ Head(Bytes(<<m, 2>>)) = AT[2]
           /\ EndsLine(<<m, PartsOf(m)>>)
           /\ \A i \in 1 .. PartsOf(m) - 1 : EndsLine(<<m, i>>) =>
                 /\ i = PartsOf(m) - 1 /\ Last(Bytes(<<m, i>>)) = CR
                 /\ Bytes(<<m, PartsOf(m)>>) = <<LF>>
           /\ Bytes(<<m, 1>>) # <<LF>>
           /\ Bytes(<<m, 1>>) = <<AT[1]>> => ~EndsLine(<<m, 1>>)
<1>1. PICK k \in Kind \cap CommandKind : k = script[m]
  BY DEF Commands, Messages, SendingTypes
<1>2. PICK t \in Seq(Seq(Byte) \ {<<>>}) \ {<<>>} : t = Text[k]
  BY Assumptions
<1>3. PICK n \in Nat \ {0} : n = Len(t) /\ n = PartsOf(m)
  BY <1>1, <1>2 DEF PartsOf
<1>4. \A i : Bytes(<<m, i>>) = t[i]
  BY <1>1, <1>2 DEF Bytes
<1>5. IsCommand(t)
  BY <1>1, <1>2, Assumptions
<1>6. /\ \/ IsPrefix(AT, t[1])
         \/ t[1] = <<AT[1]>> /\ n > 1 /\ Head(t[2]) = AT[2]
      /\ IsNewline(Last(t[n]))
      /\ \A i \in 1 .. n - 1 : IsNewline(Last(t[i])) => i = n - 1 /\ Last(t[i]) = CR /\ t[n] = <<LF>>
  <2>1. Last(t) = t[n]
    BY <1>3 DEF Last
  <2>2. QED
    BY <1>3, <1>5, <2>1 DEF IsCommand
<1>7. t[1] # <<LF>>
  <2>1. CASE IsPrefix(AT, t[1])
    <3>1. Len(AT) = 2 /\ Len(<<LF>>) = 1
      BY DEF AT
    <3>2. Len(AT) <= Len(t[1])
      BY <2>1 DEF IsPrefix
    <3>3. ASSUME t[1] = <<LF>> PROVE FALSE
      <4>1. 2 <= Len(<<LF>>)
        BY <3>1, <3>2, <3>3
      <4>2. QED
        BY <3>1, <4>1
    <3>4. QED
      BY <3>3
  <2>2. CASE t[1] = <<AT[1]>>
    BY <2>2 DEF AT, LF
  <2>3. QED
    BY <1>6, <2>1, <2>2
<1>8. t[1] = <<AT[1]>> => ~IsNewline(Last(t[1]))
  BY DEF AT, IsNewline, CR, LF, Last
<1>9. QED
  BY <1>3, <1>4, <1>6, <1>7, <1>8 DEF EndsLine

LEMMA PartIs ==
    ASSUME SendingTypes, NEW part \in Part
    PROVE  /\ part \in Nat \X Nat /\ part = <<part[1], part[2]>>
           /\ part[1] \in Messages /\ PartsOf(part[1]) \in Nat \ {0}
           /\ part[2] \in 1 .. PartsOf(part[1])
<1>1. part[1] \in Messages /\ part[2] \in Nat \ {0} /\ part[2] <= Len(Text[script[part[1]]])
  BY DEF Part
<1>2. PICK k \in Kind : k = script[part[1]]
  BY <1>1 DEF Messages, SendingTypes
<1>3. Text[k] \in Seq(Seq(Byte) \ {<<>>}) \ {<<>>}
  BY Assumptions
<1>4. Len(Text[k]) \in Nat \ {0}
  BY <1>3
<1>5. part = <<part[1], part[2]>> /\ part \in Nat \X Nat
  BY <1>1 DEF Part, Messages
<1>6. QED
  BY <1>1, <1>2, <1>4, <1>5 DEF PartsOf

\* A message keeps its parts.
LEMMA PartsKept ==
    ASSUME SendingTypes, [Next]_vars
    PROVE  /\ \A m \in Messages : PartsOf(m)' = PartsOf(m)
           /\ \A part \in Part : (EndsLine(part)' <=> EndsLine(part))
           /\ \A m \in Messages : m \in Commands' <=> m \in Commands
           /\ Messages \subseteq Messages' /\ Part \subseteq Part'
<1>1. Grows /\ script \in Seq(Kind)
  BY StepGrows DEF SendingTypes
<1>2. /\ \A m \in Messages : script'[m] = script[m]
      /\ Messages \subseteq Messages' /\ Part \subseteq Part'
      /\ \A part \in Part : Bytes(part)' = Bytes(part)
  BY <1>1, ScriptGrows
<1>3. \A m \in Messages : PartsOf(m)' = PartsOf(m)
  BY <1>2 DEF PartsOf
<1>4. \A part \in Part : (EndsLine(part)' <=> EndsLine(part))
  BY <1>2 DEF EndsLine
<1>5. \A m \in Messages : m \in Commands' <=> m \in Commands
  BY <1>2 DEF Commands
<1>6. QED
  BY <1>2, <1>3, <1>4, <1>5

\* The part that is sent follows the last one.
LEMMA SentFollows ==
    ASSUME SendingTypes, SendingTypes', PeerSent, [Next]_vars
    PROVE  /\ Ahead' = Append(Ahead, LastSent') /\ LastSent' \in Part'
           /\ script # <<>> => Follows(LastSent, LastSent')
<1>1. PICK n \in Nat \ {0} :
         /\ <<Len(script'), n>> \in Part'
         /\ n = Len(Text[script'[Len(script')]]) - left'
         /\ Ahead' = Append(Ahead, <<Len(script'), n>>)
  BY DEF PeerSent, Sent
<1>2. LastSent' = <<Len(script'), n>>
  BY <1>1 DEF LastSent, PartsOf
<1>3. ASSUME script # <<>> PROVE Follows(LastSent, LastSent')
  <2>1. PICK l \in Nat \ {0}, k \in Kind : l = Len(script) /\ k = script[l]
    BY <1>3 DEF SendingTypes
  <2>2. PICK t \in Nat \ {0}, f \in Nat : t = Len(Text[k]) /\ f = left /\ f < t
    <3>1. Text[k] \in Seq(Seq(Byte) \ {<<>>}) \ {<<>>}
      BY Assumptions
    <3>2. Len(Text[k]) \in Nat \ {0}
      BY <3>1
    <3>3. left \in Nat /\ left < Len(Text[k])
      BY <1>3, <2>1 DEF SendingTypes, Last
    <3>4. QED
      BY <3>2, <3>3
  <2>3. LastSent = <<l, t - f>> /\ PartsOf(l) = t
    BY <2>1, <2>2 DEF LastSent, PartsOf
  <2>4. CASE script' = script /\ left' = left - 1
    <3>1. f # 0
      BY <2>2, <2>4 DEF SendingTypes
    <3>2. LastSent' = <<l, t - (f - 1)>>
      BY <2>1, <2>2, <2>4 DEF LastSent, PartsOf
    <3>3. t - f < t /\ t - (f - 1) = (t - f) + 1
      BY <2>2, <3>1
    <3>4. QED
      BY <2>3, <3>2, <3>3 DEF Follows
  <2>5. ASSUME left = 0, NEW kind \in Kind, script' = Append(script, kind), left' = Len(Text[kind]) - 1
        PROVE  Follows(LastSent, LastSent')
    <3>1. Len(script') = l + 1 /\ script'[l + 1] = kind
      BY <2>1, <2>5 DEF SendingTypes
    <3>2. PICK u \in Nat : u = Len(Text[kind])
      <4>1. Text[kind] \in Seq(Seq(Byte) \ {<<>>}) \ {<<>>}
        BY Assumptions
      <4>2. QED
        BY <4>1
    <3>3. LastSent' = <<l + 1, u - (u - 1)>>
      BY <2>5, <3>1, <3>2 DEF LastSent, PartsOf
    <3>4. LastSent' = <<l + 1, 1>> /\ t - f = t
      BY <2>2, <2>5, <3>2, <3>3
    <3>5. QED
      BY <2>3, <3>4 DEF Follows
  <2>6. QED
    BY <2>4, <2>5 DEF PeerSent, Sent
<1>4. QED
  BY <1>1, <1>2, <1>3

\* A LF that is there goes with its CR.
EatsLf == Len(buf) > 1 /\ Peeks(buf[1]) /\ Bytes(buf[2]) = <<LF>>

LEMMA TakesAhead ==
    ASSUME QueueTypes, TakesPart \/ TakesEnd
    PROVE  /\ Len(Ahead) >= 1 /\ Ahead[1] = buf[1] /\ buf[1] \in Part
           /\ Len(buf) > 1 => Len(Ahead) >= 2 /\ Ahead[2] = buf[2]
           /\ TakesPart \/ ~EatsLf => Consumes(1)
           /\ TakesEnd /\ EatsLf => Consumes(2)
<1>1. PICK b \in Seq(Part), u \in Seq(Part) : b = buf /\ u = unread
  BY DEF QueueTypes
<1>2. b # <<>> /\ unread' = unread /\ script' = script /\ left' = left
  BY <1>1 DEF TakesPart, TakesEnd, ReadPart, ReadLineEnd, Reads, peerVars
<1>3. PICK m \in Nat, n \in Nat : m = Len(b) /\ n = Len(u) /\ m >= 1
  BY <1>2
<1>4. /\ Len(b \o u) = m + n
      /\ \A i \in 1 .. m + n : (b \o u)[i] = IF i <= m THEN b[i] ELSE u[i - m]
  BY <1>3, ConcatProperties
<1>5. Len(Ahead) >= 1 /\ Ahead[1] = buf[1] /\ buf[1] \in Part
  BY <1>1, <1>2, <1>3, <1>4 DEF Ahead
<1>6. Len(buf) > 1 => Len(Ahead) >= 2 /\ Ahead[2] = buf[2]
  BY <1>1, <1>3, <1>4 DEF Ahead
<1>7. ASSUME TakesPart \/ ~EatsLf PROVE Consumes(1)
  <2>1. buf' = Tail(buf)
    BY <1>7 DEF TakesPart, TakesEnd, ReadPart, ReadLineEnd, AfterLine, EatsLf
  <2>2. PICK c \in Seq(Part) : c = Tail(b) /\ Rest(c, b, 1)
    BY <1>2, RestTypes
  <2>3. buf' = c /\ Rest(c, buf, 1) /\ 1 <= Len(buf) /\ 1 \in Nat
    BY <1>1, <1>3, <2>1, <2>2
  <2>4. QED
    BY <1>2, <2>3, ReadsAhead
<1>8. ASSUME TakesEnd, EatsLf PROVE Consumes(2)
  <2>1. buf' = SubSeq(buf, 3, Len(buf)) /\ Len(buf) > 1
    BY <1>8 DEF TakesEnd, ReadLineEnd, AfterLine, EatsLf
  <2>2. PICK c \in Seq(Part) : c = SubSeq(b, 3, Len(b)) /\ Rest(c, b, 2)
    BY <1>1, <2>1, RestTypes
  <2>3. buf' = c /\ Rest(c, buf, 2) /\ 2 <= Len(buf) /\ 2 \in Nat
    BY <1>1, <1>3, <2>1, <2>2
  <2>4. QED
    BY <1>2, <2>3, ReadsAhead
<1>9. QED
  BY <1>5, <1>6, <1>7, <1>8

\* Every other step leaves all of what is ahead, or its end.
LEMMA ConsumesOrKeeps ==
    ASSUME QueueTypes, Idles \/ Fails \/ Executes1 \/ TakesPart \/ TakesEnd
    PROVE  \E k \in 0 .. Len(Ahead) : Consumes(k)
<1>1. CASE Idles \/ Fails
  <2>1. Ahead' = Ahead /\ script' = script /\ left' = left
    BY <1>1 DEF Idles, Fails
  <2>2. Rest(Ahead, Ahead, 0) /\ 0 \in 0 .. Len(Ahead)
    BY AheadTypes, RestTypes
  <2>3. QED
    BY <2>1, <2>2 DEF Consumes
<1>2. CASE Executes1
  <2>1. unread' = unread /\ script' = script /\ left' = left
    BY <1>2 DEF Executes1
  <2>2. CASE buf' = buf
    <3>1. Ahead' = Ahead
      BY <2>1, <2>2 DEF Ahead
    <3>2. Rest(Ahead, Ahead, 0) /\ 0 \in 0 .. Len(Ahead)
      BY AheadTypes, RestTypes
    <3>3. QED
      BY <2>1, <3>1, <3>2 DEF Consumes
  <2>3. CASE buf' = <<>>
    <3>1. buf \in Seq(Part)
      BY DEF QueueTypes
    <3>2. PICK c \in Seq(Part), k \in Nat : c = <<>> /\ k = Len(buf) /\ k <= Len(buf) /\ Rest(c, buf, k)
      <4>1. <<>> \in Seq(Part) /\ Rest(<<>>, buf, Len(buf)) /\ Len(buf) \in Nat
        BY <3>1, RestTypes
      <4>2. PICK k \in Nat : k = Len(buf) /\ k <= Len(buf)
        BY <4>1
      <4>3. Rest(<<>>, buf, k)
        BY <4>1, <4>2
      <4>4. QED
        BY <4>1, <4>2, <4>3
    <3>3. buf' = c
      BY <2>3, <3>2
    <3>4. k \in 0 .. Len(Ahead) /\ Consumes(k)
      BY <2>1, <3>2, <3>3, ReadsAhead
    <3>5. QED
      BY <3>4
  <2>4. QED
    BY <1>2, <2>2, <2>3 DEF Executes1
<1>3. CASE TakesPart \/ TakesEnd
  <2>1. Len(Ahead) \in Nat /\ Len(Ahead) >= 1 /\ (Len(buf) > 1 => Len(Ahead) >= 2)
    BY <1>3, AheadTypes, TakesAhead
  <2>2. Consumes(1) \/ (Consumes(2) /\ Len(buf) > 1)
    BY <1>3, TakesAhead DEF EatsLf
  <2>3. QED
    BY <2>1, <2>2
<1>4. QED
  BY <1>1, <1>2, <1>3

LEMMA NoHolesStep ==
    ASSUME Control, Control', NoHoles, [Next]_vars
    PROVE  NoHoles'
<1>1. SendingTypes /\ SendingTypes' /\ QueueTypes /\ QueueTypes'
  BY DEF Control, ControlTypes, SendingTypes, QueueTypes
<1>2. PICK l \in Nat : l = Len(Ahead) /\ Ahead \in Seq(Part)
  BY <1>1, AheadTypes
<1>3. \A part \in Part : \A other : Follows(part, other)' <=> Follows(part, other)
  <2>1. \A part \in Part : PartsOf(part[1])' = PartsOf(part[1])
    BY <1>1, PartsKept, PartIs
  <2>2. QED
    BY <2>1 DEF Follows
<1>4. CASE PeerSent
  <2>1. PICK p \in Part' : p = LastSent' /\ Ahead' = Append(Ahead, p)
    BY <1>1, <1>4, SentFollows
  <2>2. /\ Len(Ahead') = l + 1 /\ Ahead'[l + 1] = p
        /\ \A i \in 1 .. l : Ahead'[i] = Ahead[i] /\ Ahead[i] \in Part
    BY <1>2, <2>1
  <2>3. ASSUME NEW i \in 1 .. l, NEW q, q = Ahead'[i + 1]
        PROVE  Follows(Ahead[i], q)
    <3>1. CASE i < l
      <4>1. i \in 1 .. Len(Ahead) - 1 /\ q = Ahead[i + 1]
        BY <1>2, <2>2, <2>3, <3>1
      <4>2. QED
        BY <4>1 DEF NoHoles
    <3>2. CASE i = l
      <4>1. Ahead # <<>> /\ Ahead[l] = LastSent /\ q = p
        BY <1>2, <2>2, <2>3, <3>2 DEF NoHoles
      <4>2. script # <<>>
        <5>1. Ahead[l] \in Part
          BY <2>2, <3>2
        <5>2. Ahead[l][1] \in Messages
          BY <1>1, <5>1, PartIs
        <5>3. QED
          BY <5>2 DEF Messages
      <4>3. Follows(LastSent, p)
        <5>1. Follows(LastSent, LastSent')
          BY <1>1, <1>4, <4>2, SentFollows
        <5>2. QED
          BY <2>1, <5>1
      <4>4. QED
        BY <3>2, <4>1, <4>3
    <3>3. QED
      BY <3>1, <3>2
  <2>4. ASSUME NEW i \in 1 .. Len(Ahead') - 1 PROVE Follows(Ahead[i], Ahead[i + 1])'
    <3>1. i \in 1 .. l
      BY <2>2
    <3>2. Follows(Ahead[i], Ahead'[i + 1]) /\ Ahead'[i] = Ahead[i] /\ Ahead[i] \in Part
      BY <2>2, <2>3, <3>1
    <3>3. QED
      BY <1>3, <3>2
  <2>5. Ahead'[Len(Ahead')] = LastSent'
    BY <2>1, <2>2
  <2>6. QED
    BY <2>4, <2>5 DEF NoHoles
<1>5. ASSUME NEW k \in 0 .. Len(Ahead), Consumes(k) PROVE NoHoles'
  <2>1. /\ Len(Ahead') = l - k
        /\ \A i \in 1 .. l - k : Ahead'[i] = Ahead[k + i] /\ k + i \in 1 .. l /\ Ahead[k + i] \in Part
    <3>1. Len(Ahead') = l - k /\ \A i \in 1 .. l - k : Ahead'[i] = Ahead[k + i]
      BY <1>2, <1>5 DEF Consumes, Rest
    <3>2. \A i \in 1 .. l - k : k + i \in 1 .. l
      BY <1>2
    <3>3. QED
      BY <1>2, <3>1, <3>2
  <2>2. LastSent' = LastSent
    BY <1>5 DEF Consumes, LastSent, PartsOf
  <2>3. ASSUME NEW i \in 1 .. Len(Ahead') - 1 PROVE Follows(Ahead[i], Ahead[i + 1])'
    <3>1. i \in 1 .. l - k /\ i + 1 \in 1 .. l - k /\ k + i \in 1 .. l - 1 /\ k + (i + 1) = (k + i) + 1
      BY <1>2, <2>1
    <3>2. Follows(Ahead[k + i], Ahead[(k + i) + 1])
      BY <1>2, <3>1 DEF NoHoles
    <3>3. Ahead'[i] = Ahead[k + i] /\ Ahead'[i + 1] = Ahead[(k + i) + 1] /\ Ahead[k + i] \in Part
      <4>1. Ahead'[i + 1] = Ahead[k + (i + 1)]
        BY <2>1, <3>1
      <4>2. QED
        BY <2>1, <3>1, <4>1
    <3>4. QED
      BY <1>3, <3>2, <3>3
  <2>4. ASSUME Ahead' # <<>> PROVE Ahead'[Len(Ahead')] = LastSent'
    <3>1. PICK n \in Nat : n = Len(Ahead') /\ n = l - k
      <4>1. l - k \in Nat
        BY <1>2
      <4>2. QED
        BY <2>1, <4>1
    <3>2. n # 0
      <4>1. Ahead' \in Seq(Part')
        BY <1>1, AheadTypesNext
      <4>2. ASSUME NEW T, NEW a \in Seq(T), a # <<>> PROVE Len(a) # 0
        BY <4>2
      <4>3. QED
        BY <2>4, <3>1, <4>1, <4>2
    <3>3. n \in 1 .. l - k /\ k + n = l /\ Ahead # <<>>
      BY <1>2, <3>1, <3>2
    <3>4. Ahead[l] = LastSent
      BY <1>2, <3>3 DEF NoHoles
    <3>5. QED
      BY <2>1, <2>2, <3>1, <3>3, <3>4
  <2>5. QED
    BY <2>3, <2>4 DEF NoHoles
<1>6. QED
  BY <1>1, <1>4, <1>5, StreamEffect, ConsumesOrKeeps

LEMMA ReadsWhileTaking ==
    ASSUME TakesPart \/ TakesEnd
    PROVE  reading = "reads" /\ buf # <<>> /\ Reads
  BY DEF TakesPart, TakesEnd, ReadPart, ReadLineEnd, Reads

\* A line that is not astray begins with the command it is taken for.
LEMMA OwnLine ==
    ASSUME NEW l \in Seq(Part), l # <<>>, ~Astray(l)
    PROVE  l[1][1] \in Commands /\ l[1] = <<l[1][1], 1>>
<1>1. l[1] \in Part
  OBVIOUS
<1>2. QED
  BY <1>1 DEF Astray, Part, Commands

\* A line that stays is what it was.
LEMMA LineStays ==
    ASSUME SendingTypes, QueueTypes, [Next]_vars, line' = line
    PROVE  (Astray(line)' <=> Astray(line)) /\ Message' = Message
<1>1. PICK l \in Seq(Part) : l = line /\ l = line'
  BY DEF QueueTypes
<1>2. Astray(l)' <=> Astray(l)
  BY StepGrows, AstrayKept DEF SendingTypes
<1>3. Astray(line)' <=> Astray(line)
  BY <1>1, <1>2 DEF Astray
<1>4. QED
  BY <1>3 DEF Message

\* The next part of a line is the command's next part.
LEMMA LineTakes ==
    ASSUME Control, LineIs, TakesPart \/ TakesEnd, InCommand, ~Astray(Append(line, buf[1]))
    PROVE  \E m \in Commands, n \in Nat \ {0}, l \in Seq(Part) :
              /\ l = Append(line, buf[1]) /\ buf[1] = <<m, n>> /\ n <= PartsOf(m)
              /\ Len(l) = n /\ \A i \in 1 .. n : l[i] = <<m, i>>
              /\ \A i \in 1 .. n - 1 : ~EndsLine(<<m, i>>)
              /\ line # <<>> => Message = m
              /\ line = <<>> => n = 1
<1>1. SendingTypes /\ QueueTypes /\ LineBegun /\ line \in Seq(Part)
  BY ControlParts DEF Control, QueueTypes
<1>2. /\ reading = "reads" /\ Reads /\ buf[1] \in Part
      /\ Len(Ahead) >= 1 /\ Ahead[1] = buf[1]
  BY <1>1, ReadsWhileTaking, TakesAhead
<1>3. PICK l \in Seq(Part) : l = Append(line, buf[1])
  <2>1. Append(line, buf[1]) \in Seq(Part)
    BY <1>1, <1>2
  <2>2. QED
    BY <2>1
<1>4. CASE line = <<>>
  <2>1. l = <<buf[1]>> /\ Len(l) = 1 /\ l[1] = buf[1]
    BY <1>2, <1>3, <1>4
  <2>2. buf[1][1] \in Commands /\ buf[1][2] = 1
    <3>1. l # <<>> /\ ~Astray(l)
      BY <1>3, <2>1
    <3>2. l[1][1] \in Commands /\ l[1] = <<l[1][1], 1>>
      BY <3>1, OwnLine
    <3>3. QED
      BY <2>1, <3>2
  <2>3. PICK m \in Commands : buf[1] = <<m, 1>> /\ 1 <= PartsOf(m)
    BY <1>1, <1>2, <2>2, PartIs
  <2>4. PICK n \in Nat \ {0} : n = 1
    OBVIOUS
  <2>5. \A i \in 1 .. n : l[i] = <<m, i>>
    BY <2>1, <2>3, <2>4
  <2>6. \A i \in 1 .. n - 1 : ~EndsLine(<<m, i>>)
    BY <2>4
  <2>7. Len(l) = n /\ buf[1] = <<m, n>> /\ n <= PartsOf(m)
    BY <2>1, <2>3, <2>4
  <2>8. QED
    BY <1>3, <1>4, <2>4, <2>5, <2>6, <2>7
<1>5. CASE line # <<>>
  <2>10. ~Astray(line)
    <3>1. l # <<>> /\ l[1] = line[1]
      BY <1>1, <1>2, <1>3, <1>5
    <3>2. QED
      BY <1>3, <3>1 DEF Astray
  <2>1. PICK m \in Commands : m = Message
    BY <1>1, <1>5, <2>10, OwnLine DEF Message
  <2>2. PICK k \in Nat \ {0} : k = Len(line)
    BY <1>1, <1>5
  <2>3. /\ \A i \in 1 .. k : line[i] = <<m, i>> /\ ~EndsLine(<<m, i>>)
        /\ NextIs(m, k + 1)
    BY <1>2, <1>5, <2>1, <2>2, <2>10 DEF LineIs
  <2>4. buf[1] = <<m, k + 1>>
    <3>1. Ahead # <<>>
      BY <1>2
    <3>2. QED
      BY <1>2, <2>3, <3>1 DEF NextIs
  <2>5. k + 1 <= PartsOf(m)
    BY <1>1, <1>2, <2>4, PartIs
  <2>6. Len(l) = k + 1 /\ \A i \in 1 .. k + 1 : l[i] = <<m, i>>
    <3>1. /\ Len(l) = k + 1 /\ l[k + 1] = buf[1]
          /\ \A i \in 1 .. k : l[i] = line[i]
      BY <1>1, <1>2, <1>3, <2>2
    <3>2. \A i \in 1 .. k + 1 : i \in 1 .. k \/ i = k + 1
      OBVIOUS
    <3>3. QED
      BY <2>3, <2>4, <3>1, <3>2
  <2>7. \A i \in 1 .. (k + 1) - 1 : ~EndsLine(<<m, i>>)
    BY <2>3
  <2>8. k + 1 \in Nat \ {0}
    OBVIOUS
  <2>9. QED
    BY <1>3, <1>5, <2>1, <2>4, <2>5, <2>6, <2>7, <2>8
<1>6. QED
  BY <1>4, <1>5

\* What comes next is what follows, sent already or not.
LEMMA NextAfterSent ==
    ASSUME SendingTypes, SendingTypes', QueueTypes, PeerSent, [Next]_vars,
           NEW m \in Messages, NEW n \in Nat \ {0}, n <= PartsOf(m), n > 1, NextIs(m, n)
    PROVE  NextIs(m, n)'
<1>1. PICK p : p = LastSent' /\ Ahead' = Append(Ahead, p) /\ p \in Part'
  BY SentFollows
<1>2. Ahead \in Seq(Part)
  BY AheadTypes
<1>3. Ahead' # <<>>
  BY <1>1, <1>2
<1>4. CASE Ahead = <<>>
  <2>1. LastSent = <<m, n - 1>> /\ n - 1 < PartsOf(m)
    <3>1. PartsOf(m) \in Nat
      <4>1. <<m, n>> \in Part
        BY DEF Part, PartsOf
      <4>2. QED
        BY <4>1, PartIs
    <3>2. QED
      BY <1>4, <3>1 DEF NextIs
  <2>2. script # <<>>
    BY DEF Messages
  <2>3. Follows(LastSent, LastSent')
    BY <2>2, SentFollows
  <2>4. p = <<m, (n - 1) + 1>>
    BY <1>1, <2>1, <2>3 DEF Follows
  <2>5. Ahead' = <<p>>
    BY <1>1, <1>4
  <2>6. Ahead'[1] = <<m, n>>
    BY <2>4, <2>5
  <2>7. QED
    BY <1>3, <2>6 DEF NextIs
<1>5. CASE Ahead # <<>>
  <2>1. Ahead'[1] = Ahead[1]
    BY <1>1, <1>2, <1>5
  <2>2. QED
    BY <1>3, <1>5, <2>1 DEF NextIs
<1>6. QED
  BY <1>4, <1>5

LEMMA NextAfterRead ==
    ASSUME SendingTypes, QueueTypes, QueueTypes', NoHoles, Consumes(1),
           NEW m \in Messages, NEW n \in Nat \ {0}, n < PartsOf(m), PartsOf(m) \in Nat,
           Len(Ahead) >= 1, Ahead[1] = <<m, n>>
    PROVE  NextIs(m, n + 1)'
<1>1. PICK l \in Nat \ {0} : l = Len(Ahead)
  BY AheadTypes
<1>2. Len(Ahead') = l - 1 /\ \A i \in 1 .. l - 1 : Ahead'[i] = Ahead[1 + i]
  BY <1>1 DEF Consumes, Rest
<1>3. CASE l = 1
  <2>1. Ahead' = <<>>
    <3>1. Ahead' \in Seq(Part') /\ Len(Ahead') = 0
      BY <1>2, <1>3, AheadTypesNext
    <3>2. ASSUME NEW T, NEW a \in Seq(T), Len(a) = 0 PROVE a = <<>>
      BY <3>2
    <3>3. QED
      BY <3>1, <3>2
  <2>2. LastSent = <<m, n>>
    BY <1>1, <1>3 DEF NoHoles
  <2>3. LastSent' = LastSent
    BY DEF Consumes, LastSent, PartsOf
  <2>4. (n + 1) - 1 = n
    OBVIOUS
  <2>5. QED
    BY <2>1, <2>2, <2>3, <2>4 DEF NextIs
<1>4. CASE l > 1
  <2>1. 1 \in 1 .. l - 1
    BY <1>4
  <2>2. Follows(Ahead[1], Ahead[1 + 1])
    BY <1>1, <2>1 DEF NoHoles
  <2>3. Ahead[2] = <<m, n + 1>>
    BY <2>2 DEF Follows
  <2>4. Ahead'[1] = <<m, n + 1>> /\ Ahead' # <<>>
    BY <1>2, <1>4, <2>1, <2>3
  <2>5. QED
    BY <2>4 DEF NextIs
<1>5. QED
  BY <1>1, <1>3, <1>4

\* A line that stays, stays as it is.
LEMMA LineKept ==
    ASSUME SendingTypes, QueueTypes, [Next]_vars, LineIs, line' = line,
           reading' = "reads" => reading = "reads",
           line # <<>> /\ ~Astray(line) /\ reading' = "reads" => NextIs(Message, Len(line) + 1)'
    PROVE  LineIs'
<1>1. line \in Seq(Part)
  BY DEF QueueTypes
<1>2. \A i \in 1 .. Len(line) : line[i] \in Part /\ (EndsLine(line[i])' <=> EndsLine(line[i]))
  <2>1. ASSUME NEW i \in 1 .. Len(line), NEW part \in Part, part = line[i]
        PROVE  EndsLine(line[i])' <=> EndsLine(line[i])
    <3>1. part = line'[i] /\ (EndsLine(part)' <=> EndsLine(part))
      BY <2>1, PartsKept
    <3>2. QED
      BY <2>1, <3>1
  <2>2. QED
    BY <1>1, <2>1
<1>3. (Astray(line)' <=> Astray(line)) /\ Message' = Message
  BY LineStays
<1>4. QED
  BY <1>2, <1>3 DEF LineIs

LEMMA LineIsStep ==
    ASSUME Control, Control', NoHoles, LineIs, [Next]_vars
    PROVE  LineIs'
<1>1. /\ SendingTypes /\ SendingTypes' /\ QueueTypes /\ QueueTypes' /\ LineBegun
      /\ line \in Seq(Part)
  BY DEF Control, ControlTypes, SendingTypes, QueueTypes
<1>2. line # <<>> /\ ~Astray(line) => Message \in Commands /\ Message \in Messages
  BY <1>1, OwnLine DEF Message, Commands
<1>3. CASE PeerSent
  <2>1. line' = line /\ reading' = reading
    BY <1>3 DEF PeerSent, Sent
  <2>2. ASSUME line # <<>>, ~Astray(line), reading = "reads" PROVE NextIs(Message, Len(line) + 1)'
    <3>1. PICK m \in Commands, n \in Nat \ {0} : m = Message /\ n = Len(line)
      BY <1>1, <1>2, <2>2
    <3>2. /\ NextIs(m, n + 1)
          /\ line[n] = <<m, n>> /\ ~EndsLine(<<m, n>>) /\ line[n] \in Part
      BY <1>1, <2>2, <3>1 DEF LineIs
    <3>3. n < PartsOf(m)
      <4>1. PartsOf(m) \in Nat /\ n <= PartsOf(m)
        BY <1>1, <3>2, PartIs
      <4>2. n # PartsOf(m)
        BY <1>1, <3>2, CommandParts
      <4>3. QED
        BY <4>1, <4>2
    <3>4. n + 1 \in Nat \ {0} /\ n + 1 <= PartsOf(m) /\ n + 1 > 1 /\ m \in Messages
      <4>1. PartsOf(m) \in Nat
        BY <1>1, CommandParts
      <4>2. QED
        BY <3>3, <4>1 DEF Commands
    <3>5. NextIs(m, n + 1)'
      BY <1>1, <1>3, <3>2, <3>4, NextAfterSent
    <3>6. Message' = m /\ Len(line') = n
      BY <1>1, <2>1, <3>1, LineStays
    <3>7. QED
      BY <3>5, <3>6
  <2>3. QED
    BY <1>1, <2>1, <2>2, LineKept
<1>4. CASE Idles
  <2>1. line' = line /\ reading' = reading /\ Message' = Message
    BY <1>1, <1>4, LineStays DEF Idles
  <2>2. \A m, n : NextIs(m, n)' <=> NextIs(m, n)
    BY <1>4 DEF Idles, NextIs, LastSent, PartsOf
  <2>3. ASSUME line # <<>>, ~Astray(line), reading = "reads" PROVE NextIs(Message, Len(line) + 1)'
    <3>1. PICK m, n : m = Message /\ n = Len(line) + 1 /\ NextIs(m, n)
      BY <2>3 DEF LineIs
    <3>2. NextIs(m, n)' /\ m = Message' /\ n = Len(line') + 1
      BY <2>1, <2>2, <3>1
    <3>3. QED
      BY <3>2
  <2>4. QED
    BY <1>1, <2>1, <2>3, LineKept
<1>5. CASE (TakesPart \/ TakesEnd) /\ InCommand
  <2>8. line' = Append(line, buf[1]) /\ script' = script
    BY <1>5 DEF TakesPart, TakesEnd, ReadPart, ReadLineEnd, peerVars
  <2>9. SUFFICES ASSUME ~Astray(line)' PROVE LineIs'
    BY DEF LineIs
  <2>10. ~Astray(Append(line, buf[1]))
    BY <2>8, <2>9 DEF Astray
  <2>1. PICK m \in Commands, n \in Nat \ {0}, l \in Seq(Part) :
           /\ l = Append(line, buf[1]) /\ buf[1] = <<m, n>> /\ n <= PartsOf(m)
           /\ Len(l) = n /\ \A i \in 1 .. n : l[i] = <<m, i>>
           /\ \A i \in 1 .. n - 1 : ~EndsLine(<<m, i>>)
    BY <1>5, <2>10, LineTakes
  <2>2. line' = l
    BY <2>1, <2>8
  <2>3. Message' = m
    <3>1. 1 \in 1 .. n /\ l[1] = <<m, 1>>
      BY <2>1
    <3>2. line'[1][1] = m
      BY <2>2, <3>1
    <3>3. QED
      BY <2>9, <3>2 DEF Message
  <2>4. CASE TakesEnd
    <3>1. reading' = "returned"
      BY <1>5, <2>4 DEF TakesEnd, ReadLineEnd
    <3>2. QED
      BY <2>1, <2>2, <2>3, <3>1 DEF LineIs
  <2>5. CASE TakesPart
    <3>1. ~EndsLine(<<m, n>>)
      BY <2>1, <2>5 DEF TakesPart, ReadPart
    <3>2. \A i \in 1 .. n : i \in 1 .. n - 1 \/ i = n
      OBVIOUS
    <3>3. \A i \in 1 .. n : ~EndsLine(<<m, i>>) /\ <<m, i>> \in Part
      <4>1. \A i \in 1 .. n : l[i] \in Part
        <5>1. ASSUME NEW T, NEW a \in Seq(T), Len(a) = n PROVE \A i \in 1 .. n : a[i] \in T
          BY <5>1
        <5>2. QED
          BY <2>1, <5>1
      <4>2. QED
        BY <2>1, <3>1, <3>2, <4>1
    <3>4. ASSUME NEW i \in 1 .. n PROVE ~EndsLine(line[i])'
      <4>1. PICK part \in Part : part = <<m, i>> /\ ~EndsLine(part)
        BY <3>3
      <4>2. ~EndsLine(part)'
        BY <1>1, <4>1, PartsKept
      <4>3. line'[i] = part
        BY <2>1, <2>2, <4>1
      <4>4. QED
        BY <4>2, <4>3
    <3>5. n < PartsOf(m) /\ PartsOf(m) \in Nat
      <4>1. PartsOf(m) \in Nat /\ EndsLine(<<m, PartsOf(m)>>)
        BY <1>1, CommandParts
      <4>2. QED
        BY <2>1, <3>1, <4>1
    <3>6. NextIs(m, n + 1)'
      <4>1. Len(Ahead) >= 1 /\ Ahead[1] = <<m, n>> /\ Consumes(1)
        BY <1>1, <2>1, <2>5, TakesAhead
      <4>2. m \in Messages
        BY DEF Commands
      <4>3. QED
        BY <1>1, <3>5, <4>1, <4>2, NextAfterRead
    <3>7. NextIs(Message, Len(line) + 1)'
      BY <2>1, <2>2, <2>3, <3>6
    <3>8. QED
      BY <2>1, <2>2, <2>3, <3>4, <3>7 DEF LineIs
  <2>6. QED
    BY <1>5, <2>4, <2>5
<1>6. CASE (TakesPart \/ TakesEnd) /\ ~InCommand
  <2>1. line = <<>>
    BY <1>6 DEF InCommand
  <2>2. line' = <<>>
    BY <1>6, <2>1 DEF TakesPart, TakesEnd, ReadPart, ReadLineEnd, Again
  <2>3. QED
    BY <2>2 DEF LineIs
<1>7. CASE Fails
  <2>1. line' = <<>> \/ (line' = line /\ reading' = "failed")
    BY <1>7 DEF Fails
  <2>2. QED
    BY <1>1, <2>1, LineKept DEF LineIs
<1>8. CASE Executes1
  <2>1. line' = <<>> \/ (line' = line /\ reading' = "returned")
    BY <1>8 DEF Executes1
  <2>2. QED
    BY <1>1, <2>1, LineKept DEF LineIs
<1>9. QED
  BY <1>3, <1>4, <1>5, <1>6, <1>7, <1>8, StreamEffect

\* What is kept as data are parts of messages that were sent.
KeptTypes == {skipped, allSkipped, presets} \subseteq Seq(Part)

\* What a line end adds to the data: the line's own part only if it is no command's.
LEMMA EndKeeps ==
    ASSUME TakesEnd
    PROVE  /\ skipped' = <<>> /\ presets' = presets /\ lost' = lost
           /\ \/ allSkipped' \in {allSkipped, allSkipped \o skipped}
              \/ ~InCommand /\ allSkipped' = allSkipped \o Append(skipped, buf[1])
  BY DEF TakesEnd, ReadLineEnd, Again, SkippedAfter, handlerVars

LEMMA KeptStep ==
    ASSUME Control, KeptTypes, [Next]_vars
    PROVE  KeptTypes'
<1>1. SendingTypes /\ QueueTypes
  BY ControlParts DEF Control
<1>2. Part \subseteq Part' /\ Seq(Part) \subseteq Seq(Part')
  <2>1. Part \subseteq Part'
    BY <1>1, PartsKept
  <2>2. QED
    BY <2>1
<1>3. skipped \in Seq(Part) /\ allSkipped \in Seq(Part) /\ presets \in Seq(Part) /\ <<>> \in Seq(Part)
  BY DEF KeptTypes
<1>4. ASSUME NEW a \in Seq(Part), NEW b \in Seq(Part) PROVE a \o b \in Seq(Part)
  OBVIOUS
<1>5. SUFFICES skipped' \in Seq(Part) /\ allSkipped' \in Seq(Part) /\ presets' \in Seq(Part)
  BY <1>2 DEF KeptTypes
<1>6. CASE TakesPart \/ TakesEnd
  <2>1. buf[1] \in Part
    BY <1>1, <1>6, TakesAhead
  <2>2. PICK s \in Seq(Part) : s = Append(skipped, buf[1])
    <3>1. Append(skipped, buf[1]) \in Seq(Part)
      BY <1>3, <2>1
    <3>2. QED
      BY <3>1
  <2>3. CASE TakesPart
    BY <1>3, <2>2, <2>3 DEF TakesPart, ReadPart, handlerVars
  <2>4. CASE TakesEnd
    BY <1>3, <1>4, <2>2, <2>4, EndKeeps
  <2>5. QED
    BY <1>6, <2>3, <2>4
<1>7. CASE PeerSent \/ Idles
  BY <1>3, <1>7 DEF PeerSent, Idles
<1>8. CASE Fails
  BY <1>3, <1>4, <1>8 DEF Fails
<1>9. CASE Executes1
  BY <1>3, <1>4, <1>9 DEF Executes1
<1>10. QED
  BY <1>6, <1>7, <1>8, <1>9, StreamEffect

\* The first part of a command begins a line, unless an error cuts it there.
LEMMA FirstBegins ==
    ASSUME Control, NoHoles, TakesPart \/ TakesEnd, NEW m \in Commands, buf[1] = <<m, 1>>
    PROVE  InCommand \/ m \in torn'
<1>1. SendingTypes /\ QueueTypes
  BY ControlParts DEF Control
<1>2. \/ IsPrefix(AT, Bytes(<<m, 1>>))
      \/ /\ Bytes(<<m, 1>>) = <<AT[1]>>
         /\ PartsOf(m) > 1 /\ Head(Bytes(<<m, 2>>)) = AT[2]
         /\ ~EndsLine(<<m, 1>>)
  BY <1>1, CommandParts
<1>3. CASE IsPrefix(AT, Bytes(<<m, 1>>))
  BY <1>3 DEF InCommand
<1>4. CASE /\ Bytes(<<m, 1>>) = <<AT[1]>>
           /\ PartsOf(m) > 1 /\ Head(Bytes(<<m, 2>>)) = AT[2]
           /\ ~EndsLine(<<m, 1>>)
  <2>1. Blocked => m \in torn'
    BY <1>4 DEF TakesPart, TakesEnd, ReadPart, ReadLineEnd
  <2>2. CASE line = <<>> /\ Len(buf) = 1
    <3>1. Blocked
      BY <1>4, <2>2 DEF Blocked, Peeks
    <3>2. QED
      BY <2>1, <3>1
  <2>3. CASE line # <<>>
    BY <2>3 DEF InCommand
  <2>4. CASE line = <<>> /\ Len(buf) # 1
    <3>1. Len(buf) \in Nat /\ Len(buf) > 1
      <4>1. buf \in Seq(Part) /\ buf # <<>>
        BY <1>1, ReadsWhileTaking DEF QueueTypes
      <4>2. ASSUME NEW T, NEW b \in Seq(T), b # <<>>, Len(b) # 1 PROVE Len(b) \in Nat /\ Len(b) > 1
        <5>1. PICK n \in Nat : n = Len(b) /\ n # 0
          BY <4>2
        <5>2. n # 1
          BY <4>2, <5>1
        <5>3. n > 1
          BY <5>1, <5>2
        <5>4. QED
          BY <5>1, <5>3
      <4>3. QED
        BY <2>4, <4>1, <4>2
    <3>2. Ahead[1] = buf[1] /\ Ahead[2] = buf[2] /\ Len(Ahead) >= 2 /\ Len(Ahead) \in Nat
      BY <1>1, <3>1, TakesAhead, AheadTypes
    <3>3. Follows(Ahead[1], Ahead[1 + 1])
      <4>1. 1 \in 1 .. Len(Ahead) - 1
        BY <3>2
      <4>2. QED
        BY <4>1 DEF NoHoles
    <3>4. buf[2] = <<m, 2>>
      BY <1>4, <3>2, <3>3 DEF Follows
    <3>5. QED
      BY <1>4, <3>1, <3>4 DEF InCommand
  <2>5. QED
    BY <2>2, <2>3, <2>4
<1>5. QED
  BY <1>2, <1>3, <1>4

LEMMA SkippedBeforeStep ==
    ASSUME Control, Control', KeptTypes, AheadInOrder, SkippedBefore, [Next]_vars
    PROVE  SkippedBefore'
<1>1. SendingTypes /\ SendingTypes' /\ QueueTypes /\ Part \subseteq Nat \X Nat
  <2>1. SendingTypes /\ QueueTypes
    BY ControlParts DEF Control
  <2>2. SendingTypes'
    BY DEF Control, ControlTypes, SendingTypes
  <2>3. Part \subseteq Nat \X Nat
    BY DEF Part, Messages
  <2>4. QED
    BY <2>1, <2>2, <2>3
<1>2. PICK s \in Seq(Part), l \in Nat : s = skipped /\ l = Len(Ahead) /\ Ahead \in Seq(Part)
  BY <1>1, AheadTypes DEF KeptTypes
<1>3. \A i \in 1 .. Len(s) : s[i] \in Part /\ s[i] \in Nat \X Nat
  BY <1>1, <1>2
<1>4. CASE PeerSent
  <2>1. PICK p \in Part' :
           /\ Ahead' = Append(Ahead, p)
           /\ \A q \in Nat \X Nat : Arrived(q) => Before(q, p) /\ Arrived(q)'
    BY <1>1, <1>4, SentAfter DEF PeerSent
  <2>2. Len(Ahead') = l + 1 /\ Ahead'[l + 1] = p /\ \A i \in 1 .. l : Ahead'[i] = Ahead[i]
    BY <1>2, <2>1
  <2>3. line' = line /\ reading' = reading /\ skipped' = s
    BY <1>2, <1>4 DEF PeerSent, Sent
  <2>4. ASSUME reading = "reads", NEW i \in 1 .. Len(s), NEW q \in Nat \X Nat, q = s[i]
        PROVE  /\ Arrived(q)'
               /\ line # <<>> => Before(q, line[1])
               /\ \A j \in 1 .. l + 1 : Before(q, Ahead'[j])
    <3>1. Arrived(q) /\ (\A j \in 1 .. l : Before(q, Ahead[j])) /\ (line # <<>> => Before(q, line[1]))
      BY <1>2, <2>4 DEF SkippedBefore
    <3>2. Before(q, p) /\ Arrived(q)'
      BY <2>1, <3>1
    <3>3. \A j \in 1 .. l + 1 : j \in 1 .. l \/ j = l + 1
      OBVIOUS
    <3>4. QED
      BY <2>2, <3>1, <3>2, <3>3
  <2>5. ASSUME reading' = "reads", NEW i \in 1 .. Len(skipped')
        PROVE  /\ Arrived(skipped[i])'
               /\ \A j \in 1 .. Len(Ahead') : Before(skipped[i], Ahead[j])'
               /\ line' # <<>> => Before(skipped[i], line[1])'
    <3>1. PICK q \in Nat \X Nat : q = s[i] /\ q = skipped'[i]
      BY <1>3, <2>3, <2>5
    <3>2. /\ Arrived(q)'
          /\ line # <<>> => Before(q, line[1])
          /\ \A j \in 1 .. l + 1 : Before(q, Ahead'[j])
      BY <2>3, <2>4, <2>5, <3>1
    <3>3. Arrived(skipped[i])'
      BY <3>1, <3>2 DEF Arrived
    <3>4. \A j \in 1 .. Len(Ahead') : Before(skipped[i], Ahead[j])'
      BY <2>2, <3>1, <3>2 DEF Before
    <3>5. line' # <<>> => Before(skipped[i], line[1])'
      BY <2>3, <3>1, <3>2 DEF Before
    <3>6. QED
      BY <3>3, <3>4, <3>5
  <2>6. QED
    BY <2>5 DEF SkippedBefore
<1>5. CASE Idles
  BY <1>5 DEF Idles, SkippedBefore, Arrived
<1>6. CASE TakesPart
  <2>1. Consumes(1) /\ Ahead[1] = buf[1] /\ reading = "reads" /\ l >= 1
    BY <1>1, <1>2, <1>6, TakesAhead, ReadsWhileTaking
  <2>2. Len(Ahead') = l - 1 /\ \A j \in 1 .. l - 1 : Ahead'[j] = Ahead[1 + j] /\ 1 + j \in 1 .. l
    BY <1>2, <2>1 DEF Consumes, Rest
  <2>3. \A q : Arrived(q)' <=> Arrived(q)
    BY <2>1 DEF Consumes, Arrived
  <2>4. \A i \in 1 .. Len(s) :
           /\ Arrived(s[i]) /\ Before(s[i], Ahead[1])
           /\ \A j \in 1 .. l - 1 : Before(s[i], Ahead'[j])
           /\ line # <<>> => Before(s[i], line[1])
    BY <1>2, <2>1, <2>2 DEF SkippedBefore
  <2>5. CASE InCommand
    <3>1. skipped' = s /\ line' = Append(line, Ahead[1])
      BY <1>2, <1>6, <2>1, <2>5 DEF TakesPart, ReadPart
    <3>2. line'[1] = IF line = <<>> THEN Ahead[1] ELSE line[1]
      <4>1. line \in Seq(Part) /\ Ahead[1] \in Part
        BY <1>1, <1>2, <2>1 DEF QueueTypes
      <4>2. QED
        BY <3>1, <4>1
    <3>3. \A i \in 1 .. Len(s) : Before(s[i], line'[1])
      BY <2>4, <3>2
    <3>4. QED
      BY <2>2, <2>3, <2>4, <3>1, <3>3 DEF SkippedBefore
  <2>6. CASE ~InCommand
    <3>1. skipped' = Append(s, Ahead[1]) /\ line' = <<>>
      BY <1>2, <1>6, <2>1, <2>6 DEF TakesPart, ReadPart, InCommand
    <3>2. PICK k \in Nat : k = Len(s)
      BY <1>2
    <3>3. /\ Len(skipped') = k + 1 /\ skipped'[k + 1] = Ahead[1]
          /\ \A i \in 1 .. k : skipped'[i] = s[i]
      BY <1>2, <3>1, <3>2
    <3>4. Arrived(Ahead[1]) /\ \A j \in 1 .. l - 1 : Before(Ahead[1], Ahead'[j])
      BY <1>2, <2>1, <2>2 DEF AheadInOrder
    <3>5. \A i \in 1 .. k + 1 : i \in 1 .. k \/ i = k + 1
      OBVIOUS
    <3>6. \A i \in 1 .. k + 1 : Arrived(skipped'[i]) /\ \A j \in 1 .. l - 1 : Before(skipped'[i], Ahead'[j])
      BY <2>4, <3>2, <3>3, <3>4, <3>5
    <3>7. QED
      BY <2>2, <2>3, <3>1, <3>3, <3>6 DEF SkippedBefore
  <2>7. QED
    BY <2>5, <2>6
<1>7. CASE TakesEnd \/ Fails \/ Executes1
  <2>1. skipped' = <<>> \/ reading' # "reads"
    BY <1>7, EndKeeps DEF Fails, Executes1
  <2>2. QED
    BY <2>1 DEF SkippedBefore
<1>8. QED
  BY <1>4, <1>5, <1>6, <1>7, StreamEffect

\* A command ends with its last part, and stays ended.
LEMMA EndsHere ==
    ASSUME SendingTypes, QueueTypes, AheadInOrder, NEW k \in Nat \ {0}, k <= Len(Ahead), Consumes(k),
           NEW e \in 1 .. k, NEW m \in Commands, Ahead[e] = <<m, PartsOf(m)>>
    PROVE  Ended(m)'
<1>1. PICK l \in Nat, n \in Nat : l = Len(Ahead) /\ n = PartsOf(m) /\ Ahead \in Seq(Part) /\ m \in Nat
  <2>1. m \in Nat
    BY DEF Commands, Messages
  <2>2. QED
    BY <2>1, AheadTypes, CommandParts
<1>2. Len(Ahead') = l - k /\ \A i \in 1 .. l - k : Ahead'[i] = Ahead[k + i]
  BY <1>1 DEF Consumes, Rest
<1>3. PartsOf(m)' = n /\ \A q : Arrived(q)' <=> Arrived(q)
  BY <1>1 DEF Consumes, PartsOf, Arrived
<1>4. PICK q : q = <<m, n>> /\ q = Ahead[e] /\ Arrived(q)
  <2>1. e \in 1 .. l
    BY <1>1
  <2>2. QED
    BY <1>1, <2>1 DEF AheadInOrder
<1>5. Arrived(<<m, PartsOf(m)>>)'
  BY <1>3, <1>4
<1>6. ASSUME NEW i \in 1 .. l - k PROVE m < Ahead'[i][1]
  <2>1. PICK j \in 1 .. l : j = k + i /\ e \in 1 .. l /\ e < j
    BY <1>1
  <2>2. PICK other \in Part : other = Ahead[j] /\ other = Ahead'[i]
    BY <1>1, <1>2, <2>1
  <2>3. Before(q, other)
    BY <1>1, <1>4, <2>1, <2>2 DEF AheadInOrder
  <2>4. PICK x \in Nat, y \in Nat : other = <<x, y>> /\ (x = m => y <= n)
    BY <1>1, PartIs
  <2>5. m < x \/ (m = x /\ n < y)
    BY <1>4, <2>3, <2>4 DEF Before
  <2>6. m < x
    BY <2>4, <2>5
  <2>7. QED
    BY <2>2, <2>4, <2>6
<1>7. QED
  BY <1>2, <1>5, <1>6 DEF Ended

LEMMA EndedStays ==
    ASSUME QueueTypes, NEW k \in 0 .. Len(Ahead), Consumes(k), NEW m, Ended(m)
    PROVE  Ended(m)'
<1>1. PICK l \in Nat : l = Len(Ahead)
  BY AheadTypes
<1>2. /\ Len(Ahead') = l - k
      /\ \A i \in 1 .. l - k : Ahead'[i] = Ahead[k + i] /\ k + i \in 1 .. l
  BY <1>1 DEF Consumes, Rest
<1>3. PartsOf(m)' = PartsOf(m) /\ \A q : Arrived(q)' <=> Arrived(q)
  BY DEF Consumes, PartsOf, Arrived
<1>4. QED
  BY <1>1, <1>2, <1>3 DEF Ended

LEMMA EndedSent ==
    ASSUME SendingTypes, SendingTypes', QueueTypes, [Next]_vars, PeerSent, NEW m \in Commands, Ended(m)
    PROVE  Ended(m)'
<1>1. PICK p : p = LastSent' /\ Ahead' = Append(Ahead, p)
  BY SentFollows
<1>2. PICK l \in Nat, c \in Nat, n \in Nat \ {0}, f \in Nat, d \in Nat :
         l = Len(Ahead) /\ c = Len(script) /\ n = PartsOf(m) /\ f = left /\ d = Len(script')
  <2>1. Len(Ahead) \in Nat /\ Len(script) \in Nat /\ left \in Nat /\ Len(script') \in Nat
    BY AheadTypes DEF SendingTypes
  <2>2. QED
    BY <2>1, CommandParts
<1>3. m \in Messages /\ m \in Nat
  BY DEF Commands, Messages
<1>4. m < c \/ (m = c /\ n <= n - f)
  BY <1>2, <1>3 DEF Ended, Arrived, PartsOf
<1>5. f = 0 => d = c + 1
  <2>1. CASE script' = script /\ left' = left - 1
    BY <1>2, <2>1 DEF SendingTypes
  <2>2. ASSUME NEW kind \in Kind, script' = Append(script, kind) PROVE d = c + 1
    BY <1>2, <2>2 DEF SendingTypes
  <2>3. QED
    BY <2>1, <2>2 DEF PeerSent, Sent
<1>6. c <= d
  BY <1>2, StepGrows, ScriptGrows DEF SendingTypes
<1>7. m < d
  BY <1>2, <1>3, <1>4, <1>5, <1>6
<1>8. p[1] = d
  BY <1>1, <1>2 DEF LastSent
<1>9. PartsOf(m)' = PartsOf(m)
  BY <1>3, PartsKept
<1>10. Arrived(<<m, PartsOf(m)>>)'
  BY <1>2, <1>7, <1>9 DEF Arrived
<1>11. /\ Len(Ahead') = l + 1 /\ Ahead'[l + 1] = p
       /\ \A i \in 1 .. l : Ahead'[i] = Ahead[i]
  <2>1. Ahead \in Seq(Part)
    BY AheadTypes
  <2>2. QED
    BY <1>1, <1>2, <2>1
<1>12. \A i \in 1 .. l + 1 : i \in 1 .. l \/ i = l + 1
  OBVIOUS
<1>13. \A i \in 1 .. Len(Ahead') : m < Ahead'[i][1]
  BY <1>2, <1>7, <1>8, <1>11, <1>12 DEF Ended
<1>14. QED
  BY <1>10, <1>13 DEF Ended

\* The line that is returned has the command to its end; the LF is taken with its CR.
LEMMA ReturnedEnds ==
    ASSUME Control, NoHoles, AheadInOrder, LineIs, TakesEnd, InCommand,
           NEW m \in Commands, NEW n \in Nat \ {0}, buf[1] = <<m, n>>, n <= PartsOf(m), m \notin torn'
    PROVE  Ended(m)'
<1>1. SendingTypes /\ QueueTypes
  BY ControlParts DEF Control
<1>2. EndsLine(<<m, n>>) /\ ~Blocked
  BY DEF TakesEnd, ReadLineEnd
<1>3. PICK t \in Nat \ {0}, l \in Nat : t = PartsOf(m) /\ l = Len(Ahead)
  BY <1>1, CommandParts, AheadTypes
<1>4. 1 <= l /\ Ahead[1] = <<m, n>>
  BY <1>1, <1>3, TakesAhead
<1>5. CASE n # t
  <2>1. n \in 1 .. t - 1
    BY <1>3, <1>5
  <2>2. n = t - 1 /\ Last(Bytes(<<m, n>>)) = CR /\ Bytes(<<m, t>>) = <<LF>>
    BY <1>1, <1>2, <1>3, <2>1, CommandParts
  <2>3. Peeks(buf[1])
    BY <2>2 DEF Peeks
  <2>4. Len(buf) > 1
    <3>1. buf \in Seq(Part) /\ buf # <<>>
      BY <1>1, <1>2 DEF QueueTypes, Blocked
    <3>2. PICK b \in Nat : b = Len(buf) /\ b # 0
      BY <3>1
    <3>3. b # 1
      BY <1>2, <2>3, <3>2 DEF Blocked
    <3>4. b > 1
      BY <3>2, <3>3
    <3>5. QED
      BY <3>2, <3>4
  <2>5. 2 <= l /\ Ahead[2] = buf[2]
    BY <1>1, <1>3, <2>4, TakesAhead
  <2>6. Ahead[2] = <<m, t>>
    <3>1. 1 \in 1 .. l - 1
      BY <1>3, <2>5
    <3>2. Follows(Ahead[1], Ahead[1 + 1])
      BY <1>3, <3>1 DEF NoHoles
    <3>3. n < t /\ n + 1 = t
      BY <1>3, <2>2
    <3>4. QED
      BY <1>3, <1>4, <3>2, <3>3 DEF Follows
  <2>7. EatsLf
    BY <2>2, <2>3, <2>4, <2>5, <2>6 DEF EatsLf
  <2>8. Consumes(2) /\ 2 \in Nat \ {0} /\ 2 <= Len(Ahead)
    BY <1>1, <1>3, <2>5, <2>7, TakesAhead
  <2>9. QED
    <3>1. 2 \in 1 .. 2
      OBVIOUS
    <3>2. QED
      BY <1>1, <1>3, <2>6, <2>8, <3>1, EndsHere
<1>6. CASE n = t
  <2>1. PICK k \in {1, 2} : k <= l /\ Consumes(k)
    <3>1. CASE EatsLf
      <4>1. Consumes(2) /\ 2 <= l
        BY <1>1, <1>3, <3>1, TakesAhead DEF EatsLf
      <4>2. QED
        BY <4>1
    <3>2. CASE ~EatsLf
      <4>1. Consumes(1)
        BY <1>1, <3>2, TakesAhead
      <4>2. QED
        BY <1>4, <4>1
    <3>3. QED
      BY <3>1, <3>2
  <2>2. k \in Nat \ {0} /\ k <= Len(Ahead) /\ 1 \in 1 .. k
    BY <1>3, <2>1
  <2>3. QED
    BY <1>1, <1>3, <1>4, <1>6, <2>1, <2>2, EndsHere
<1>7. QED
  BY <1>5, <1>6

\* The commands that have been executed, or are about to be, were so before the
\* step, or their line has just ended.
LEMMA EndedBefore ==
    ASSUME Control, Control', [Next]_vars, NEW m, m # 0, Done(m)' \/ Executing(m)'
    PROVE  \/ m \in Commands /\ (Done(m) \/ Executing(m))
           \/ TakesEnd /\ InCommand /\ Message' = m
<1>1. /\ Len(done) \in Nat
      /\ done' = done \/ done' = Append(done, Message)
      /\ \A i \in 1 .. Len(done) : done[i] \in Commands \cup {0}
  <2>1. done \in Seq(Commands \cup {0})
    BY DEF Control, ControlTypes
  <2>2. \A i \in 1 .. Len(done) : done[i] \in Commands \cup {0}
    BY <2>1
  <2>3. QED
    BY <2>2, DoneKept DEF Executed, Executes
<1>9. SendingTypes /\ QueueTypes
  BY ControlParts DEF Control
<1>2. reading = "returned" => Message \in Commands \cup {0}
  BY <1>9, ReturnedCommand DEF Control
<1>3. Done(m) => m \in Commands
  BY <1>1 DEF Done
<1>4. Executing(m) => m \in Commands
  BY <1>2 DEF Executing
<1>5. CASE PeerSent \/ Idles \/ TakesPart \/ Fails
  <2>1. done' = done /\ (reading' = "returned" => reading = "returned" /\ line' = line)
    BY <1>5 DEF PeerSent, Sent, Idles, TakesPart, ReadPart, Reads, handlerVars, Fails
  <2>2. Executing(m)' => Executing(m)
    BY <1>9, <2>1, LineStays DEF Executing
  <2>3. Done(m)' => Done(m)
    BY <2>1 DEF Done
  <2>4. QED
    BY <1>3, <1>4, <2>2, <2>3
<1>6. CASE Executes1
  <2>1. reading = "returned" /\ done' = Append(done, Message)
        /\ (reading' = "returned" => line' = line)
    BY <1>6 DEF Executes1
  <2>2. Executing(m)' => Executing(m)
    BY <1>9, <2>1, LineStays DEF Executing
  <2>3. Done(m)' => Done(m) \/ Executing(m)
    <3>1. PICK l \in Nat : l = Len(done) /\ done \in Seq(Commands \cup {0})
      BY <1>1 DEF Control, ControlTypes
    <3>2. /\ Len(done') = l + 1 /\ done'[l + 1] = Message
          /\ \A i \in 1 .. l : done'[i] = done[i]
      BY <2>1, <3>1
    <3>3. \A i \in 1 .. l + 1 : i \in 1 .. l \/ i = l + 1
      OBVIOUS
    <3>4. QED
      BY <2>1, <3>1, <3>2, <3>3 DEF Done, Executing
  <2>4. QED
    BY <1>3, <1>4, <2>2, <2>3
<1>7. CASE TakesEnd
  <2>1. done' = done /\ reading = "reads" /\ (~InCommand => reading' # "returned")
    BY <1>7 DEF TakesEnd, ReadLineEnd, Reads, Again, handlerVars
  <2>2. Done(m)' => Done(m)
    BY <2>1 DEF Done
  <2>3. Executing(m)' => InCommand /\ Message' = m
    BY <2>1 DEF Executing
  <2>4. QED
    BY <1>3, <1>7, <2>2, <2>3
<1>8. QED
  BY <1>5, <1>6, <1>7, StreamEffect

LEMMA EndedStep ==
    ASSUME Control, Control', NoHoles, AheadInOrder, LineIs, EndedInv, [Next]_vars
    PROVE  EndedInv'
<1>1. SendingTypes /\ SendingTypes' /\ QueueTypes
  <2>1. SendingTypes /\ QueueTypes
    BY ControlParts DEF Control
  <2>2. SendingTypes'
    BY DEF Control, ControlTypes, SendingTypes
  <2>3. QED
    BY <2>1, <2>2
<1>2. SUFFICES ASSUME NEW m, m # 0, m \notin torn', Done(m)' \/ Executing(m)'
               PROVE  Ended(m)'
  BY DEF EndedInv, Commands, Messages
<1>3. CASE TakesEnd /\ InCommand /\ Message' = m
  <2>1. PICK c \in Commands, n \in Nat \ {0}, l \in Seq(Part) :
           /\ l = Append(line, buf[1]) /\ buf[1] = <<c, n>> /\ n <= PartsOf(c)
           /\ Len(l) = n /\ \A i \in 1 .. n : l[i] = <<c, i>>
    <3>1. line' = Append(line, buf[1]) /\ script' = script
      BY <1>3 DEF TakesEnd, ReadLineEnd, peerVars
    <3>2. ~Astray(line)'
      BY <1>2, <1>3 DEF Message
    <3>3. ~Astray(Append(line, buf[1]))
      BY <3>1, <3>2 DEF Astray
    <3>4. QED
      BY <1>3, <3>3, LineTakes
  <2>2. c = m
    <3>1. line' = l
      BY <1>3, <2>1 DEF TakesEnd, ReadLineEnd
    <3>2. 1 \in 1 .. n /\ l[1] = <<c, 1>>
      BY <2>1
    <3>3. Message' = line'[1][1]
      BY <1>2, <1>3 DEF Message
    <3>4. QED
      BY <1>3, <3>1, <3>2, <3>3
  <2>3. QED
    BY <1>2, <1>3, <2>1, <2>2, ReturnedEnds
<1>4. CASE m \in Commands /\ (Done(m) \/ Executing(m))
  <2>1. Ended(m)
    BY <1>2, <1>4, TornGrows DEF EndedInv
  <2>2. CASE PeerSent
    BY <1>1, <1>4, <2>1, <2>2, EndedSent
  <2>3. CASE Idles \/ Fails \/ Executes1 \/ TakesPart \/ TakesEnd
    BY <1>1, <2>1, <2>3, ConsumesOrKeeps, EndedStays
  <2>4. QED
    BY <2>2, <2>3, StreamEffect
<1>5. QED
  BY <1>2, <1>3, <1>4, EndedBefore

LEMMA NoneBefore ==
    ASSUME QueueTypes, NEW k \in 0 .. Len(Ahead), Consumes(k), NEW x, NoneIs(Ahead', x),
           \A i \in 1 .. k : Ahead[i] # x
    PROVE  NoneIs(Ahead, x)
<1>1. PICK l \in Nat : l = Len(Ahead)
  BY AheadTypes
<1>2. Len(Ahead') = l - k /\ \A i \in 1 .. l - k : Ahead'[i] = Ahead[k + i]
  BY <1>1 DEF Consumes, Rest
<1>3. ASSUME NEW i \in 1 .. l PROVE Ahead[i] # x
  <2>1. CASE i <= k
    <3>1. i \in 1 .. k
      BY <2>1
    <3>2. QED
      BY <3>1
  <2>2. CASE i > k
    <3>1. PICK j \in 1 .. l - k : k + j = i
      <4>1. i - k \in 1 .. l - k /\ k + (i - k) = i
        BY <1>1, <2>2
      <4>2. QED
        BY <4>1
    <3>2. Ahead'[j] # x
      BY <1>2 DEF NoneIs
    <3>3. QED
      BY <1>2, <3>1, <3>2
  <2>3. QED
    BY <1>1, <2>1, <2>2
<1>4. QED
  BY <1>1, <1>3 DEF NoneIs

\* A line that goes astray tears what is read into it.
LEMMA AstrayTears ==
    ASSUME TakesPart \/ TakesEnd, InCommand, Astray(Append(line, buf[1]))
    PROVE  buf[1][1] \in torn'
<1>1. line' = Append(line, buf[1])
  BY DEF TakesPart, TakesEnd, ReadPart, ReadLineEnd
<1>2. torn' = torn \cup {buf[1][1]}
  BY <1>1 DEF TakesPart, TakesEnd, ReadPart, ReadLineEnd
<1>3. QED
  BY <1>2

LEMMA LineGoesOn ==
    ASSUME Control, LineIs, TakesPart \/ TakesEnd, InCommand, ~Astray(Append(line, buf[1]))
    PROVE  /\ line' # <<>> /\ reading' # "failed" /\ Message' = buf[1][1]
           /\ line # <<>> => Message' = Message
<1>1. PICK m \in Commands, n \in Nat \ {0}, l \in Seq(Part) :
         /\ l = Append(line, buf[1]) /\ buf[1] = <<m, n>>
         /\ Len(l) = n /\ \A i \in 1 .. n : l[i] = <<m, i>>
         /\ line # <<>> => Message = m
  BY LineTakes
<1>2. line' = l /\ reading' # "failed"
  BY <1>1 DEF TakesPart, TakesEnd, ReadPart, ReadLineEnd, Reads
<1>3. l # <<>> /\ l[1] = <<m, 1>>
  <2>1. 1 \in 1 .. n
    OBVIOUS
  <2>2. line \in Seq(Part) /\ buf[1] \in Part
    <3>1. QueueTypes
      BY ControlParts DEF Control
    <3>2. QED
      BY <3>1, TakesAhead DEF QueueTypes
  <2>3. Append(line, buf[1]) # <<>>
    BY <2>2
  <2>4. QED
    BY <1>1, <2>1, <2>3
<1>4. Message' = m
  <2>1. script' = script
    BY DEF TakesPart, TakesEnd, ReadPart, ReadLineEnd, peerVars
  <2>2. ~Astray(line)'
    BY <1>1, <1>2, <2>1 DEF Astray
  <2>3. QED
    BY <1>2, <1>3, <2>2 DEF Message
<1>5. QED
  BY <1>1, <1>2, <1>3, <1>4

\* An error cuts the command whose line has been begun.
LEMMA CutsLine ==
    ASSUME Control, KeptTypes, LineIs, SkippedBefore, Fails, line # <<>>, ~Astray(line)
    PROVE  Message \in torn'
<1>1. SendingTypes /\ QueueTypes /\ line \in Seq(Part) /\ skipped \in Seq(Part)
  BY ControlParts DEF Control, QueueTypes, KeptTypes
<1>2. PICK m \in Commands : m = Message
  BY <1>1, OwnLine DEF Message
<1>3. PICK l \in Nat \ {0}, k \in Nat, n \in Nat \ {0} : l = Len(line) /\ k = Len(skipped) /\ n = PartsOf(m)
  <2>1. Len(line) \in Nat \ {0} /\ Len(skipped) \in Nat
    BY <1>1
  <2>2. QED
    BY <1>1, <2>1, CommandParts
<1>4. /\ \A i \in 1 .. l : line[i] = <<m, i>> /\ ~EndsLine(<<m, i>>)
      /\ line[1] = <<m, 1>>
  <2>1. reading = "reads"
    BY DEF Fails
  <2>2. 1 \in 1 .. l
    BY <1>3
  <2>3. \A i \in 1 .. l : line[i] = <<m, i>> /\ ~EndsLine(line[i])
    BY <1>2, <1>3, <2>1 DEF LineIs
  <2>4. QED
    BY <2>2, <2>3
<1>5. \A i \in 1 .. l : line[i] # <<m, n>>
  BY <1>1, <1>3, <1>4, CommandParts
<1>6. ASSUME NEW i \in 1 .. k PROVE skipped[i] # <<m, n>>
  <2>1. Before(skipped[i], line[1])
    BY <1>3 DEF Fails, SkippedBefore
  <2>2. ~Before(<<m, n>>, <<m, 1>>)
    <3>1. m \in Nat
      BY DEF Commands, Messages
    <3>2. QED
      BY <1>3, <3>1 DEF Before
  <2>3. QED
    BY <1>4, <2>1, <2>2
<1>7. PICK s \in Seq(Part) :
         /\ s = line \o skipped /\ Len(s) = l + k
         /\ \A i \in 1 .. l + k : s[i] = IF i <= l THEN line[i] ELSE skipped[i - l]
  <2>1. line \o skipped \in Seq(Part)
    <3>1. ASSUME NEW b \in Seq(Part), NEW u \in Seq(Part) PROVE b \o u \in Seq(Part)
      OBVIOUS
    <3>2. QED
      BY <1>1, <3>1
  <2>2. /\ Len(line \o skipped) = l + k
        /\ \A i \in 1 .. l + k : (line \o skipped)[i] = IF i <= l THEN line[i] ELSE skipped[i - l]
    BY <1>1, <1>3, ConcatProperties
  <2>3. QED
    BY <2>1, <2>2
<1>8. ASSUME NEW i \in 1 .. l + k PROVE s[i] # <<m, n>>
  <2>1. CASE i <= l
    <3>1. i \in 1 .. l
      BY <2>1
    <3>2. QED
      BY <1>5, <1>7, <2>1, <3>1
  <2>2. CASE ~(i <= l)
    <3>1. PICK j \in 1 .. k : j = i - l
      <4>1. i - l \in 1 .. k
        BY <2>2
      <4>2. QED
        BY <4>1
    <3>2. QED
      BY <1>6, <1>7, <2>2, <3>1
  <2>3. QED
    BY <2>1, <2>2
<1>9. ToSet(s) = {s[i] : i \in 1 .. l + k}
  <2>1. DOMAIN s = 1 .. l + k
    BY <1>7
  <2>2. QED
    BY <2>1 DEF ToSet
<1>10. <<m, n>> \notin ToSet(s)
  BY <1>8, <1>9
<1>11. <<m, 1>> \in ToSet(s)
  <2>1. 1 \in 1 .. l + k /\ 1 <= l
    BY <1>3
  <2>2. s[1] = <<m, 1>>
    BY <1>4, <1>7, <2>1
  <2>3. QED
    BY <1>9, <2>1, <2>2
<1>12. m \in Cut
  <2>1. m \in {part[1] : part \in ToSet(s)}
    BY <1>11
  <2>2. <<m, Len(Text[script[m]])>> \notin ToSet(s)
    BY <1>3, <1>10 DEF PartsOf
  <2>3. QED
    BY <1>7, <2>1, <2>2 DEF Cut
<1>13. QED
  BY <1>2, <1>12 DEF Fails

LEMMA BegunStep ==
    ASSUME Control, Control', KeptTypes, NoHoles, LineIs, SkippedBefore, LostInv, BegunInv, [Next]_vars
    PROVE  BegunInv'
<1>1. SendingTypes /\ SendingTypes' /\ QueueTypes
  <2>1. SendingTypes /\ QueueTypes
    BY ControlParts DEF Control
  <2>2. SendingTypes'
    BY DEF Control, ControlTypes, SendingTypes
  <2>3. QED
    BY <2>1, <2>2
<1>2. SUFFICES ASSUME NEW m \in Commands', NEW part, part = <<m, 1>>, m \notin torn',
                      NoneIs(Ahead', part), NoneIs(lost', part)
               PROVE  Done(m)' \/ Begun(m)'
  BY DEF BegunInv, NoneIs
<1>3. m \notin torn /\ m # 0
  BY <1>2, TornGrows DEF Commands, Messages
<1>4. ASSUME Done(m) PROVE Done(m)'
  BY <1>4, DoneKept DEF Done
<1>5. CASE PeerSent
  <2>1. PICK n \in Nat \ {0} :
           /\ n = Len(Text[script'[Len(script')]]) - left'
           /\ Ahead' = Append(Ahead, <<Len(script'), n>>)
    BY <1>5 DEF PeerSent, Sent
  <2>2. PICK l \in Nat : l = Len(Ahead) /\ Ahead \in Seq(Part)
    BY <1>1, AheadTypes
  <2>3. /\ Len(Ahead') = l + 1 /\ Ahead'[l + 1] = <<Len(script'), n>>
        /\ \A i \in 1 .. l : Ahead'[i] = Ahead[i]
    BY <2>1, <2>2
  <2>4. CASE m \in Messages
    <3>1. m \in Commands
      BY <1>1, <2>4, PartsKept
    <3>2. NoneIs(Ahead, part) /\ NoneIs(lost, part)
      <4>1. \A i \in 1 .. l : i \in 1 .. l + 1
        OBVIOUS
      <4>2. NoneIs(Ahead, part)
        BY <1>2, <2>2, <2>3, <4>1 DEF NoneIs
      <4>3. lost' = lost
        BY <1>5 DEF PeerSent
      <4>4. QED
        BY <1>2, <4>2, <4>3
    <3>3. Done(m) \/ Begun(m)
      BY <1>2, <1>3, <3>1, <3>2 DEF BegunInv
    <3>4. QED
      BY <1>1, <1>4, <1>5, <3>3, LineStays DEF PeerSent, Sent, Begun
  <2>5. CASE m \notin Messages
    <3>1. PICK c \in Nat : c = Len(script)
      BY <1>1 DEF SendingTypes
    <3>2. PICK kind \in Kind : script' = Append(script, kind) /\ left' = Len(Text[kind]) - 1
      BY <1>2, <1>5, <2>5 DEF PeerSent, Sent, Commands, Messages
    <3>3. Len(script') = c + 1 /\ script'[c + 1] = kind
      BY <1>1, <3>1, <3>2 DEF SendingTypes
    <3>4. m = c + 1
      BY <1>2, <2>5, <3>1, <3>3 DEF Commands, Messages
    <3>5. PICK t \in Nat \ {0} : t = Len(Text[kind])
      <4>1. Text[kind] \in Seq(Seq(Byte) \ {<<>>}) \ {<<>>}
        BY Assumptions
      <4>2. QED
        BY <4>1
    <3>6. n = t - (t - 1)
      BY <2>1, <3>2, <3>3, <3>5
    <3>7. n = 1
      BY <3>5, <3>6
    <3>8. Ahead'[l + 1] = part /\ l + 1 \in 1 .. Len(Ahead')
      BY <1>2, <2>2, <2>3, <3>3, <3>4, <3>7
    <3>9. QED
      BY <1>2, <3>8 DEF NoneIs
  <2>6. QED
    BY <2>4, <2>5
<1>6. ASSUME ~PeerSent PROVE m \in Commands
  BY <1>6, <1>2, StreamEffect DEF Idles, TakesPart, TakesEnd, ReadPart, ReadLineEnd, Fails, Executes1,
     peerVars, Commands, Messages
<1>7. CASE Idles
  <2>1. NoneIs(Ahead, part) /\ NoneIs(lost, part)
    BY <1>2, <1>7 DEF NoneIs, Idles
  <2>2. QED
    BY <1>1, <1>2, <1>3, <1>4, <1>5, <1>6, <1>7, <2>1, LineStays DEF BegunInv, Begun, Idles
<1>8. CASE Fails
  <2>1. NoneIs(Ahead, part) /\ NoneIs(lost, part)
    BY <1>2, <1>8 DEF NoneIs, Fails
  <2>2. Done(m) \/ Begun(m) \/ PeerSent
    BY <1>2, <1>3, <1>6, <2>1 DEF BegunInv
  <2>3. ~Begun(m)
    BY <1>2, <1>3, <1>8, CutsLine DEF Begun, Message
  <2>4. QED
    BY <1>4, <1>5, <2>2, <2>3
<1>9. CASE Executes1
  <2>1. NoneIs(Ahead, part) /\ NoneIs(lost, part)
    <3>1. CASE buf' = buf /\ lost' = lost
      BY <1>2, <1>9, <3>1 DEF Executes1, Ahead
    <3>2. CASE phase = "handshake" /\ lost' = buf /\ buf' = <<>>
      <4>1. lost = <<>>
        BY <3>2 DEF LostInv
      <4>2. PICK b \in Seq(Part), u \in Seq(Part) : b = buf /\ u = unread
        BY <1>1 DEF QueueTypes
      <4>3. Ahead' = u /\ lost' = b /\ Ahead = b \o u
        <5>1. ASSUME NEW T, NEW x \in Seq(T) PROVE <<>> \o x = x
          OBVIOUS
        <5>2. QED
          BY <1>9, <3>2, <4>2, <5>1 DEF Executes1, Ahead
      <4>4. PICK c \in Nat, d \in Nat : c = Len(b) /\ d = Len(u)
        OBVIOUS
      <4>5. /\ Len(b \o u) = c + d
            /\ \A i \in 1 .. c + d : (b \o u)[i] = IF i <= c THEN b[i] ELSE u[i - c]
        BY <4>4, ConcatProperties
      <4>6. ASSUME NEW i \in 1 .. c + d PROVE (b \o u)[i] # part
        <5>1. CASE i <= c
          <6>1. i \in 1 .. c
            BY <5>1
          <6>2. QED
            BY <1>2, <4>3, <4>4, <4>5, <5>1, <6>1 DEF NoneIs
        <5>2. CASE ~(i <= c)
          <6>1. PICK j \in 1 .. d : j = i - c
            <7>1. i - c \in 1 .. d
              BY <5>2
            <7>2. QED
              BY <7>1
          <6>2. QED
            BY <1>2, <4>3, <4>4, <4>5, <5>2, <6>1 DEF NoneIs
        <5>3. QED
          BY <5>1, <5>2
      <4>7. NoneIs(Ahead, part)
        BY <4>3, <4>5, <4>6 DEF NoneIs
      <4>8. NoneIs(lost, part)
        BY <4>1 DEF NoneIs
      <4>9. QED
        BY <4>7, <4>8
    <3>3. QED
      BY <1>9, <3>1, <3>2 DEF Executes1
  <2>2. Done(m) \/ Begun(m) \/ PeerSent
    BY <1>2, <1>3, <1>6, <2>1 DEF BegunInv
  <2>3. ASSUME Message = m PROVE Done(m)'
    <3>1. PICK l \in Nat, d \in Seq(Commands \cup {0}) : d = done /\ l = Len(d)
      BY DEF Control, ControlTypes
    <3>2. done' = Append(d, m)
      BY <1>9, <2>3, <3>1 DEF Executes1
    <3>3. Len(done') = l + 1 /\ done'[l + 1] = m
      BY <3>1, <3>2
    <3>4. l + 1 \in 1 .. Len(done')
      BY <3>3
    <3>5. QED
      BY <3>3, <3>4 DEF Done
  <2>4. QED
    BY <1>4, <1>5, <2>2, <2>3 DEF Begun
<1>10. CASE TakesPart \/ TakesEnd
  <2>1. PICK l \in Nat : l = Len(Ahead) /\ l >= 1 /\ Ahead[1] = buf[1]
    BY <1>1, <1>10, AheadTypes, TakesAhead
  <2>2. lost' = lost /\ reading = "reads"
    BY <1>10, ReadsWhileTaking DEF TakesPart, TakesEnd, handlerVars
  <2>3. CASE PeerSent
    BY <1>5, <2>3
  <2>4. CASE ~PeerSent /\ buf[1] = part
    <3>1. m \in Commands
      BY <1>6, <2>4
    <3>2. InCommand
      BY <1>2, <1>10, <2>4, <3>1, FirstBegins
    <3>5. ~Astray(Append(line, buf[1]))
      BY <1>2, <1>10, <2>4, <3>2, AstrayTears
    <3>3. line' # <<>> /\ reading' # "failed" /\ Message' = m
      BY <1>2, <1>10, <2>4, <3>2, <3>5, LineGoesOn
    <3>4. QED
      BY <3>3 DEF Begun
  <2>5. CASE ~PeerSent /\ buf[1] # part
    <3>1. m \in Commands
      BY <1>6, <2>5
    <3>2. PICK k \in {1, 2} : k \in 0 .. Len(Ahead) /\ Consumes(k) /\ \A i \in 1 .. k : Ahead[i] # part
      <4>1. CASE TakesPart \/ ~EatsLf
        <5>1. Consumes(1) /\ 1 \in 0 .. Len(Ahead) /\ \A i \in 1 .. 1 : Ahead[i] # part
          BY <1>1, <1>10, <2>1, <2>5, <4>1, TakesAhead
        <5>2. QED
          BY <5>1
      <4>2. CASE TakesEnd /\ EatsLf
        <5>1. Consumes(2) /\ 2 <= l /\ Ahead[2] = buf[2] /\ Bytes(buf[2]) = <<LF>>
          BY <1>1, <2>1, <4>2, TakesAhead DEF EatsLf
        <5>2. buf[2] # part
          BY <1>1, <1>2, <3>1, <5>1, CommandParts
        <5>3. 2 \in 0 .. Len(Ahead) /\ \A i \in 1 .. 2 : Ahead[i] # part
          <6>1. \A i \in 1 .. 2 : i = 1 \/ i = 2
            OBVIOUS
          <6>2. QED
            BY <2>1, <2>5, <5>1, <5>2, <6>1
        <5>4. QED
          BY <5>1, <5>3
      <4>3. QED
        BY <1>10, <4>1, <4>2
    <3>3. NoneIs(Ahead, part) /\ NoneIs(lost, part)
      <4>1. NoneIs(Ahead, part)
        BY <1>1, <1>2, <3>2, NoneBefore
      <4>2. QED
        BY <1>2, <2>2, <4>1
    <3>4. Done(m) \/ Begun(m)
      BY <1>2, <1>3, <3>1, <3>3 DEF BegunInv
    <3>5. ASSUME Begun(m) PROVE Begun(m)'
      <4>1. line # <<>> /\ Message = m /\ InCommand
        BY <3>5 DEF Begun, InCommand
      <4>4. ~Astray(Append(line, buf[1]))
        <5>1. line \in Seq(Part) /\ buf[1] \in Part
          BY <1>1, <1>10, TakesAhead DEF QueueTypes
        <5>2. ASSUME NEW T, NEW begun \in Seq(T), NEW p \in T, begun # <<>>
              PROVE  Append(begun, p)[1] = begun[1]
          BY <5>2
        <5>3. Append(line, buf[1])[1] = line[1]
          BY <4>1, <5>1, <5>2
        <5>4. ~Astray(line)
          BY <1>3, <4>1 DEF Message
        <5>5. QED
          BY <4>1, <5>3, <5>4 DEF Astray
      <4>2. line' # <<>> /\ reading' # "failed" /\ Message' = Message
        BY <1>10, <4>1, <4>4, LineGoesOn
      <4>3. QED
        BY <4>1, <4>2 DEF Begun
    <3>6. QED
      BY <1>4, <3>4, <3>5
  <2>6. QED
    BY <2>3, <2>4, <2>5
<1>11. QED
  BY <1>5, <1>7, <1>8, <1>9, <1>10, StreamEffect

LEMMA LostStep ==
    ASSUME Control, LostInv, [Next]_vars
    PROVE  LostInv'
<1>1. lost' = lost \/ phase' # "handshake"
  BY StreamEffect DEF PeerSent, Idles, TakesPart, TakesEnd, handlerVars, Fails, Executes1
<1>2. phase' = "handshake" => phase = "handshake"
  <2>1. CASE PeerSent \/ TakesPart \/ TakesEnd
    BY <2>1 DEF PeerSent, Sent, TakesPart, TakesEnd, handlerVars
  <2>2. CASE Idles \/ Fails \/ Executes1
    BY <2>2 DEF Idles, Fails, Executes1
  <2>3. QED
    BY <2>1, <2>2, StreamEffect
<1>3. QED
  BY <1>1, <1>2 DEF LostInv

StreamControl == Control /\ KeptTypes /\ OrderInv /\ StreamInv

LEMMA StreamInit == Init => StreamControl
<1> SUFFICES ASSUME Init PROVE StreamControl
  OBVIOUS
<1>1. /\ script = <<>> /\ buf = <<>> /\ unread = <<>> /\ line = <<>> /\ done = <<>> /\ lost = <<>>
      /\ skipped = <<>> /\ allSkipped = <<>> /\ presets = <<>>
  BY DEF Init, ReaderInit
<1>2. Len(<<>>) = 0 /\ \A T : <<>> \in Seq(T)
  <2>1. ASSUME NEW T PROVE <<>> \in Seq(T)
    OBVIOUS
  <2>2. QED
    BY <2>1
<1>3. Ahead = <<>>
  BY <1>1 DEF Ahead
<1>4. KeptTypes
  BY <1>1, <1>2 DEF KeptTypes
<1>5. OrderInv
  BY <1>1, <1>2, <1>3 DEF OrderInv, AheadInOrder, LineFirst, DoneFirst
<1>6. Commands = {}
  BY <1>1, <1>2 DEF Commands, Messages
<1>7. NoHoles
  BY <1>2, <1>3 DEF NoHoles
<1>8. StreamInv
  BY <1>1, <1>2, <1>6, <1>7 DEF StreamInv, LineIs, SkippedBefore, EndedInv, BegunInv, LostInv
<1>9. QED
  BY <1>4, <1>5, <1>8, ControlInit DEF StreamControl

LEMMA StreamStep == StreamControl /\ [Next]_vars => StreamControl'
<1> SUFFICES ASSUME StreamControl, [Next]_vars PROVE StreamControl'
  OBVIOUS
<1>1. /\ Control /\ KeptTypes /\ OrderInv /\ AheadInOrder
      /\ NoHoles /\ LineIs /\ SkippedBefore /\ EndedInv /\ BegunInv /\ LostInv
  BY DEF StreamControl, StreamInv, OrderInv
<1>2. Control'
  BY <1>1, ControlStep
<1>3. OrderInv' /\ KeptTypes' /\ LostInv'
  BY <1>1, <1>2, AheadEffect, OrderSent, OrderConsumed, KeptStep, LostStep
<1>4. NoHoles' /\ LineIs'
  BY <1>1, <1>2, NoHolesStep, LineIsStep
<1>5. SkippedBefore' /\ EndedInv' /\ BegunInv'
  BY <1>1, <1>2, SkippedBeforeStep, EndedStep, BegunStep
<1>6. QED
  BY <1>2, <1>3, <1>4, <1>5 DEF StreamControl, StreamInv

\* What is read is in order and without holes, a line that a command begins is the
\* beginning of it, a command of which the first part was read has been executed or
\* is the line, and nothing is left of one that has been executed.
THEOREM StreamInOrder == Spec => []StreamControl
  BY StreamInit, StreamStep, PTL DEF Spec

LEMMA NoneOfSet ==
    ASSUME NEW T, NEW s \in Seq(T), NEW x
    PROVE  NoneIs(s, x) <=> x \notin ToSet(s)
  BY DEF NoneIs, ToSet

LEMMA SetOfTwo ==
    ASSUME NEW T, NEW a \in Seq(T), NEW b \in Seq(T)
    PROVE  a \o b \in Seq(T) /\ ToSet(a \o b) = ToSet(a) \cup ToSet(b)
<1>1. PICK m \in Nat, n \in Nat : m = Len(a) /\ n = Len(b)
  OBVIOUS
<1>2. PICK s \in Seq(T) :
         /\ s = a \o b /\ Len(s) = m + n
         /\ \A i \in 1 .. m + n : s[i] = IF i <= m THEN a[i] ELSE b[i - m]
  <2>1. a \o b \in Seq(T)
    OBVIOUS
  <2>2. /\ Len(a \o b) = m + n
        /\ \A i \in 1 .. m + n : (a \o b)[i] = IF i <= m THEN a[i] ELSE b[i - m]
    BY <1>1, ConcatProperties
  <2>3. QED
    BY <2>1, <2>2
<1>3. DOMAIN a = 1 .. m /\ DOMAIN b = 1 .. n /\ DOMAIN s = 1 .. m + n
  BY <1>1, <1>2
<1>4. ASSUME NEW i \in 1 .. m + n PROVE s[i] \in ToSet(a) \cup ToSet(b)
  <2>1. CASE i <= m
    <3>1. i \in 1 .. m
      BY <2>1
    <3>2. QED
      BY <1>2, <1>3, <2>1, <3>1 DEF ToSet
  <2>2. CASE ~(i <= m)
    <3>1. i - m \in 1 .. n
      BY <2>2
    <3>2. QED
      BY <1>2, <1>3, <2>2, <3>1 DEF ToSet
  <2>3. QED
    BY <2>1, <2>2
<1>5. ASSUME NEW i \in 1 .. m PROVE a[i] \in ToSet(s)
  <2>1. i \in 1 .. m + n /\ i <= m
    OBVIOUS
  <2>2. QED
    BY <1>2, <1>3, <2>1 DEF ToSet
<1>6. ASSUME NEW i \in 1 .. n PROVE b[i] \in ToSet(s)
  <2>1. PICK j \in 1 .. m + n : j = m + i /\ ~(j <= m) /\ j - m = i
    <3>1. m + i \in 1 .. m + n /\ ~(m + i <= m) /\ (m + i) - m = i
      OBVIOUS
    <3>2. QED
      BY <3>1
  <2>2. QED
    BY <1>2, <1>3, <2>1 DEF ToSet
<1>7. ToSet(s) \subseteq ToSet(a) \cup ToSet(b)
  BY <1>3, <1>4 DEF ToSet
<1>8. ToSet(a) \subseteq ToSet(s) /\ ToSet(b) \subseteq ToSet(s)
  BY <1>3, <1>5, <1>6 DEF ToSet
<1>9. QED
  BY <1>2, <1>7, <1>8

\* No command that has been read whole is passed over: readLineWithSkipped and the
\* loops above it execute it, or have it in hand.
THEOREM NoCommandIgnored == Spec => []NoneIgnored
<1>1. StreamControl => NoneIgnored
  <2> SUFFICES ASSUME StreamControl, NEW m \in (Commands \cap Taken) \ torn
               PROVE  m \in ToSet(done) \/ (reading = "returned" /\ m = Message)
    BY DEF NoneIgnored
  <2>1. /\ SendingTypes /\ QueueTypes /\ LineBegun /\ LineIs /\ BegunInv
        /\ line \in Seq(Part) /\ done \in Seq(Commands \cup {0})
        /\ reading \in {"reads", "returned", "failed"}
    BY ControlParts DEF StreamControl, StreamInv, Control, ControlTypes, QueueTypes
  <2>2. PICK t \in Nat \ {0} : t = PartsOf(m)
    BY <2>1, CommandParts
  <2>3. \A x : x \notin ToSet(unread \o buf \o lost) => NoneIs(Ahead, x) /\ NoneIs(lost, x)
    <3>1. PICK b \in Seq(Part), u \in Seq(Part), c \in Seq(Part) : b = buf /\ u = unread /\ c = lost
      BY <2>1 DEF QueueTypes
    <3>2. ToSet((u \o b) \o c) = (ToSet(u) \cup ToSet(b)) \cup ToSet(c)
      <4>1. PICK d \in Seq(Part) : d = u \o b /\ ToSet(d) = ToSet(u) \cup ToSet(b)
        <5>1. u \o b \in Seq(Part) /\ ToSet(u \o b) = ToSet(u) \cup ToSet(b)
          BY SetOfTwo
        <5>2. QED
          BY <5>1
      <4>2. ToSet(d \o c) = ToSet(d) \cup ToSet(c)
        BY SetOfTwo
      <4>3. QED
        BY <4>1, <4>2
    <3>3. b \o u \in Seq(Part) /\ ToSet(b \o u) = ToSet(b) \cup ToSet(u)
      BY SetOfTwo
    <3>4. Ahead = b \o u
      BY <3>1 DEF Ahead
    <3>5. QED
      BY <3>1, <3>2, <3>3, <3>4, NoneOfSet
  <2>4. ASSUME NEW n \in 1 .. t, n > 1 => ~EndsLine(<<m, n - 1>>)
        PROVE  /\ m < Len(script) \/ n <= t - left
               /\ NoneIs(Ahead, <<m, n>>) /\ NoneIs(lost, <<m, n>>)
    BY <2>2, <2>3, <2>4 DEF Taken, PartsOf
  <2>5. Done(m) \/ Begun(m)
    <3>1. 1 \in 1 .. t /\ ~(1 > 1)
      OBVIOUS
    <3>2. NoneIs(Ahead, <<m, 1>>) /\ NoneIs(lost, <<m, 1>>)
      BY <2>4, <3>1
    <3>3. QED
      BY <2>1, <3>2 DEF BegunInv
  <2>6. CASE Done(m)
    BY <2>1, <2>6 DEF Done, ToSet
  <2>7. CASE Begun(m) /\ reading = "returned"
    BY <2>7 DEF Begun
  <2>8. ASSUME Begun(m), reading = "reads" PROVE FALSE
    <3>1. line # <<>> /\ Message = m /\ ~Astray(line)
      <4>1. m # 0
        BY DEF Commands, Messages
      <4>2. QED
        BY <2>8, <4>1 DEF Begun, Message
    <3>2. PICK k \in Nat \ {0} : k = Len(line)
      BY <2>1, <3>1
    <3>3. line[k] = <<m, k>> /\ ~EndsLine(line[k]) /\ NextIs(m, k + 1) /\ line[k] \in Part
      BY <2>1, <2>8, <3>1, <3>2 DEF LineIs
    <3>4. k <= t /\ k # t
      <4>1. PICK part \in Part : part = <<m, k>> /\ ~EndsLine(part)
        BY <3>3
      <4>2. part[2] \in 1 .. PartsOf(part[1])
        BY <2>1, PartIs
      <4>3. EndsLine(<<m, t>>)
        BY <2>1, <2>2, CommandParts
      <4>4. QED
        BY <2>2, <4>1, <4>2, <4>3
    <3>5. PICK n \in 1 .. t : n = k + 1
      <4>1. k + 1 \in 1 .. t
        BY <3>4
      <4>2. QED
        BY <4>1
    <3>6. n - 1 = k
      BY <3>5
    <3>7. m < Len(script) \/ n <= t - left
      BY <2>4, <3>3, <3>6
    <3>8. NoneIs(Ahead, <<m, n>>)
      BY <2>4, <3>3, <3>6
    <3>9. CASE Ahead = <<>>
      <4>1. <<Len(script), PartsOf(Len(script)) - left>> = <<m, n - 1>>
        BY <3>3, <3>5, <3>9 DEF NextIs, LastSent
      <4>2. m = Len(script) /\ t - left = k
        BY <2>2, <3>6, <4>1
      <4>3. m \in Nat
        BY <2>1, <4>2 DEF SendingTypes
      <4>4. QED
        BY <3>5, <3>7, <4>2, <4>3
    <3>10. CASE Ahead # <<>>
      <4>1. Ahead[1] = <<m, n>>
        BY <3>3, <3>5, <3>10 DEF NextIs
      <4>2. 1 \in 1 .. Len(Ahead)
        <5>1. Ahead \in Seq(Part)
          BY <2>1, AheadTypes
        <5>2. QED
          BY <3>10, <5>1
      <4>3. QED
        BY <3>8, <4>1, <4>2 DEF NoneIs
    <3>11. QED
      BY <3>9, <3>10
  <2>9. QED
    BY <2>1, <2>5, <2>6, <2>7, <2>8 DEF Begun
<1>2. QED
  BY <1>1, StreamInOrder, PTL

(***************************************************************************)
(* What is kept as port settings.                                          *)
(***************************************************************************)

\* Nothing but an error or another reader has come between a command's parts.
Untorn == Commands \cap torn = {} /\ lost = <<>>

Clean(parts) == \A i \in 1 .. Len(parts) : parts[i][1] \notin Commands

\* No part of a command is data.
FragInv == Untorn => Clean(skipped) /\ Clean(allSkipped) /\ Clean(presets)

\* A session is what a line has asked for.
ClientAsked == phase = "client" => done # <<>> /\ script # <<>>

LEMMA ClientAskedStep ==
    ASSUME Control, ClientAsked, [Next]_vars
    PROVE  ClientAsked'
<1>4. SendingTypes /\ QueueTypes /\ LineBegun
  BY ControlParts DEF Control
<1>5. script # <<>> => script' # <<>>
  BY <1>4, StepGrows DEF Grows, SendingTypes
<1>1. CASE NothingExecuted \/ GivesUp
  BY <1>1, <1>5 DEF NothingExecuted, GivesUp, ClientAsked
<1>2. CASE Executed
  <2>1. done' = Append(done, Message) /\ done \in Seq(Commands \cup {0})
    BY <1>2 DEF Executed, Executes, Control, ControlTypes
  <2>2. done' # <<>>
    BY <2>1
  <2>3. script # <<>>
    <3>1. line # <<>> /\ line[1] \in Part
      BY <1>2, <1>4 DEF Executed, LineBegun, QueueTypes
    <3>2. line[1][1] \in Messages
      BY <1>4, <3>1, PartIs
    <3>3. QED
      BY <3>2 DEF Messages
  <2>4. QED
    BY <1>5, <2>2, <2>3 DEF ClientAsked
<1>3. QED
  BY <1>1, <1>2, RecordEffect

LEMMA CleanTwo ==
    ASSUME NEW a \in Seq(Part), NEW b \in Seq(Part), Clean(a), Clean(b)
    PROVE  Clean(a \o b)
<1>1. PICK m \in Nat, n \in Nat : m = Len(a) /\ n = Len(b)
  OBVIOUS
<1>2. /\ Len(a \o b) = m + n
      /\ \A i \in 1 .. m + n : (a \o b)[i] = IF i <= m THEN a[i] ELSE b[i - m]
  BY <1>1, ConcatProperties
<1>3. ASSUME NEW i \in 1 .. m + n PROVE (a \o b)[i][1] \notin Commands
  <2>1. CASE i <= m
    <3>1. i \in 1 .. m
      BY <2>1
    <3>2. QED
      BY <1>1, <1>2, <2>1, <3>1 DEF Clean
  <2>2. CASE ~(i <= m)
    <3>1. PICK j \in 1 .. n : j = i - m
      <4>1. i - m \in 1 .. n
        BY <2>2
      <4>2. QED
        BY <4>1
    <3>2. QED
      BY <1>1, <1>2, <2>2, <3>1 DEF Clean
  <2>3. QED
    BY <2>1, <2>2
<1>4. QED
  BY <1>2, <1>3 DEF Clean

LEMMA CleanOneMore ==
    ASSUME NEW a \in Seq(Part), Clean(a), NEW part \in Part, part[1] \notin Commands
    PROVE  Clean(Append(a, part))
<1>1. PICK m \in Nat : m = Len(a)
  OBVIOUS
<1>2. /\ Len(Append(a, part)) = m + 1 /\ Append(a, part)[m + 1] = part
      /\ \A i \in 1 .. m : Append(a, part)[i] = a[i]
  BY <1>1
<1>3. \A i \in 1 .. m + 1 : i \in 1 .. m \/ i = m + 1
  OBVIOUS
<1>4. QED
  BY <1>1, <1>2, <1>3 DEF Clean

\* A part of a command stays one, and so does a part of a packet.
LEMMA CleanKept ==
    ASSUME SendingTypes, [Next]_vars, NEW a \in Seq(Part), Clean(a)
    PROVE  \A i \in 1 .. Len(a) : a[i][1] \notin Commands'
<1>1. ASSUME NEW i \in 1 .. Len(a) PROVE a[i][1] \notin Commands'
  <2>1. PICK part \in Part : part = a[i] /\ part[1] \in Messages
    BY PartIs
  <2>2. part[1] \notin Commands
    BY <2>1 DEF Clean
  <2>3. QED
    BY <2>1, <2>2, PartsKept
<1>2. QED
  BY <1>1

\* The data that is read is none of a command.
LEMMA DataTaken ==
    ASSUME StreamControl, TakesPart \/ TakesEnd, ~InCommand, lost = <<>>, Commands \cap torn' = {},
           torn \subseteq torn'
    PROVE  buf[1][1] \notin Commands
<1> SUFFICES ASSUME buf[1][1] \in Commands PROVE FALSE
  OBVIOUS
<1>1. /\ SendingTypes /\ QueueTypes /\ Control /\ NoHoles /\ AheadInOrder /\ BegunInv /\ EndedInv
  BY ControlParts DEF StreamControl, StreamInv, OrderInv, Control
<1>2. PICK l \in Nat \ {0} : l = Len(Ahead) /\ Ahead[1] = buf[1] /\ buf[1] \in Part
  BY <1>1, AheadTypes, TakesAhead
<1>3. PICK m \in Commands, n \in Nat \ {0} : buf[1] = <<m, n>>
  BY <1>1, <1>2, PartIs
<1>4. m \notin torn /\ m \notin torn' /\ m \in Nat
  BY DEF Commands, Messages
<1>5. n # 1
  BY <1>1, <1>3, <1>4, FirstBegins
<1>6. ASSUME NEW i \in 1 .. l PROVE Ahead[i] # <<m, 1>>
  <2>1. CASE i = 1
    BY <1>2, <1>3, <1>5, <2>1
  <2>2. CASE i # 1
    <3>1. 1 \in 1 .. l /\ 1 < i
      BY <2>2
    <3>2. Before(<<m, n>>, Ahead[i])
      BY <1>1, <1>2, <1>3, <3>1 DEF AheadInOrder
    <3>3. ~Before(<<m, n>>, <<m, 1>>)
      BY <1>4 DEF Before
    <3>4. QED
      BY <3>2, <3>3
  <2>3. QED
    BY <2>1, <2>2
<1>7. NoneIs(Ahead, <<m, 1>>) /\ NoneIs(lost, <<m, 1>>)
  <2>1. NoneIs(Ahead, <<m, 1>>)
    BY <1>2, <1>6 DEF NoneIs
  <2>2. Len(<<>>) = 0
    OBVIOUS
  <2>3. QED
    BY <2>1, <2>2 DEF NoneIs
<1>8. Done(m)
  BY <1>1, <1>4, <1>7 DEF BegunInv, Begun, InCommand
<1>9. m < Ahead[1][1]
  <2>1. 1 \in 1 .. l
    OBVIOUS
  <2>2. QED
    BY <1>1, <1>2, <1>4, <1>8, <2>1 DEF EndedInv, Ended
<1>10. QED
  BY <1>2, <1>3, <1>4, <1>9

LEMMA FragStep ==
    ASSUME StreamControl, FragInv, [Next]_vars
    PROVE  FragInv'
<1>1. /\ SendingTypes /\ QueueTypes /\ Control /\ LostInv
      /\ skipped \in Seq(Part) /\ allSkipped \in Seq(Part) /\ presets \in Seq(Part)
      /\ <<>> \in Seq(Part)
  BY ControlParts DEF StreamControl, StreamInv, Control, KeptTypes
<1>2. torn \subseteq torn' /\ Commands \subseteq Commands'
  BY <1>1, TornGrows, StepGrows, ScriptGrows DEF SendingTypes
<1>3. SUFFICES ASSUME Untorn' PROVE Clean(skipped)' /\ Clean(allSkipped)' /\ Clean(presets)'
  BY DEF FragInv
<1>4. lost = <<>>
  BY <1>1, <1>3, StreamEffect DEF Untorn, PeerSent, Idles, TakesPart, TakesEnd, handlerVars, Fails,
     Executes1, LostInv
<1>5. Commands \cap torn' = {}
  BY <1>2, <1>3 DEF Untorn
<1>6. Clean(skipped) /\ Clean(allSkipped) /\ Clean(presets) /\ Clean(<<>>)
  <2>1. Untorn
    BY <1>2, <1>4, <1>5 DEF Untorn
  <2>2. Len(<<>>) = 0
    OBVIOUS
  <2>3. QED
    BY <2>1, <2>2 DEF FragInv, Clean
<1>7. SUFFICES \E a \in Seq(Part), b \in Seq(Part), c \in Seq(Part) :
                  /\ skipped' = a /\ allSkipped' = b /\ presets' = c
                  /\ Clean(a) /\ Clean(b) /\ Clean(c)
  <2>1. PICK a \in Seq(Part), b \in Seq(Part), c \in Seq(Part) :
           /\ skipped' = a /\ allSkipped' = b /\ presets' = c
           /\ Clean(a) /\ Clean(b) /\ Clean(c)
    BY <1>7
  <2>2. /\ \A i \in 1 .. Len(a) : a[i][1] \notin Commands'
        /\ \A i \in 1 .. Len(b) : b[i][1] \notin Commands'
        /\ \A i \in 1 .. Len(c) : c[i][1] \notin Commands'
    BY <1>1, <2>1, CleanKept
  <2>3. QED
    BY <2>1, <2>2 DEF Clean
<1>8. \A a \in Seq(Part), b \in Seq(Part) : Clean(a) /\ Clean(b) => a \o b \in Seq(Part) /\ Clean(a \o b)
  BY SetOfTwo, CleanTwo
<1>9. CASE TakesPart \/ TakesEnd
  <2>1. PICK s \in Seq(Part) : s = Append(skipped, buf[1]) /\ (~InCommand => Clean(s))
    <3>1. buf[1] \in Part
      BY <1>1, <1>9, TakesAhead
    <3>2. ~InCommand => buf[1][1] \notin Commands
      BY <1>2, <1>4, <1>5, <1>9, DataTaken
    <3>3. ~InCommand => Clean(Append(skipped, buf[1]))
      BY <1>1, <1>6, <3>1, <3>2, CleanOneMore
    <3>4. Append(skipped, buf[1]) \in Seq(Part)
      BY <1>1, <3>1
    <3>5. QED
      BY <3>3, <3>4
  <2>2. CASE TakesPart
    <3>1. /\ allSkipped' = allSkipped /\ presets' = presets
          /\ skipped' = skipped \/ (skipped' = s /\ ~InCommand)
      BY <2>1, <2>2 DEF TakesPart, ReadPart, handlerVars
    <3>2. QED
      BY <1>1, <1>6, <2>1, <3>1
  <2>3. CASE TakesEnd
    <3>1. /\ skipped' = <<>> /\ presets' = presets
          /\ \/ allSkipped' = allSkipped \/ allSkipped' = allSkipped \o skipped
             \/ ~InCommand /\ allSkipped' = allSkipped \o s
      BY <2>1, <2>3, EndKeeps
    <3>2. \E b \in Seq(Part) : allSkipped' = b /\ Clean(b)
      BY <1>1, <1>6, <1>8, <2>1, <3>1
    <3>3. QED
      BY <1>1, <1>6, <3>1, <3>2
  <2>4. QED
    BY <1>9, <2>2, <2>3
<1>10. CASE PeerSent \/ Idles
  BY <1>1, <1>6, <1>10 DEF PeerSent, Idles
<1>11. CASE Fails
  <2>1. \E b \in Seq(Part) : allSkipped' = b /\ Clean(b)
    BY <1>1, <1>6, <1>8, <1>11 DEF Fails
  <2>2. presets' = presets /\ skipped' \in {skipped, <<>>}
    BY <1>11 DEF Fails
  <2>3. QED
    BY <1>1, <1>6, <2>1, <2>2
<1>12. CASE Executes1
  <2>1. \E c \in Seq(Part) : presets' = c /\ Clean(c)
    BY <1>1, <1>6, <1>8, <1>12 DEF Executes1
  <2>2. (skipped' = skipped /\ allSkipped' = allSkipped) \/ (skipped' = <<>> /\ allSkipped' = <<>>)
    BY <1>12 DEF Executes1
  <2>3. QED
    BY <1>1, <1>6, <2>1, <2>2
<1>13. QED
  BY <1>1, <1>9, <1>10, <1>11, <1>12, StreamEffect

\* Port settings never hold a piece of a command, and the session begins behind the
\* last byte of the command that asks for it: its LF is read with its CR.
THEOREM NoFragmentKept == Spec => []NoFragments
<1>1. Init => FragInv /\ ClientAsked
  <2>1. Len(<<>>) = 0
    OBVIOUS
  <2>2. QED
    BY <2>1 DEF Init, FragInv, Clean, ClientAsked
<1>2. StreamControl /\ FragInv /\ ClientAsked /\ [Next]_vars => FragInv' /\ ClientAsked'
  BY FragStep, ClientAskedStep DEF StreamControl
<1>3. StreamControl /\ FragInv /\ ClientAsked => NoFragments
  <2> SUFFICES ASSUME StreamControl, FragInv, ClientAsked, Untorn
               PROVE  /\ \A part \in ToSet(allSkipped \o presets) : part[1] \in Packets
                      /\ phase = "client" =>
                            /\ \A part \in ToSet(buf \o unread) : part[1] > LastDone
                            /\ LastDone < Len(script) \/ left = 0
    BY DEF NoFragments, Untorn
  <2>1. /\ SendingTypes /\ QueueTypes /\ EndedInv
        /\ allSkipped \in Seq(Part) /\ presets \in Seq(Part)
        /\ done \in Seq(Commands \cup {0})
    BY ControlParts DEF StreamControl, StreamInv, Control, ControlTypes, KeptTypes
  <2>2. ASSUME NEW s \in Seq(Part), Clean(s), NEW part \in ToSet(s) PROVE part[1] \in Packets
    <3>1. PICK i \in 1 .. Len(s) : part = s[i]
      BY DEF ToSet
    <3>2. part \in Part /\ part[1] \notin Commands
      BY <2>2, <3>1 DEF Clean
    <3>3. QED
      BY <2>1, <3>2, PartIs DEF Packets
  <2>3. ToSet(allSkipped \o presets) = ToSet(allSkipped) \cup ToSet(presets)
    BY <2>1, SetOfTwo
  <2>4. \A part \in ToSet(allSkipped \o presets) : part[1] \in Packets
    BY <2>1, <2>2, <2>3 DEF FragInv
  <2>5. ASSUME phase = "client"
        PROVE  /\ \A part \in ToSet(buf \o unread) : part[1] > LastDone
               /\ LastDone < Len(script) \/ left = 0
    <3>1. PICK n \in Nat \ {0} : n = Len(done)
      BY <2>1, <2>5 DEF ClientAsked
    <3>2. n \in 1 .. Len(done) /\ done[n] \in Commands \cup {0} /\ LastDone = done[n]
      BY <2>1, <3>1 DEF LastDone
    <3>3. PICK m \in Commands \cup {0} : m = LastDone /\ (m # 0 => m \in Commands /\ Ended(m))
      <4>1. LastDone # 0 => Ended(LastDone)
        BY <2>1, <3>2 DEF EndedInv, Untorn, Done
      <4>2. QED
        BY <3>2, <4>1
    <3>4. m \in Nat /\ Len(script) \in Nat \ {0} /\ left \in Nat
      BY <2>1, <2>5 DEF Commands, Messages, SendingTypes, ClientAsked
    <3>8. CASE m = 0
      <4>1. ASSUME NEW part \in ToSet(buf \o unread) PROVE part[1] > m
        <5>1. part \in Part
          <6>1. Ahead \in Seq(Part)
            BY <2>1, AheadTypes
          <6>2. QED
            BY <6>1 DEF ToSet, Ahead
        <5>2. part[1] \in Messages
          BY <2>1, <5>1, PartIs
        <5>3. QED
          BY <3>8, <5>2 DEF Messages
      <4>2. QED
        BY <3>3, <3>4, <3>8, <4>1
    <3>9. SUFFICES ASSUME m \in Commands, Ended(m)
                   PROVE  /\ \A part \in ToSet(buf \o unread) : part[1] > m
                          /\ m < Len(script) \/ left = 0
      BY <3>3, <3>8
    <3>5. ASSUME NEW part \in ToSet(buf \o unread) PROVE part[1] > m
      <4>1. PICK i \in 1 .. Len(Ahead) : part = Ahead[i]
        <5>1. Ahead \in Seq(Part)
          BY <2>1, AheadTypes
        <5>2. QED
          BY <5>1 DEF ToSet, Ahead
      <4>2. part \in Part /\ m < part[1]
        <5>1. Ahead \in Seq(Part)
          BY <2>1, AheadTypes
        <5>2. QED
          BY <3>9, <4>1, <5>1 DEF Ended
      <4>3. part[1] \in Nat
        BY <2>1, <4>2, PartIs
      <4>4. QED
        BY <3>4, <4>2, <4>3
    <3>6. m < Len(script) \/ left = 0
      <4>1. PICK t \in Nat \ {0}, f \in Nat : t = PartsOf(m) /\ f = left
        BY <2>1, <3>4, <3>9, CommandParts
      <4>2. m < Len(script) \/ t <= t - f
        BY <3>9, <4>1 DEF Ended, Arrived, PartsOf
      <4>3. QED
        BY <4>1, <4>2
    <3>7. QED
      BY <3>5, <3>6
  <2>6. QED
    BY <2>4, <2>5
<1>4. QED
  BY <1>1, <1>2, <1>3, StreamInOrder, PTL DEF Spec


(***************************************************************************)
(* The types of the settings.                                              *)
(***************************************************************************)

LEMMA ContentType ==
    ASSUME script \in Seq(Kind), NEW part \in Part
    PROVE  Content(part) \in Seq(Byte)
<1>1. PICK k \in Kind : k = script[part[1]] /\ part[2] \in 1 .. Len(Text[k])
  BY Assumptions DEF Part, Messages
<1>2. PICK b \in Seq(Byte) : b = Bytes(part)
  BY <1>1, Assumptions DEF Bytes
<1>3. PICK n \in Nat : n = Cardinality({i \in DOMAIN b : IsNewline(b[i])})
  <2>1. IsFiniteSet(1 .. Len(b))
    BY FS_Interval
  <2>2. {i \in DOMAIN b : IsNewline(b[i])} \subseteq 1 .. Len(b)
    OBVIOUS
  <2>3. QED
    BY <2>1, <2>2, FS_Subset, FS_CardinalityType
<1>4. SubSeq(b, 1, Len(b) - n) \in Seq(Byte)
  OBVIOUS
<1>5. QED
  BY <1>2, <1>3, <1>4 DEF Content

LEMMA DataType ==
    ASSUME script \in Seq(Kind), NEW parts \in Seq(Part)
    PROVE  Data(parts) \in Seq(Byte)
<1> DEFINE contents == [i \in 1 .. Len(parts) |-> Content(parts[i])]
<1>1. \A i \in 1 .. Len(parts) : Content(parts[i]) \in Seq(Byte)
  BY ContentType
<1>2. contents \in Seq(Seq(Byte))
  BY <1>1
<1> HIDE DEF contents
<1>3. FlattenSeq(contents) \in Seq(Byte)
  BY <1>2, FlattenType
<1>4. QED
  BY <1>3 DEF Data, contents

\* The reader takes the settings from data it has read; each call begins without.
LEMMA VcomEffect ==
    ASSUME [Next]_vars
    PROVE  \/ vcom' = vcom
           \/ vcom' = NoConfig
           \/ vcom' = ParseUSRVCOM(Data(skipped))
           \/ TakesEnd /\ vcom' = ParseUSRVCOM(Data(Append(skipped, buf[1])))
<1>1. CASE Reading
  <2>1. CASE PeerSends \/ PeerCloses \/ Tick \/ Fill \/ ReadPart
    BY <2>1 DEF PeerSends, PeerCloses, Tick, Fill, ReadPart, callVars
  <2>2. CASE ReadLineEnd
    <3>1. \/ vcom' = VcomAfter(Data(skipped))
          \/ vcom' = VcomAfter(Data(Append(skipped, buf[1])))
      BY <2>2 DEF ReadLineEnd, Again
    <3>2. QED
      BY <1>1, <2>2, <3>1 DEF VcomAfter, TakesEnd, Reading
  <2>3. CASE DeadlineKeepsData
    BY <2>3 DEF DeadlineKeepsData, Again
  <2>4. CASE DeadlineDropsLine \/ TimesOut \/ StreamEnds
    BY <2>4 DEF DeadlineDropsLine, TimesOut, StreamEnds, Fail, Again
  <2>5. QED
    BY <1>1, <2>1, <2>2, <2>3, <2>4 DEF Reading, Reader
<1>2. CASE Handler
  BY <1>2 DEF Handler, ModemCommand, Tone, ModemDial, Connect, HandOver,
         Register, BadToken, DeviceTone,
     DeviceWaitEnds, GiveUp, Call, Stops, callVars, readerVars
<1>3. CASE UNCHANGED vars
  BY <1>3 DEF vars, readerVars, callVars
<1>4. QED
  BY <1>1, <1>2, <1>3, NextCases

\* The handler's settings are those the reader returns with a command.
LEMMA ConfigEffect ==
    ASSUME [Next]_vars
    PROVE  config' \in {config, vcom}
<1>1. CASE Reading \/ UNCHANGED vars
  BY <1>1 DEF Reading, vars, handlerVars
<1>2. CASE Handler
  BY <1>2 DEF Handler, ModemCommand, Tone, ModemDial, Connect, Register, BadToken, DeviceTone,
     DeviceWaitEnds, GiveUp, Handles, Or
<1>3. QED
  BY <1>1, <1>2, NextCases

\* What goes to the device is made of the settings and of what was kept as data.
LEMMA ForwardEffect ==
    ASSUME [Next]_vars
    PROVE  \/ forward' = forward
           \/ forward' = ForwardOf(config', Data(allSkipped))
           \/ forward' = ForwardOf(config', Data(presets))
<1>1. CASE Reading \/ UNCHANGED vars
  BY <1>1 DEF Reading, vars, handlerVars
<1>2. CASE ModemDial \/ Connect
  BY <1>2 DEF ModemDial, Connect, HandOver
<1>3. CASE Handler /\ ~(ModemDial \/ Connect)
  BY <1>3 DEF Handler, ModemCommand, Tone, Register, BadToken, DeviceTone, DeviceWaitEnds, GiveUp
<1>4. QED
  BY <1>1, <1>2, <1>3, NextCases

LEMMA ForwardType ==
    ASSUME NEW c \in ConfigType, NEW data \in Seq(Byte)
    PROVE  ForwardOf(c, data) \in Seq(Byte)
<1>1. ParseUSRVCOM(data) \in ConfigType
  BY ParseType
<1>2. BuildRFC2217Packet(c) \in Seq(Byte) /\ BuildRFC2217Packet(ParseUSRVCOM(data)) \in Seq(Byte)
  BY <1>1, BuildType
<1>3. <<>> \in Seq(Byte)
  OBVIOUS
<1>4. QED
  BY <1>2, <1>3, Zenon DEF ForwardOf

SettingsTypes ==
    /\ vcom \in ConfigType /\ config \in ConfigType
    /\ forward \in Seq(Byte)
    /\ torn \subseteq Messages

LEMMA SettingsStep ==
    ASSUME Control, KeptTypes, SettingsTypes, [Next]_vars
    PROVE  SettingsTypes'
<1>1. SendingTypes /\ QueueTypes /\ script \in Seq(Kind)
  BY ControlParts DEF Control, SendingTypes
<1>2. skipped \in Seq(Part) /\ allSkipped \in Seq(Part) /\ presets \in Seq(Part)
  BY DEF KeptTypes
<1>3. vcom' \in ConfigType
  <2>1. NoConfig \in ConfigType
    BY DEF NoConfig, ConfigType
  <2>2. ParseUSRVCOM(Data(skipped)) \in ConfigType
    BY <1>1, <1>2, DataType, ParseType
  <2>3. ASSUME TakesEnd PROVE ParseUSRVCOM(Data(Append(skipped, buf[1]))) \in ConfigType
    <3>1. buf[1] \in Part
      BY <1>1, <2>3, TakesAhead
    <3>2. Append(skipped, buf[1]) \in Seq(Part)
      BY <1>2, <3>1
    <3>3. QED
      BY <1>1, <3>2, DataType, ParseType
  <2>4. QED
    BY <2>1, <2>2, <2>3, VcomEffect DEF SettingsTypes
<1>4. config' \in ConfigType
  BY ConfigEffect DEF SettingsTypes
<1>5. forward' \in Seq(Byte)
  <2>1. Data(allSkipped) \in Seq(Byte) /\ Data(presets) \in Seq(Byte)
    BY <1>1, <1>2, DataType
  <2>2. /\ ForwardOf(config', Data(allSkipped)) \in Seq(Byte)
        /\ ForwardOf(config', Data(presets)) \in Seq(Byte)
    BY <1>4, <2>1, ForwardType
  <2>3. QED
    BY <2>2, ForwardEffect DEF SettingsTypes
<1>6. torn' \subseteq Messages'
  <2>1. Messages \subseteq Messages'
    BY <1>1, StepGrows, ScriptGrows
  <2>2. Cut \subseteq Messages
    <3>1. PICK s \in Seq(Part) : s = line \o skipped
      <4>1. line \in Seq(Part)
        BY <1>1 DEF QueueTypes
      <4>2. ASSUME NEW b \in Seq(Part), NEW u \in Seq(Part) PROVE b \o u \in Seq(Part)
        OBVIOUS
      <4>3. QED
        BY <1>2, <4>1, <4>2
    <3>2. ToSet(s) \subseteq Part
      BY DEF ToSet
    <3>3. \A part \in Part : part[1] \in Messages
      BY DEF Part
    <3>4. QED
      BY <3>1, <3>2, <3>3 DEF Cut
  <2>3. ASSUME TakesPart \/ TakesEnd PROVE buf[1][1] \in Messages
    <3>1. buf[1] \in Part
      BY <1>1, <2>3, TakesAhead
    <3>2. QED
      BY <3>1 DEF Part
  <2>4. torn' \subseteq Messages
    BY <2>2, <2>3, StreamEffect DEF SettingsTypes, PeerSent, Idles, TakesPart, TakesEnd, ReadPart,
       ReadLineEnd, Fails, Executes1
  <2>5. QED
    BY <2>1, <2>4
<1>7. QED
  BY <1>3, <1>4, <1>5, <1>6 DEF SettingsTypes

\* Every variable of a handshake has its type: what the reader keeps are parts of
\* the messages sent, and whatever the data, the settings read from it are
\* settings and what goes to the device is bytes.
THEOREM TypeCorrect == Spec => []TypeOK
<1>1. Init => SettingsTypes
  <2> SUFFICES ASSUME Init PROVE SettingsTypes
    OBVIOUS
  <2>1. vcom = NoConfig /\ config = NoConfig /\ forward = <<>> /\ torn = {}
    BY DEF Init, ReaderInit
  <2>2. QED
    BY <2>1 DEF SettingsTypes, NoConfig, ConfigType
<1>2. StreamControl /\ SettingsTypes /\ [Next]_vars => SettingsTypes'
  BY SettingsStep DEF StreamControl
<1>3. StreamControl /\ SettingsTypes => TypeOK
  BY DEF StreamControl, Control, LineBegun, KeptTypes, SettingsTypes, TypeOK, DataTypes
<1>4. QED
  BY <1>1, <1>2, <1>3, StreamInOrder, PTL DEF Spec


\* The settings of a USR-VCOM packet are converted as they are meant.
THEOREM SettingsConverted == Spec => []ConversionFaithful
<1>1. ConversionFaithful
  <2>1. ASSUME NEW s \in Modes PROVE s \in Setting
    <3>1. PICK top : top = Weight[1] - 1
      OBVIOUS
    <3>2. s.baud \in 0 .. top
      BY <3>1, SMT DEF Modes, Weight
    <3>3. s.baud \in 0 .. Weight[1] - 1
      BY <3>1, <3>2
    <3>4. QED
      BY <3>3, SMT DEF Modes, Setting
  <2>2. QED
    BY <2>1, ConversionsFaithful, Zenon DEF ConversionFaithful
<1>2. QED
  BY <1>1, PTL
=============================================================================
