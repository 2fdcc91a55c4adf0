--------------------------- MODULE SettingsProofs ---------------------------
(***************************************************************************)
(* The proof of SettingsKept: what becomes of the one packet of settings   *)
(* that a client sends before its session, from the first of its bytes to  *)
(* the bytes for the device.                                               *)
(***************************************************************************)
EXTENDS HandshakeProofs

(***************************************************************************)
(* The parts that have been read.                                          *)
(***************************************************************************)

\* The reader is behind the n-th part of message q.
Past(q, n) == Arrived(<<q, n>>) /\ \A i \in 1 .. Len(Ahead) : Before(<<q, n>>, Ahead[i])

\* Something of a packet has been read.  A LF that has gone with the CR of the
\* command returned was no data, whatever message it is of.
Touched(q) ==
    q \in Packets /\ Past(q, 1) /\ ~(reading = "returned" /\ Message # 0 /\ Message < q)

Only(p) == \A q \in Packets : Touched(q) => q = p

\* Nothing but that LF has been read of what comes behind the command returned.
LfBehind ==
    phase = "handshake" /\ reading = "returned" /\ Message # 0 =>
        \A q \in Packets : Past(q, 1) /\ Message < q => Bytes(<<q, 1>>) = <<LF>>

LEMMA PacketIs ==
    ASSUME SendingTypes, NEW p \in Packets
    PROVE  /\ p \in Messages /\ p \in Nat /\ p # 0 /\ p \notin Commands
           /\ script[p] \in Kind /\ Text[script[p]] \in Seq(Seq(Byte) \ {<<>>})
           /\ PartsOf(p) \in Nat \ {0} /\ PartsOf(p) = Len(Text[script[p]])
           /\ \A n \in 1 .. PartsOf(p) : <<p, n>> \in Part /\ Bytes(<<p, n>>) = Text[script[p]][n]
<1>1. p \in Messages /\ p \in Nat /\ p # 0 /\ p \notin Commands
  BY DEF Packets, Messages
<1>2. script[p] \in Kind
  BY <1>1 DEF SendingTypes, Messages
<1>3. Text[script[p]] \in Seq(Seq(Byte) \ {<<>>}) \ {<<>>}
  BY <1>2, Assumptions
<1>4. PartsOf(p) \in Nat \ {0} /\ PartsOf(p) = Len(Text[script[p]])
  BY <1>3 DEF PartsOf
<1>5. \A n \in 1 .. PartsOf(p) : <<p, n>> \in Part /\ Bytes(<<p, n>>) = Text[script[p]][n]
  BY <1>1, <1>4 DEF Part, Bytes
<1>6. QED
  BY <1>1, <1>2, <1>3, <1>4, <1>5

\* What has been read stays so.
LEMMA PastStays ==
    ASSUME QueueTypes, NEW k \in 0 .. Len(Ahead), Consumes(k), NEW q, NEW n, Past(q, n)
    PROVE  Past(q, n)'
<1>1. PICK l \in Nat : l = Len(Ahead)
  BY AheadTypes
<1>2. /\ Len(Ahead') = l - k
      /\ \A i \in 1 .. l - k : Ahead'[i] = Ahead[k + i] /\ k + i \in 1 .. l
  BY <1>1 DEF Consumes, Rest
<1>3. \A part : Arrived(part)' <=> Arrived(part)
  BY DEF Consumes, Arrived
<1>4. QED
  BY <1>1, <1>2, <1>3 DEF Past, Before

LEMMA PastSent ==
    ASSUME SendingTypes, SendingTypes', QueueTypes, [Next]_vars, PeerSent, NEW q \in Messages,
           NEW n \in 1 .. PartsOf(q), Past(q, n)
    PROVE  Past(q, n)'
<1>1. PICK p : p = LastSent' /\ Ahead' = Append(Ahead, p)
  BY SentFollows
<1>2. PICK l \in Nat, c \in Nat, f \in Nat, d \in Nat, g \in Nat :
         l = Len(Ahead) /\ c = Len(script) /\ f = left /\ d = Len(script') /\ g = left'
  BY AheadTypes DEF SendingTypes
<1>3. q \in Nat /\ PartsOf(q)' = PartsOf(q) /\ PartsOf(q) \in Nat /\ n \in Nat
  <2>1. q \in Nat /\ PartsOf(q)' = PartsOf(q)
    BY PartsKept DEF Messages
  <2>2. script[q] \in Kind
    BY DEF SendingTypes, Messages
  <2>3. Text[script[q]] \in Seq(Seq(Byte) \ {<<>>}) \ {<<>>}
    BY <2>2, Assumptions
  <2>4. QED
    BY <2>1, <2>3 DEF PartsOf
<1>4. PICK t \in Nat : t = PartsOf(q) /\ t = PartsOf(q)' /\ n <= t
  BY <1>3
<1>5. q < c \/ (q = c /\ n <= t - f)
  BY <1>2, <1>4 DEF Past, Arrived, PartsOf
<1>6. (d = c /\ g = f - 1) \/ d = c + 1
  <2>1. CASE script' = script /\ left' = left - 1
    BY <1>2, <2>1
  <2>2. ASSUME NEW kind \in Kind, script' = Append(script, kind) PROVE d = c + 1
    BY <1>2, <2>2 DEF SendingTypes
  <2>3. QED
    BY <2>1, <2>2 DEF PeerSent, Sent
<1>7. q < d \/ (q = d /\ n <= t - g /\ n < t - g)
  BY <1>2, <1>3, <1>4, <1>5, <1>6
<1>8. Arrived(<<q, n>>)'
  BY <1>2, <1>4, <1>7 DEF Arrived, PartsOf
<1>9. Before(<<q, n>>, p)
  <2>1. CASE q < d
    BY <1>1, <1>2, <2>1 DEF LastSent, Before
  <2>2. CASE q = d /\ n < t - g
    <3>1. p = <<d, t - g>>
      BY <1>1, <1>2, <1>4, <2>2 DEF LastSent
    <3>2. QED
      BY <2>2, <3>1 DEF Before
  <2>3. QED
    BY <1>7, <2>1, <2>2
<1>10. /\ Len(Ahead') = l + 1 /\ Ahead'[l + 1] = p
       /\ \A i \in 1 .. l : Ahead'[i] = Ahead[i]
  <2>1. Ahead \in Seq(Part)
    BY AheadTypes
  <2>2. QED
    BY <1>1, <1>2, <2>1
<1>11. \A i \in 1 .. l + 1 : i \in 1 .. l \/ i = l + 1
  OBVIOUS
<1>12. \A i \in 1 .. Len(Ahead') : Before(<<q, n>>, Ahead'[i])
  BY <1>2, <1>9, <1>10, <1>11 DEF Past
<1>13. QED
  BY <1>8, <1>12 DEF Past, Before

(***************************************************************************)
(* The data of a packet.                                                   *)
(***************************************************************************)

LEMMA VcomPacketIs ==
    ASSUME NEW s \in Setting
    PROVE  Len(VcomPacket(s)) = 8 /\ IsUSRVCOM(VcomPacket(s)) /\ ParseUSRVCOM(VcomPacket(s)) # NoConfig
<1>1. PICK b \in Seq(Byte) : b = BigEndian(s.baud, 3) /\ Len(b) = 3
  <2>1. s.baud \in Nat /\ 3 \in 1 .. 4
    <3>1. PICK r : r = s.baud /\ r \in 0 .. Weight[1] - 1
      BY DEF Setting
    <3>2. r \in Nat
      BY <3>1, SMT DEF Weight
    <3>3. QED
      BY <3>1, <3>2
  <2>2. QED
    BY <2>1, BigEndianType
<1>2. PICK z : z = (s.size - 5) + 4 * (s.stop - 1)
                     + IF s.parity = "N" THEN 0 ELSE 8 + 16 * (ParityIndex(s) - 2)
  OBVIOUS
<1>3. z \in Int
  <2>1. s.size \in Int /\ s.stop \in Int /\ ParityIndex(s) \in Int
    BY ParityIndexOf DEF Setting
  <2>2. PICK k \in Int : k = ParityIndex(s)
    BY <2>1
  <2>3. QED
    BY <1>2, <2>1, <2>2
<1>4. PICK c \in Seq(Int) : c = b \o <<z>> /\ Len(c) = 4
  <2>1. Byte \subseteq Int
    BY DEF Byte
  <2>2. b \in Seq(Int)
    BY <1>1, <2>1, SeqMonotonic
  <2>3. PICK y \in Seq(Int) : y = <<z>> /\ Len(y) = 1
    <3>1. <<z>> \in Seq(Int) /\ Len(<<z>>) = 1
      BY <1>3
    <3>2. QED
      BY <3>1
  <2>4. b \o y \in Seq(Int) /\ Len(b \o y) = Len(b) + Len(y)
    BY <2>2, <2>3, ConcatProperties
  <2>5. Len(b \o y) = 4
    <3>1. Len(b) = 3 /\ Len(y) = 1
      BY <1>1, <2>3
    <3>2. Len(b \o y) = 3 + 1
      BY <2>4, <3>1, Zenon
    <3>3. QED
      BY <3>2
  <2>6. QED
    BY <2>3, <2>4, <2>5
<1>5. PICK e : e = (c[1] + c[2] + c[3] + c[4]) % 256
  OBVIOUS
<1>6. e \in Int
  BY <1>4, <1>5
<1>7. VcomPacket(s) = (USRVCOMHeader \o c) \o <<e>>
  <2>1. PICK r : r = IF s.parity = "N" THEN 0 ELSE 8 + 16 * (ParityIndex(s) - 2)
    OBVIOUS
  <2>2. z = (s.size - 5) + 4 * (s.stop - 1) + r
    BY <1>2, <2>1, Zenon
  <2>3. c = BigEndian(s.baud, 3) \o <<(s.size - 5) + 4 * (s.stop - 1) + r>>
    BY <1>1, <1>4, <2>2, Zenon
  <2>4. VcomPacket(s) = (USRVCOMHeader \o c) \o <<(c[1] + c[2] + c[3] + c[4]) % 256>>
    BY <2>1, <2>3, SMT DEF VcomPacket
  <2>5. QED
    BY <1>5, <2>4, Zenon
<1>8. PICK h \in Seq(Int) : h = USRVCOMHeader /\ Len(h) = 3
  <2>1. <<85, 170, 85>> \in Seq(Int) /\ Len(<<85, 170, 85>>) = 3
    OBVIOUS
  <2>2. QED
    BY <2>1 DEF USRVCOMHeader
<1>9. PICK u \in Seq(Int) : u = h \o c /\ Len(u) = 7 /\ \A i \in 1 .. 3 : u[i] = h[i]
  <2>1. /\ h \o c \in Seq(Int) /\ Len(h \o c) = Len(h) + Len(c)
        /\ \A i \in 1 .. Len(h) + Len(c) : (h \o c)[i] = IF i <= Len(h) THEN h[i] ELSE c[i - Len(h)]
    BY ConcatProperties
  <2>2. Len(h \o c) = 7 /\ \A i \in 1 .. 3 : (h \o c)[i] = h[i]
    BY <1>4, <1>8, <2>1
  <2>3. QED
    BY <2>1, <2>2
<1>10. PICK v \in Seq(Int) : v = VcomPacket(s) /\ Len(v) = 8 /\ \A i \in 1 .. 3 : v[i] = h[i]
  <2>1. <<e>> \in Seq(Int) /\ Len(<<e>>) = 1
    BY <1>6
  <2>2. /\ u \o <<e>> \in Seq(Int) /\ Len(u \o <<e>>) = Len(u) + Len(<<e>>)
        /\ \A i \in 1 .. Len(u) + Len(<<e>>) :
              (u \o <<e>>)[i] = IF i <= Len(u) THEN u[i] ELSE <<e>>[i - Len(u)]
    BY <2>1, ConcatProperties
  <2>3. PICK x : x = u \o <<e>>
    OBVIOUS
  <2>4. Len(x) = 8 /\ x \in Seq(Int)
    <3>1. Len(x) = 7 + 1
      BY <1>9, <2>1, <2>2, <2>3, Zenon
    <3>2. QED
      BY <2>2, <2>3, <3>1
  <2>5. ASSUME NEW i \in 1 .. 3 PROVE x[i] = h[i]
    <3>1. i \in 1 .. 7 + 1 /\ i <= 7
      OBVIOUS
    <3>2. x[i] = IF i <= 7 THEN u[i] ELSE <<e>>[i - 7]
      BY <1>9, <2>1, <2>2, <2>3, <3>1, Zenon
    <3>3. QED
      BY <1>9, <3>1, <3>2, Zenon
  <2>6. x = VcomPacket(s)
    BY <1>7, <1>8, <1>9, <2>3, Zenon
  <2>7. QED
    BY <2>4, <2>5, <2>6, Zenon
<1>11. SubSeq(v, 1, 1 + 2) = h
  <2>1. PICK w \in Seq(Int) : w = SubSeq(v, 1, 3) /\ Len(w) = 3 /\ \A i \in 1 .. 3 : w[i] = v[i]
    <3>1. \A i \in 1 .. 3 : v[i] \in Int
      <4>1. v \in Seq(Int) /\ Len(v) = 8
        BY <1>10
      <4>2. \A i \in 1 .. 3 : i \in 1 .. Len(v)
        BY <4>1
      <4>3. QED
        BY <4>1, <4>2, ElementOfSeq
    <3>2. /\ SubSeq(v, 1, 3) \in Seq(Int)
          /\ Len(SubSeq(v, 1, 3)) = IF 1 <= 3 THEN 3 - 1 + 1 ELSE 0
          /\ \A i \in 1 .. 3 - 1 + 1 : SubSeq(v, 1, 3)[i] = v[1 + i - 1]
      BY <3>1, SubSeqProperties
    <3>3. Len(SubSeq(v, 1, 3)) = 3 /\ \A i \in 1 .. 3 : SubSeq(v, 1, 3)[i] = v[i]
      BY <3>2
    <3>4. QED
      BY <3>2, <3>3
  <2>2. \A i \in 1 .. Len(w) : w[i] = h[i]
    BY <1>10, <2>1
  <2>3. w = h
    BY <1>8, <2>1, <2>2, SeqEqual
  <2>4. QED
    BY <2>1, <2>3
<1>12. IsUSRVCOM(v)
  BY <1>8, <1>10, <1>11 DEF IsUSRVCOM, HeaderAt
<1>13. ParseUSRVCOM(VcomPacket(s)).DataBits = s.size
  BY ParsedAsMeant
<1>14. NoConfig.DataBits # s.size
  BY DEF NoConfig, Setting
<1>15. QED
  BY <1>10, <1>12, <1>13, <1>14

LEMMA ParsedShort ==
    ASSUME NEW data \in Seq(Byte), Len(data) < 8
    PROVE  ParseUSRVCOM(data) = NoConfig
<1>1. {i \in 1 .. Len(data) - USRVCOMPacketLen + 1 : HeaderAt(data, i)} = {}
  BY DEF USRVCOMPacketLen
<1>2. QED
  BY <1>1 DEF ParseUSRVCOM

LEMMA FlattenNone == FlattenSeq(<<>>) = <<>>
<1>1. <<>> \in Seq(Seq(Byte)) /\ Len(<<>>) = 0
  OBVIOUS
<1>2. PICK f : Flattens(f, 0, Byte, <<>>)
  BY <1>1, FlattensSome
<1>3. QED
  BY <1>2 DEF Flattens

\* The beginning of a text is shorter than the text.
LEMMA PrefixShorter ==
    ASSUME NEW text \in Seq(Seq(Byte) \ {<<>>}), NEW n \in Nat, n = Len(text), NEW k \in Nat, k < n
    PROVE  Len(FlattenSeq(SubSeq(text, 1, k))) < Len(FlattenSeq(text))
<1>1. text \in Seq(Seq(Byte)) /\ \A i \in 1 .. n : text[i] \in Seq(Byte) /\ Len(text[i]) \in Nat \ {0}
  <2>1. text \in Seq(Seq(Byte))
    OBVIOUS
  <2>2. \A i \in 1 .. n : text[i] \in Seq(Byte) /\ text[i] # <<>>
    OBVIOUS
  <2>3. \A s \in Seq(Byte) : s # <<>> => Len(s) \in Nat \ {0}
    OBVIOUS
  <2>4. QED
    BY <2>1, <2>2, <2>3
<1>2. PICK b \in Seq(Seq(Byte)) : b = SubSeq(text, 1, k) /\ Len(b) = k /\ \A i \in 1 .. k : b[i] = text[i]
  <2>1. 1 .. k \subseteq 1 .. n
    OBVIOUS
  <2>2. SubSeq(text, 1, k) \in Seq(Seq(Byte)) /\ Len(SubSeq(text, 1, k)) = k
    BY <1>1
  <2>3. \A i \in 1 .. k : SubSeq(text, 1, k)[i] = text[i]
    BY <1>1
  <2>4. QED
    BY <2>2, <2>3
<1>3. PICK f : Flattens(f, n, Byte, text)
  BY <1>1, FlattensSome
<1>4. PICK g : Flattens(g, k, Byte, b)
  BY <1>2, FlattensSome
<1>5. \A i \in 0 .. k : i \in {j \in 0 .. k : g[j] = f[j]}
  <2> DEFINE P == {j \in 0 .. k : g[j] = f[j]}
  <2>1. 0 \in P
    BY <1>3, <1>4 DEF Flattens
  <2>2. ASSUME NEW i \in 1 .. k, i - 1 \in P PROVE i \in P
    <3>1. i \in 1 .. n /\ g[i - 1] = f[i - 1]
      BY <2>2
    <3>2. g[i] = f[i]
      BY <1>2, <1>3, <1>4, <3>1 DEF Flattens
    <3>3. QED
      BY <3>2
  <2> HIDE DEF P
  <2>3. \A i \in 0 .. k : i \in P
    BY <2>1, <2>2, Induction
  <2>4. QED
    BY <2>3 DEF P
<1>6. FlattenSeq(b) = f[k]
  <2>1. FlattenSeq(b) = g[k]
    BY <1>4, Zenon DEF Flattens
  <2>2. k \in 0 .. k
    OBVIOUS
  <2>3. g[k] = f[k]
    BY <1>5, <2>2, Zenon
  <2>4. QED
    BY <2>1, <2>3, Zenon
<1>7. \A i \in 0 .. n : i \in {j \in 0 .. n : j > k => Len(f[j]) > Len(f[k])}
  <2> DEFINE P == {j \in 0 .. n : j > k => Len(f[j]) > Len(f[k])}
  <2>1. 0 \in P
    OBVIOUS
  <2>2. ASSUME NEW i \in 1 .. n, i - 1 \in P PROVE i \in P
    <3>1. PICK x \in Nat, y \in Nat, z \in Nat, t \in Nat \ {0} :
             x = Len(f[k]) /\ y = Len(f[i - 1]) /\ z = Len(f[i]) /\ t = Len(text[i])
      <4>1. k \in 0 .. n /\ i \in 0 .. n /\ i - 1 \in 0 .. n
        OBVIOUS
      <4>2. f[k] \in Seq(Byte) /\ f[i] \in Seq(Byte) /\ f[i - 1] \in Seq(Byte)
        BY <1>3, <4>1 DEF Flattens
      <4>3. Len(f[k]) \in Nat /\ Len(f[i]) \in Nat /\ Len(f[i - 1]) \in Nat
        <5>1. \A s \in Seq(Byte) : Len(s) \in Nat
          OBVIOUS
        <5>2. QED
          BY <4>2, <5>1, Zenon
      <4>4. Len(text[i]) \in Nat \ {0}
        BY <1>1, Zenon
      <4>5. QED
        BY <4>3, <4>4, Zenon
    <3>2. z = y + t
      <4>1. PICK u \in Seq(Byte), v \in Seq(Byte) : u = f[i - 1] /\ v = text[i] /\ f[i] = u \o v
        <5>1. i - 1 \in 0 .. n
          OBVIOUS
        <5>2. f[i - 1] \in Seq(Byte) /\ f[i] = f[i - 1] \o text[i]
          BY <1>3, <5>1 DEF Flattens
        <5>3. QED
          BY <1>1, <5>2
      <4>2. Len(u \o v) = Len(u) + Len(v)
        BY <4>1, ConcatProperties
      <4>3. QED
        BY <3>1, <4>1, <4>2
    <3>3. i - 1 > k => y > x
      BY <2>2, <3>1
    <3>4. i > k => i - 1 > k \/ y = x
      <4>1. i > k => i - 1 > k \/ i - 1 = k
        OBVIOUS
      <4>2. QED
        BY <3>1, <4>1
    <3>5. i > k => z > x
      <4>1. y > x \/ y = x => z > x
        <5>1. x \in Nat /\ y \in Nat /\ z \in Nat /\ t \in Nat \ {0}
          BY <3>1
        <5>2. QED
          BY <5>1, <3>2
      <4>2. QED
        BY <3>3, <3>4, <4>1
    <3>6. QED
      BY <3>1, <3>5
  <2> HIDE DEF P
  <2>3. \A i \in 0 .. n : i \in P
    BY <2>1, <2>2, Induction
  <2>4. QED
    BY <2>3 DEF P
<1>8. Len(f[n]) > Len(f[k])
  BY <1>7
<1>9. Len(f[n]) \in Nat /\ Len(f[k]) \in Nat
  BY <1>3 DEF Flattens
<1>10. QED
  BY <1>2, <1>3, <1>6, <1>8, <1>9 DEF Flattens

Extends(a, b) == Len(a) <= Len(b) /\ \A i \in 1 .. Len(a) : b[i] = a[i]

LEMMA ExtendsMore ==
    ASSUME NEW a \in Seq(Byte), NEW b \in Seq(Byte), NEW c \in Seq(Byte), Extends(a, b)
    PROVE  Extends(a, b \o c)
<1>1. PICK l \in Nat, m \in Nat, n \in Nat : l = Len(a) /\ m = Len(b) /\ n = Len(c)
  OBVIOUS
<1>2. /\ Len(b \o c) = m + n
      /\ \A i \in 1 .. m + n : (b \o c)[i] = IF i <= m THEN b[i] ELSE c[i - m]
  BY <1>1, ConcatProperties
<1>3. l <= m + n /\ \A i \in 1 .. l : i \in 1 .. m + n /\ i <= m
  BY <1>1 DEF Extends
<1>4. \A i \in 1 .. l : (b \o c)[i] = b[i]
  BY <1>2, <1>3
<1>5. QED
  BY <1>1, <1>2, <1>3, <1>4 DEF Extends

\* The n-th part stands in the whole behind the parts before it.
Stands(w, f, text, n) ==
    /\ w \in Seq(Byte) /\ Len(f[n - 1]) \in Nat
    /\ Len(f[n]) = Len(f[n - 1]) + Len(text[n]) /\ Len(f[n]) <= Len(w)
    /\ \A i \in 1 .. Len(text[n]) : w[Len(f[n - 1]) + i] = text[n][i]

LEMMA PartInside ==
    ASSUME NEW text \in Seq(Seq(Byte)), NEW t \in Nat, t = Len(text), NEW f, Flattens(f, t, Byte, text),
           NEW n \in 1 .. t
    PROVE  Stands(FlattenSeq(text), f, text, n)
<1>1. PICK a \in Seq(Byte), b \in Seq(Byte), c \in Seq(Byte) :
         a = f[n - 1] /\ b = text[n] /\ c = f[n] /\ c = a \o b
  <2>1. n - 1 \in 0 .. t /\ n \in 0 .. t /\ text[n] \in Seq(Byte)
    OBVIOUS
  <2>2. QED
    BY <2>1 DEF Flattens
<1>2. \A j \in 0 .. t : j \in {x \in 0 .. t : x >= n => Extends(c, f[x])}
  <2> DEFINE P == {x \in 0 .. t : x >= n => Extends(c, f[x])}
  <2>1. 0 \in P
    OBVIOUS
  <2>2. ASSUME NEW j \in 1 .. t, j - 1 \in P PROVE j \in P
    <3>1. SUFFICES ASSUME j >= n PROVE Extends(c, f[j])
      OBVIOUS
    <3>2. f[j - 1] \in Seq(Byte) /\ text[j] \in Seq(Byte) /\ f[j] = f[j - 1] \o text[j]
      <4>1. j - 1 \in 0 .. t /\ text[j] \in Seq(Byte)
        OBVIOUS
      <4>2. QED
        BY <4>1 DEF Flattens
    <3>3. CASE j = n
      <4>1. f[j] = c
        BY <1>1, <3>3
      <4>2. Len(c) <= Len(c)
        BY <1>1
      <4>3. QED
        BY <4>1, <4>2 DEF Extends
    <3>4. CASE j # n
      <4>1. Extends(c, f[j - 1])
        BY <2>2, <3>1, <3>4
      <4>2. QED
        BY <1>1, <3>2, <4>1, ExtendsMore
    <3>5. QED
      BY <3>3, <3>4
  <2> HIDE DEF P
  <2>3. \A j \in 0 .. t : j \in P
    BY <2>1, <2>2, Induction
  <2>4. QED
    BY <2>3 DEF P
<1>3. PICK w \in Seq(Byte) : w = FlattenSeq(text) /\ w = f[t] /\ Extends(c, w)
  <2>1. t \in 0 .. t /\ t >= n
    OBVIOUS
  <2>2. QED
    BY <1>2, <2>1 DEF Flattens
<1>4. PICK l \in Nat, m \in Nat : l = Len(a) /\ m = Len(b)
  OBVIOUS
<1>5. Len(c) = l + m /\ \A i \in 1 .. l + m : c[i] = IF i <= l THEN a[i] ELSE b[i - l]
  <2>1. /\ Len(a \o b) = Len(a) + Len(b)
        /\ \A i \in 1 .. Len(a) + Len(b) : (a \o b)[i] = IF i <= Len(a) THEN a[i] ELSE b[i - Len(a)]
    BY ConcatProperties
  <2>2. QED
    BY <1>1, <1>4, <2>1, Zenon
<1>6. ASSUME NEW i \in 1 .. m PROVE w[l + i] = b[i]
  <2>1. l + i \in 1 .. l + m /\ ~(l + i <= l) /\ (l + i) - l = i
    OBVIOUS
  <2>2. c[l + i] = b[i]
    BY <1>5, <2>1
  <2>3. w[l + i] = c[l + i]
    BY <1>3, <1>5, <2>1 DEF Extends
  <2>4. QED
    BY <2>2, <2>3
<1>7. QED
  BY <1>1, <1>3, <1>4, <1>5, <1>6 DEF Extends, Stands

\* Where the reader takes a part for the beginning of a command, the message it is of
\* holds an 'A' with a 'T' behind it, in this part or with the next.
LEMMA HoldsWhatBegins ==
    ASSUME NEW text \in Seq(Seq(Byte) \ {<<>>}), NEW n \in 1 .. Len(text),
           \/ IsPrefix(AT, text[n])
           \/ text[n] = <<AT[1]>> /\ n < Len(text) /\ Head(text[n + 1]) = AT[2]
    PROVE  HoldsCommand(FlattenSeq(text))
<1>1. PICK t \in Nat : t = Len(text)
  OBVIOUS
<1>2. text \in Seq(Seq(Byte)) /\ \A j \in 1 .. t : text[j] \in Seq(Byte) \ {<<>>}
  BY <1>1
<1>3. PICK f : Flattens(f, t, Byte, text)
  BY <1>1, <1>2, FlattensSome
<1>4. PICK w \in Seq(Byte), o \in Nat, m \in Nat \ {0} :
         /\ w = FlattenSeq(text) /\ o = Len(f[n - 1]) /\ m = Len(text[n])
         /\ Len(f[n]) = o + m /\ o + m <= Len(w)
         /\ \A i \in 1 .. m : w[o + i] = text[n][i]
  <2>1. \A s \in Seq(Byte) \ {<<>>} : Len(s) \in Nat \ {0}
    OBVIOUS
  <2>2. Len(text[n]) \in Nat \ {0}
    BY <1>1, <1>2, <2>1
  <2>3. Stands(FlattenSeq(text), f, text, n)
    BY <1>1, <1>2, <1>3, PartInside
  <2>4. QED
    BY <2>2, <2>3, Zenon DEF Stands
<1>5. AT[1] = 65 /\ AT[2] = 84 /\ AT = <<65, 84>> /\ Len(w) \in Nat
  BY DEF AT
<1>6. ASSUME NEW i \in 1 .. Len(w) - 1, w[i] = 65, w[i + 1] = 84 PROVE HoldsCommand(w)
  <2>1. i \in 1 .. Len(w) /\ i + 1 \in 1 .. Len(w) /\ i + 1 = (i + 2) - 1
    BY <1>5
  <2>2. \A j \in i .. i + 1 : w[j] \in Byte
    BY <2>1
  <2>3. PICK u \in Seq(Byte) : u = SubSeq(w, i, i + 1) /\ Len(u) = 2 /\ u[1] = w[i] /\ u[2] = w[i + 1]
    <3>1. /\ SubSeq(w, i, i + 1) \in Seq(Byte)
          /\ Len(SubSeq(w, i, i + 1)) = IF i <= i + 1 THEN (i + 1) - i + 1 ELSE 0
          /\ \A j \in 1 .. (i + 1) - i + 1 : SubSeq(w, i, i + 1)[j] = w[i + j - 1]
      BY <2>2, SubSeqProperties
    <3>2. (i + 1) - i + 1 = 2 /\ i <= i + 1 /\ i + 1 - 1 = i /\ i + 2 - 1 = i + 1
      BY <1>5
    <3>3. 1 \in 1 .. (i + 1) - i + 1 /\ 2 \in 1 .. (i + 1) - i + 1
      BY <3>2
    <3>4. Len(SubSeq(w, i, i + 1)) = 2
      BY <3>1, <3>2, Zenon
    <3>5. SubSeq(w, i, i + 1)[1] = w[i + 1 - 1] /\ SubSeq(w, i, i + 1)[2] = w[i + 2 - 1]
      BY <3>1, <3>3, Zenon
    <3>6. SubSeq(w, i, i + 1)[1] = w[i] /\ SubSeq(w, i, i + 1)[2] = w[i + 1]
      BY <3>2, <3>5, Zenon
    <3>7. QED
      BY <3>1, <3>4, <3>6, Zenon
  <2>4. u = AT
    <3>1. \A j \in 1 .. Len(u) : u[j] = AT[j]
      BY <1>5, <1>6, <2>3
    <3>2. PICK v \in Seq(Int) : v = AT /\ Len(v) = 2
      <4>1. <<65, 84>> \in Seq(Int) /\ Len(<<65, 84>>) = 2
        OBVIOUS
      <4>2. QED
        BY <1>5, <4>1, Zenon
    <3>3. u \in Seq(Int)
      <4>1. Byte \subseteq Int
        BY DEF Byte
      <4>2. QED
        BY <2>3, <4>1, SeqMonotonic
    <3>4. QED
      BY <2>3, <3>1, <3>2, <3>3, SeqEqual
  <2>5. QED
    BY <2>3, <2>4 DEF HoldsCommand
<1>7. CASE IsPrefix(AT, text[n])
  <2>1. m >= 2 /\ text[n][1] = 65 /\ text[n][2] = 84
    BY <1>4, <1>5, <1>7 DEF IsPrefix
  <2>2. o + 1 \in 1 .. Len(w) - 1 /\ 1 \in 1 .. m /\ 2 \in 1 .. m /\ (o + 1) + 1 = o + 2
    <3>1. PICK z \in Nat : z = Len(w)
      BY <1>5
    <3>2. o + m <= z
      BY <1>4, <3>1
    <3>3. o + 1 \in 1 .. z - 1
      BY <2>1, <3>2
    <3>4. QED
      BY <2>1, <3>1, <3>3
  <2>3. w[o + 1] = 65 /\ w[(o + 1) + 1] = 84
    BY <1>4, <2>1, <2>2
  <2>4. QED
    BY <1>4, <1>6, <2>2, <2>3
<1>8. CASE text[n] = <<AT[1]>> /\ n < t /\ Head(text[n + 1]) = AT[2]
  <2>1. m = 1 /\ text[n][1] = 65
    BY <1>4, <1>5, <1>8
  <2>2. n + 1 \in 1 .. t /\ (n + 1) - 1 = n /\ text[n + 1] \in Seq(Byte) \ {<<>>}
    BY <1>1, <1>2, <1>8
  <2>3. Len(text[n + 1]) \in Nat \ {0} /\ text[n + 1][1] = 84
    BY <1>5, <1>8, <2>2
  <2>4. w[Len(f[n]) + 1] = 84 /\ Len(f[n]) + Len(text[n + 1]) <= Len(w)
    <3>1. /\ Len(f[n + 1]) = Len(f[n]) + Len(text[n + 1]) /\ Len(f[n + 1]) <= Len(w)
          /\ \A i \in 1 .. Len(text[n + 1]) : w[Len(f[n]) + i] = text[n + 1][i]
      <4>1. PICK k \in 1 .. t : k = n + 1 /\ k - 1 = n
        BY <2>2
      <4>2. Stands(FlattenSeq(text), f, text, k)
        BY <1>1, <1>2, <1>3, PartInside
      <4>3. QED
        BY <1>4, <4>1, <4>2 DEF Stands
    <3>2. 1 \in 1 .. Len(text[n + 1])
      BY <2>3
    <3>3. QED
      BY <2>3, <3>1, <3>2
  <2>5. Len(f[n]) = o + 1 /\ w[o + 1] = 65 /\ w[(o + 1) + 1] = 84
    BY <1>4, <2>1, <2>4
  <2>6. o + 1 \in 1 .. Len(w) - 1
    <3>1. PICK z \in Nat, x \in Nat \ {0} : z = Len(w) /\ x = Len(text[n + 1])
      BY <1>5, <2>3
    <3>2. (o + 1) + x <= z
      BY <2>4, <2>5, <3>1
    <3>3. o + 1 \in 1 .. z - 1
      <4>1. x >= 1 /\ o >= 0
        OBVIOUS
      <4>2. QED
        BY <3>2, <4>1
    <3>4. QED
      BY <3>1, <3>3
  <2>7. QED
    BY <1>4, <1>6, <2>5, <2>6
<1>9. QED
  BY <1>1, <1>7, <1>8

\* s has the parts of message p behind the a-th, up to the b-th.
Pieces(s, p, a, b) == Len(s) = b - a /\ \A i \in 1 .. b - a : s[i] = <<p, a + i>>

NoNewline(p) ==
    \A n \in 1 .. PartsOf(p) : \A i \in 1 .. Len(Text[script[p]][n]) :
        ~IsNewline(Text[script[p]][n][i])

Asked(p) == script[p] \in DOMAIN Asks

\* What the packet p asks for, as the proxy reads it.
Meant(p) == ParseUSRVCOM(VcomPacket(Asks[script[p]]))

\* All of a part is data, if there is no newline in it.
LEMMA ContentWhole ==
    ASSUME NEW part, NEW b \in Seq(Byte), b = Bytes(part), \A i \in 1 .. Len(b) : ~IsNewline(b[i])
    PROVE  Content(part) = b
<1>1. {i \in DOMAIN b : IsNewline(b[i])} = {}
  OBVIOUS
<1>2. Cardinality({i \in DOMAIN b : IsNewline(b[i])}) = 0
  BY <1>1, FS_EmptySet
<1>3. Len(b) - 0 = Len(b)
  OBVIOUS
<1>4. SubSeq(b, 1, Len(b)) = b
  BY SubSeqFull
<1>5. QED
  BY <1>2, <1>3, <1>4, Zenon DEF Content

LEMMA DataOfPieces ==
    ASSUME SendingTypes, NEW p \in Packets, NoNewline(p), NEW s \in Seq(Part),
           NEW a \in Nat, NEW b \in 0 .. PartsOf(p), a <= b, Pieces(s, p, a, b)
    PROVE  Data(s) = FlattenSeq(SubSeq(Text[script[p]], a + 1, b))
<1>1. PICK text \in Seq(Seq(Byte) \ {<<>>}), t \in Nat :
         text = Text[script[p]] /\ t = Len(text) /\ t = PartsOf(p)
  BY PacketIs
<1>2. PICK n \in Nat : n = b - a
  OBVIOUS
<1>3. ASSUME NEW i \in 1 .. n
      PROVE  Content(s[i]) = text[a + i] /\ text[a + i] \in Seq(Byte) \ {<<>>}
  <2>1. a + i \in 1 .. t
    BY <1>1, <1>2
  <2>2. s[i] = <<p, a + i>> /\ Bytes(<<p, a + i>>) = text[a + i]
    BY <1>1, <1>2, <2>1, PacketIs DEF Pieces
  <2>3. PICK x \in Seq(Byte) : x = text[a + i] /\ x # <<>>
    <3>1. text[a + i] \in Seq(Byte) \ {<<>>}
      BY <1>1, <2>1, ElementOfSeq
    <3>2. QED
      BY <3>1
  <2>4. \A j \in 1 .. Len(x) : ~IsNewline(x[j])
    BY <1>1, <2>1, <2>3 DEF NoNewline
  <2>5. Content(s[i]) = x
    BY <2>2, <2>3, <2>4, ContentWhole
  <2>6. QED
    BY <2>3, <2>5
<1>4. PICK c : c = [i \in 1 .. Len(s) |-> Content(s[i])]
  OBVIOUS
<1>5. PICK d : d = SubSeq(text, a + 1, b)
  OBVIOUS
<1>6. c \in Seq(Seq(Byte) \ {<<>>}) /\ Len(c) = n /\ \A i \in 1 .. n : c[i] = text[a + i]
  <2>1. Len(s) = n
    BY <1>2 DEF Pieces
  <2>2. c = [i \in 1 .. n |-> Content(s[i])]
    BY <1>4, <2>1
  <2>3. \A i \in 1 .. n : Content(s[i]) \in Seq(Byte) \ {<<>>}
    BY <1>3
  <2>4. c \in Seq(Seq(Byte) \ {<<>>}) /\ Len(c) = n
    BY <2>2, <2>3
  <2>5. QED
    BY <1>3, <2>2, <2>4
<1>7. d \in Seq(Seq(Byte) \ {<<>>}) /\ Len(d) = n /\ \A i \in 1 .. n : d[i] = text[a + i]
  <2>1. \A i \in a + 1 .. b : text[i] \in Seq(Byte) \ {<<>>}
    <3>1. \A i \in a + 1 .. b : i \in 1 .. t
      BY <1>1
    <3>2. QED
      BY <1>1, <3>1, ElementOfSeq
  <2>2. PICK m \in Int : m = a + 1
    OBVIOUS
  <2>3. /\ d \in Seq(Seq(Byte) \ {<<>>})
        /\ Len(d) = IF m <= b THEN b - m + 1 ELSE 0
        /\ \A i \in 1 .. b - m + 1 : d[i] = text[m + i - 1]
    BY <1>5, <2>1, <2>2, SubSeqProperties
  <2>4. b - m + 1 = n /\ (m <= b \/ n = 0) /\ \A i \in 1 .. n : m + i - 1 = a + i
    BY <1>2, <2>2
  <2>5. QED
    BY <2>3, <2>4
<1>8. c = d
  <2>1. Len(c) = Len(d) /\ \A i \in 1 .. Len(c) : c[i] = d[i]
    BY <1>6, <1>7
  <2>2. QED
    BY <1>6, <1>7, <2>1, SeqEqual
<1>9. QED
  BY <1>1, <1>4, <1>5, <1>8 DEF Data

\* The data of a packet's beginning: all of a USR-VCOM packet is 8 bytes, and a
\* part of it is none that could be parsed.
LEMMA DataOfAsked ==
    ASSUME SendingTypes, NEW p \in Packets, NoNewline(p), Asked(p), NEW s \in Seq(Part),
           NEW k \in 0 .. PartsOf(p), Pieces(s, p, 0, k)
    PROVE  /\ k = PartsOf(p) =>
                 Data(s) = VcomPacket(Asks[script[p]]) /\ IsUSRVCOM(Data(s))
                 /\ ParseUSRVCOM(Data(s)) = Meant(p) /\ Meant(p) # NoConfig
           /\ k < PartsOf(p) => ParseUSRVCOM(Data(s)) = NoConfig
<1>1. PICK text \in Seq(Seq(Byte) \ {<<>>}), t \in Nat :
         text = Text[script[p]] /\ t = Len(text) /\ t = PartsOf(p)
  BY PacketIs
<1>2. Asks[script[p]] \in Setting /\ FlattenSeq(text) = VcomPacket(Asks[script[p]])
  BY <1>1, HandshakeAssumption DEF Asked, HandshakeAssumption
<1>3. /\ Len(VcomPacket(Asks[script[p]])) = 8 /\ IsUSRVCOM(VcomPacket(Asks[script[p]]))
      /\ ParseUSRVCOM(VcomPacket(Asks[script[p]])) # NoConfig
  BY <1>2, VcomPacketIs
<1>4. Data(s) = FlattenSeq(SubSeq(text, 1, k))
  <2>1. 0 \in Nat /\ 0 <= k /\ 0 + 1 = 1
    OBVIOUS
  <2>2. Data(s) = FlattenSeq(SubSeq(Text[script[p]], 0 + 1, k))
    BY <2>1, DataOfPieces
  <2>3. QED
    BY <1>1, <2>1, <2>2
<1>5. ASSUME k = t PROVE Data(s) = VcomPacket(Asks[script[p]])
  <2>1. SubSeq(text, 1, k) = text
    BY <1>1, <1>5, SubSeqFull
  <2>2. QED
    BY <1>2, <1>4, <2>1
<1>6. ASSUME k < t PROVE ParseUSRVCOM(Data(s)) = NoConfig
  <2>1. Len(FlattenSeq(SubSeq(text, 1, k))) < Len(FlattenSeq(text))
    <3>1. k \in Nat
      BY <1>1
    <3>2. QED
      BY <1>1, <1>6, <3>1, PrefixShorter
  <2>2. Data(s) \in Seq(Byte) /\ Len(Data(s)) < 8
    BY <1>2, <1>3, <1>4, <2>1, DataType DEF SendingTypes
  <2>3. QED
    BY <2>1, <2>2, ParsedShort
<1>7. QED
  BY <1>1, <1>3, <1>5, <1>6 DEF Meant

(***************************************************************************)
(* What a step reads.                                                      *)
(***************************************************************************)

\* A part is taken, and with a CR its LF.
LEMMA TakesSome ==
    ASSUME QueueTypes, TakesPart \/ TakesEnd
    PROVE  /\ Ahead[1] = buf[1] /\ buf[1] \in Part
           /\ \E k \in 1 .. 2 : /\ k <= Len(Ahead) /\ Consumes(k)
                                /\ k = 2 => TakesEnd /\ Bytes(Ahead[2]) = <<LF>>
<1>1. PICK l \in Nat : l = Len(Ahead)
  BY AheadTypes
<1>2. l >= 1 /\ Ahead[1] = buf[1] /\ buf[1] \in Part
  BY <1>1, TakesAhead
<1>3. CASE TakesPart \/ ~EatsLf
  <2>1. Consumes(1)
    BY <1>3, TakesAhead
  <2>2. QED
    BY <1>1, <1>2, <2>1
<1>4. CASE TakesEnd /\ EatsLf
  <2>1. Consumes(2) /\ l >= 2 /\ Ahead[2] = buf[2]
    BY <1>1, <1>4, TakesAhead DEF EatsLf
  <2>2. QED
    BY <1>1, <1>2, <1>4, <2>1 DEF EatsLf
<1>5. QED
  BY <1>3, <1>4

\* The reader passes the first part of a message by taking it.
LEMMA PastBack ==
    ASSUME SendingTypes, QueueTypes, NoHoles, NEW k \in 1 .. 2, k <= Len(Ahead), Consumes(k),
           NEW q \in Messages, Past(q, 1)'
    PROVE  Past(q, 1) \/ \E e \in 1 .. k : Ahead[e] = <<q, 1>>
<1>1. PICK l \in Nat : l = Len(Ahead) /\ k <= l /\ Ahead \in Seq(Part) /\ q \in Nat
  BY AheadTypes DEF Messages
<1>2. ASSUME NEW i \in k + 1 .. l PROVE Before(<<q, 1>>, Ahead[i])
  <2>1. PICK j \in 1 .. l - k : j = i - k /\ k + j = i
    BY <1>1
  <2>2. Len(Ahead') = l - k /\ Ahead'[j] = Ahead[i]
    BY <1>1, <2>1 DEF Consumes, Rest
  <2>3. Before(<<q, 1>>, Ahead[j])'
    BY <2>2 DEF Past
  <2>4. QED
    BY <2>2, <2>3 DEF Before
<1>3. Arrived(<<q, 1>>)
  BY DEF Past, Consumes, Arrived
<1>4. SUFFICES ASSUME ~Past(q, 1) PROVE \E e \in 1 .. k : Ahead[e] = <<q, 1>>
  OBVIOUS
<1>5. PICK i \in 1 .. k : ~Before(<<q, 1>>, Ahead[i])
  <2>1. PICK i \in 1 .. l : ~Before(<<q, 1>>, Ahead[i])
    BY <1>1, <1>3, <1>4 DEF Past
  <2>2. i \in 1 .. k
    BY <1>2, <2>1
  <2>3. QED
    BY <2>1, <2>2
<1>6. PICK e \in 1 .. k : ~Before(<<q, 1>>, Ahead[e]) /\ \A j \in e + 1 .. l : Before(<<q, 1>>, Ahead[j])
  <2>1. CASE ~Before(<<q, 1>>, Ahead[k])
    BY <1>2, <2>1
  <2>2. CASE Before(<<q, 1>>, Ahead[k])
    <3>1. k = 2 /\ i = 1
      BY <1>5, <2>2
    <3>2. \A j \in 1 + 1 .. l : j = 2 \/ j \in k + 1 .. l
      BY <3>1
    <3>3. \A j \in 1 + 1 .. l : Before(<<q, 1>>, Ahead[j])
      BY <1>2, <2>2, <3>1, <3>2
    <3>4. QED
      BY <1>5, <3>1, <3>3
  <2>3. QED
    BY <2>1, <2>2
<1>7. e \in 1 .. l /\ Ahead[e] \in Part
  BY <1>1
<1>8. PICK m \in Nat, n \in Nat : Ahead[e] = <<m, n>> /\ n >= 1
  BY <1>7, PartIs
<1>9. m < q \/ (m = q /\ n = 1)
  BY <1>1, <1>6, <1>8 DEF Before
<1>10. ~(m < q)
  <2>1. CASE e < l
    <3>1. e \in 1 .. Len(Ahead) - 1 /\ e + 1 \in e + 1 .. l
      BY <1>1, <1>7, <2>1
    <3>2. PICK other : other = Ahead[e + 1] /\ Before(<<q, 1>>, other) /\ Follows(Ahead[e], other)
      BY <1>6, <3>1 DEF NoHoles
    <3>3. other = <<m, n + 1>> \/ other = <<m + 1, 1>>
      BY <1>8, <3>2 DEF Follows
    <3>4. QED
      BY <1>1, <1>8, <3>2, <3>3 DEF Before
  <2>2. CASE e = l
    <3>1. Ahead # <<>> /\ Ahead[Len(Ahead)] = Ahead[e]
      BY <1>1, <1>7, <2>2
    <3>2. m = Len(script)
      BY <1>8, <3>1 DEF NoHoles, LastSent
    <3>3. QED
      BY <1>1, <3>2 DEF Messages
  <2>3. QED
    BY <1>7, <2>1, <2>2
<1>11. QED
  BY <1>8, <1>9, <1>10

\* Nothing is passed by being sent.
LEMMA PastSentBack ==
    ASSUME SendingTypes, SendingTypes', QueueTypes, [Next]_vars, PeerSent, NEW q \in Nat \ {0}, Past(q, 1)'
    PROVE  q \in Messages /\ Past(q, 1)
<1>1. PICK p : p = LastSent' /\ Ahead' = Append(Ahead, p)
  BY SentFollows
<1>2. PICK l \in Nat, c \in Nat, f \in Nat, d \in Nat, g \in Nat, t \in Nat :
         /\ l = Len(Ahead) /\ c = Len(script) /\ f = left /\ d = Len(script') /\ g = left'
         /\ t = PartsOf(d)'
  <2>1. Len(Ahead) \in Nat /\ Len(script) \in Nat /\ left \in Nat /\ Len(script') \in Nat /\ left' \in Nat
    BY AheadTypes DEF SendingTypes
  <2>2. PICK d \in Nat : d = Len(script')
    BY <2>1
  <2>3. PartsOf(d)' \in Nat
    <3>1. script' # <<>>
      <4>1. CASE script' = script /\ script # <<>>
        BY <4>1
      <4>2. ASSUME NEW kind \in Kind, script' = Append(script, kind) PROVE script' # <<>>
        BY <4>2 DEF SendingTypes
      <4>3. QED
        BY <4>1, <4>2 DEF PeerSent, Sent
    <3>2. d # 0 /\ script'[d] \in Kind
      BY <2>2, <3>1 DEF SendingTypes
    <3>3. Text[script'[d]] \in Seq(Seq(Byte) \ {<<>>}) \ {<<>>}
      BY <3>2, Assumptions
    <3>4. QED
      BY <3>3 DEF PartsOf
  <2>4. QED
    BY <2>1, <2>2, <2>3
<1>3. p = <<d, t - g>>
  BY <1>1, <1>2 DEF LastSent
<1>4. /\ Len(Ahead') = l + 1 /\ Ahead'[l + 1] = p
      /\ \A i \in 1 .. l : Ahead'[i] = Ahead[i]
  <2>1. Ahead \in Seq(Part)
    BY AheadTypes
  <2>2. QED
    BY <1>1, <1>2, <2>1
<1>5. Before(<<q, 1>>, p)
  <2>1. l + 1 \in 1 .. Len(Ahead')
    BY <1>2, <1>4
  <2>2. Before(<<q, 1>>, Ahead[l + 1])'
    BY <1>2, <2>1 DEF Past
  <2>3. QED
    BY <1>4, <2>2 DEF Before
<1>6. q < d \/ (q = d /\ 1 < t - g)
  BY <1>2, <1>3, <1>5 DEF Before
<1>7. q \in 1 .. c /\ Arrived(<<q, 1>>)
  <2>1. CASE script' = script /\ left' = left - 1
    <3>1. d = c /\ g = f - 1 /\ PartsOf(c) = t
      BY <1>2, <2>1 DEF PartsOf
    <3>2. q < c \/ (q = c /\ 1 <= t - f)
      BY <1>2, <1>6, <3>1
    <3>3. q \in 1 .. c
      BY <1>2, <3>2
    <3>4. QED
      BY <1>2, <3>1, <3>2, <3>3 DEF Arrived, PartsOf
  <2>2. ASSUME left = 0, NEW kind \in Kind, script' = Append(script, kind), left' = Len(Text[kind]) - 1
        PROVE  q \in 1 .. c /\ Arrived(<<q, 1>>)
    <3>1. d = c + 1 /\ script'[d] = kind
      BY <1>2, <2>2 DEF SendingTypes
    <3>2. t - g = 1
      <4>1. t = Len(Text[kind]) /\ g = Len(Text[kind]) - 1
        BY <1>2, <2>2, <3>1 DEF PartsOf
      <4>2. QED
        BY <1>2, <4>1
    <3>3. q < c + 1 /\ q \in 1 .. c
      BY <1>2, <1>6, <3>1, <3>2
    <3>4. PICK u \in Nat \ {0} : u = PartsOf(c)
      <4>1. script[c] \in Kind
        BY <1>2, <3>3 DEF SendingTypes
      <4>2. Text[script[c]] \in Seq(Seq(Byte) \ {<<>>}) \ {<<>>}
        BY <4>1, Assumptions
      <4>3. QED
        BY <4>2 DEF PartsOf
    <3>5. q < c \/ (q = c /\ 1 <= u - f)
      BY <1>2, <2>2, <3>3, <3>4
    <3>6. QED
      BY <1>2, <3>3, <3>4, <3>5 DEF Arrived, PartsOf
  <2>3. QED
    BY <2>1, <2>2 DEF PeerSent, Sent
<1>8. \A i \in 1 .. l : Before(<<q, 1>>, Ahead[i])
  <2>1. ASSUME NEW i \in 1 .. l PROVE Before(<<q, 1>>, Ahead[i])
    <3>1. i \in 1 .. Len(Ahead')
      BY <1>2, <1>4
    <3>2. Before(<<q, 1>>, Ahead[i])'
      BY <3>1 DEF Past
    <3>3. QED
      BY <1>4, <3>2 DEF Before
  <2>2. QED
    BY <2>1
<1>9. QED
  BY <1>2, <1>7, <1>8 DEF Past, Messages

\* The handshake goes on, and no error has cut a command.
Active == phase = "handshake" /\ reading # "failed" /\ Untorn

LEMMA ActiveBefore ==
    ASSUME StreamControl, [Next]_vars, Active'
    PROVE  /\ Active /\ lost = <<>> /\ torn \subseteq torn' /\ Commands \cap torn' = {}
           /\ SendingTypes /\ QueueTypes /\ NoHoles /\ AheadInOrder
<1>1. /\ SendingTypes /\ QueueTypes /\ Control /\ LostInv /\ NoHoles /\ AheadInOrder
  BY ControlParts DEF StreamControl, StreamInv, OrderInv, Control
<1>2. phase = "handshake" /\ reading # "failed"
  BY <1>1, StreamEffect DEF Active, PeerSent, Sent, Idles, TakesPart, TakesEnd, ReadPart,
     ReadLineEnd, Reads, handlerVars, Fails, Executes1
<1>3. torn \subseteq torn' /\ Commands \subseteq Commands'
  BY <1>1, TornGrows, StepGrows, ScriptGrows DEF SendingTypes
<1>4. lost = <<>>
  BY <1>1, <1>2 DEF LostInv
<1>5. Commands \cap torn' = {}
  BY <1>3 DEF Active, Untorn
<1>6. QED
  BY <1>1, <1>2, <1>3, <1>4, <1>5 DEF Active, Untorn

LEMMA PacketKept ==
    ASSUME SendingTypes, [Next]_vars, NEW p \in Messages
    PROVE  /\ p \in Packets' <=> p \in Packets
           /\ script'[p] = script[p] /\ PartsOf(p)' = PartsOf(p)
<1>1. p \in Messages' /\ (p \in Commands' <=> p \in Commands) /\ PartsOf(p)' = PartsOf(p)
  BY PartsKept
<1>2. script'[p] = script[p]
  BY StepGrows, ScriptGrows DEF SendingTypes
<1>3. QED
  BY <1>1, <1>2 DEF Packets

\* A packet that has been passed is passed in the order of the messages.
LEMMA PastFirst ==
    ASSUME SendingTypes, QueueTypes, NEW q \in Messages, NEW n \in Nat, Past(q, n), Len(Ahead) >= 1
    PROVE  /\ ~(Ahead[1][1] < q)
           /\ q # Ahead[1][1] => q < Ahead[1][1]
           /\ Before(<<q, n>>, Ahead[1])
<1>1. PICK l \in Nat : l = Len(Ahead) /\ Ahead \in Seq(Part) /\ l >= 1
  BY AheadTypes
<1>2. Before(<<q, n>>, Ahead[1]) /\ Ahead[1] \in Part
  BY <1>1 DEF Past
<1>3. PICK m \in Nat, k \in Nat : Ahead[1] = <<m, k>>
  BY <1>2, PartIs
<1>4. q \in Nat
  BY DEF Messages
<1>5. QED
  BY <1>2, <1>3, <1>4 DEF Before

LEMMA PastFirstPart ==
    ASSUME SendingTypes, SendingTypes', QueueTypes', [Next]_vars,
           NEW q \in Messages, NEW n \in 1 .. PartsOf(q), Past(q, n)'
    PROVE  Past(q, 1)'
<1>1. PICK m \in Nat, t \in Nat, c \in Nat, f \in Nat :
        q = m /\ t = PartsOf(q)' /\ c = Len(script') /\ f = left'
  <2>1. script[q] \in Kind /\ q \in Nat /\ PartsOf(q)' = PartsOf(q)
    BY PartsKept DEF SendingTypes, Messages
  <2>2. Text[script[q]] \in Seq(Seq(Byte) \ {<<>>}) \ {<<>>}
    BY <2>1, Assumptions
  <2>3. PartsOf(q) \in Nat
    BY <2>2 DEF PartsOf
  <2>4. QED
    BY <2>1, <2>3 DEF SendingTypes
<1>2. n \in Nat /\ 1 <= n
  <2>1. n \in 1 .. t
    BY <1>1, PartsKept
  <2>2. QED
    BY <2>1
<1>3. Arrived(<<q, 1>>)'
  <2>1. m < c \/ (m = c /\ n <= t - f)
    BY <1>1 DEF Past, Arrived, PartsOf
  <2>2. m < c \/ (m = c /\ 1 <= t - f)
    BY <1>2, <2>1
  <2>3. QED
    BY <1>1, <2>2 DEF Arrived, PartsOf
<1>4. ASSUME NEW i \in 1 .. Len(Ahead') PROVE Before(<<q, 1>>, Ahead'[i])
  <2>1. Ahead' \in Seq(Part') /\ Ahead'[i] \in Part'
    BY AheadTypesNext
  <2>2. Ahead'[i][2] \in Nat
    BY <2>1 DEF Part
  <2>3. Before(<<q, n>>, Ahead'[i])
    BY DEF Past, Before
  <2>4. QED
    BY <1>2, <2>2, <2>3 DEF Before
<1>5. QED
  BY <1>3, <1>4 DEF Past, Before

LEMMA PastAlways ==
    ASSUME StreamControl, StreamControl', [Next]_vars, NEW q \in Messages, NEW n \in 1 .. PartsOf(q),
           Past(q, n)
    PROVE  Past(q, n)'
<1>1. Control /\ SendingTypes /\ SendingTypes' /\ QueueTypes
  BY ControlParts DEF StreamControl, Control, ControlTypes, SendingTypes
<1>2. CASE PeerSent
  BY <1>1, <1>2, PastSent
<1>3. CASE ~PeerSent
  <2>1. PICK k \in 0 .. Len(Ahead) : Consumes(k)
    BY <1>1, <1>3, StreamEffect, ConsumesOrKeeps
  <2>2. QED
    BY <1>1, <2>1, PastStays
<1>4. QED
  BY <1>2, <1>3

LEMMA TakesLine ==
    ASSUME TakesPart \/ TakesEnd, InCommand
    PROVE  /\ buf # <<>> /\ line' = Append(line, buf[1]) /\ script' = script
           /\ Astray(line)' <=> Astray(Append(line, buf[1]))
<1>1. buf # <<>> /\ line' = Append(line, buf[1]) /\ script' = script
  BY DEF TakesPart, TakesEnd, ReadPart, ReadLineEnd, Reads, peerVars
<1>2. QED
  BY <1>1 DEF Astray

LEMMA TouchedStays ==
    ASSUME StreamControl, StreamControl', [Next]_vars, Active', NEW q, Touched(q)
    PROVE  Touched(q)'
<1>1. /\ SendingTypes /\ QueueTypes /\ Control /\ LineIs
  BY ControlParts DEF StreamControl, StreamInv, Control
<1>2. q \in Packets /\ q \in Messages /\ Past(q, 1) /\ 1 \in 1 .. PartsOf(q)
      /\ ~(reading = "returned" /\ Message # 0 /\ Message < q)
  BY <1>1, PacketIs DEF Touched
<1>3. q \in Packets' /\ Past(q, 1)'
  BY <1>1, <1>2, PacketKept, PastAlways
<1>4. ~(reading' = "returned" /\ Message' # 0 /\ Message' < q)
  <2>1. ASSUME line' = line, reading' = reading
        PROVE  ~(reading' = "returned" /\ Message' # 0 /\ Message' < q)
    BY <1>1, <1>2, <2>1, LineStays
  <2>2. CASE PeerSent \/ Idles
    BY <2>1, <2>2 DEF PeerSent, Sent, Idles
  <2>3. CASE TakesPart \/ Fails
    BY <2>3 DEF TakesPart, ReadPart, Reads, Fails
  <2>4. CASE TakesEnd
    <3>1. CASE InCommand /\ ~Astray(Append(line, buf[1]))
      <4>1. Message' = Ahead[1][1] /\ Len(Ahead) >= 1
        BY <1>1, <2>4, <3>1, LineGoesOn, TakesAhead
      <4>2. ~(Ahead[1][1] < q)
        BY <1>1, <1>2, <4>1, PastFirst
      <4>3. QED
        BY <4>1, <4>2
    <3>2. CASE InCommand /\ Astray(Append(line, buf[1]))
      BY <2>4, <3>2, TakesLine DEF Message
    <3>3. CASE ~InCommand
      BY <2>4, <3>3 DEF TakesEnd, ReadLineEnd, Reads, Again
    <3>4. QED
      BY <3>1, <3>2, <3>3
  <2>5. CASE Executes1
    BY <2>1, <2>5 DEF Executes1
  <2>6. QED
    BY <1>1, <2>2, <2>3, <2>4, <2>5, StreamEffect
<1>5. QED
  BY <1>3, <1>4 DEF Touched

\* The reader comes to a packet only by taking its first part as data.
LEMMA TouchedBefore ==
    ASSUME StreamControl, StreamControl', LfBehind, [Next]_vars, Active', ~(TakesEnd /\ ~InCommand),
           ~Astray(line)', NEW q, Touched(q)', Bytes(<<q, 1>>)' # <<LF>>
    PROVE  q \in Packets /\ (Touched(q) \/ (TakesPart /\ ~InCommand /\ buf[1] = <<q, 1>>))
<1>1. /\ SendingTypes /\ SendingTypes' /\ QueueTypes /\ Control /\ LineIs /\ NoHoles /\ AheadInOrder
      /\ Active /\ lost = <<>> /\ torn \subseteq torn' /\ Commands \cap torn' = {}
  BY ActiveBefore, ControlParts DEF StreamControl, StreamInv, Control, ControlTypes, SendingTypes
<1>2. q \in Packets' /\ q \in Nat \ {0} /\ Past(q, 1)' /\ ~(reading' = "returned" /\ Message' # 0 /\ Message' < q)
  BY DEF Touched, Packets, Messages
<1>3. SUFFICES q \in Messages /\ (Touched(q) \/ (TakesPart /\ ~InCommand /\ buf[1] = <<q, 1>>))
  BY <1>1, <1>2, PacketKept
<1>4. CASE PeerSent
  <2>1. q \in Messages /\ Past(q, 1)
    BY <1>1, <1>2, <1>4, PastSentBack
  <2>2. q \in Packets
    BY <1>1, <1>2, <2>1, PacketKept
  <2>3. reading' = reading /\ Message' = Message
    BY <1>1, <1>4, LineStays DEF PeerSent, Sent
  <2>4. QED
    BY <1>2, <2>1, <2>2, <2>3 DEF Touched
<1>5. SUFFICES ASSUME ~PeerSent
               PROVE  Touched(q) \/ (TakesPart /\ ~InCommand /\ buf[1] = <<q, 1>>)
  <2>1. CASE ~PeerSent
    <3>1. script' = script
      BY <1>1, <2>1, StreamEffect, ConsumesOrKeeps DEF Consumes
    <3>2. q \in Messages
      BY <1>2, <3>1 DEF Packets, Messages
    <3>3. QED
      BY <1>5, <2>1, <3>2
  <2>2. QED
    BY <1>4, <2>1
<1>6. script' = script
  BY <1>1, <1>5, StreamEffect, ConsumesOrKeeps DEF Consumes
<1>7. q \in Packets /\ q \in Messages /\ Bytes(<<q, 1>>) # <<LF>>
  BY <1>2, <1>6 DEF Packets, Messages, Commands, Bytes
<1>8. ASSUME Ahead' = Ahead, left' = left PROVE Past(q, 1)
  BY <1>2, <1>6, <1>8 DEF Past, Arrived, Before
<1>9. CASE Idles
  <2>1. reading' = reading /\ Message' = Message
    BY <1>1, <1>9, LineStays DEF Idles
  <2>2. QED
    BY <1>2, <1>7, <1>8, <1>9, <2>1 DEF Touched, Idles
<1>10. CASE Fails
  BY <1>7, <1>8, <1>10 DEF Touched, Fails
<1>11. CASE Executes1
  <2>1. Ahead' = Ahead /\ left' = left
    BY <1>11 DEF Executes1, Active, Ahead
  <2>2. Past(q, 1)
    BY <1>8, <2>1
  <2>3. ~(Message # 0 /\ Message < q)
    BY <1>1, <1>7, <1>11, <2>2 DEF LfBehind, Active, Executes1
  <2>4. QED
    BY <1>7, <2>2, <2>3 DEF Touched
<1>12. CASE TakesPart \/ TakesEnd
  <2>1. reading = "reads" /\ Len(Ahead) >= 1
    BY <1>1, <1>12, ReadsWhileTaking, TakesAhead
  <2>2. PICK k \in 1 .. 2 : /\ Ahead[1] = buf[1] /\ buf[1] \in Part
                            /\ k <= Len(Ahead) /\ Consumes(k)
                            /\ k = 2 => TakesEnd /\ Bytes(Ahead[2]) = <<LF>>
    BY <1>1, <1>12, TakesSome
  <2>3. Past(q, 1) \/ \E e \in 1 .. k : Ahead[e] = <<q, 1>>
    BY <1>1, <1>2, <1>7, <2>2, PastBack
  <2>4. CASE Past(q, 1)
    BY <1>7, <2>1, <2>4 DEF Touched
  <2>5. CASE \E e \in 1 .. k : Ahead[e] = <<q, 1>>
    <3>1. Ahead[1] = <<q, 1>>
      BY <1>7, <2>2, <2>5
    <3>2. CASE InCommand
      <4>1. buf[1] = <<q, 1>> /\ q \in Commands
        BY <1>1, <1>12, <2>2, <3>1, <3>2, TakesLine, LineTakes
      <4>2. QED
        BY <1>7, <4>1 DEF Packets
    <3>3. CASE ~InCommand
      BY <1>12, <2>2, <3>1, <3>3
    <3>4. QED
      BY <3>2, <3>3
  <2>6. QED
    BY <2>3, <2>4, <2>5
<1>13. QED
  BY <1>1, <1>5, <1>9, <1>10, <1>11, <1>12, StreamEffect

LEMMA LfBehindStep ==
    ASSUME StreamControl, StreamControl', LfBehind, [Next]_vars
    PROVE  LfBehind'
<1>1. /\ SendingTypes /\ SendingTypes' /\ QueueTypes /\ Control /\ NoHoles /\ LineIs
  BY ControlParts DEF StreamControl, StreamInv, Control, ControlTypes, SendingTypes
<1>2. SUFFICES ASSUME phase' = "handshake", reading' = "returned", Message' # 0,
                      NEW q \in Packets', Past(q, 1)', Message' < q
               PROVE  Bytes(<<q, 1>>)' = <<LF>>
  BY DEF LfBehind
<1>3. q \in Nat \ {0}
  BY DEF Packets, Messages
<1>4. ASSUME phase = "handshake", reading = "returned", Message' = Message, q \in Messages, Past(q, 1)
      PROVE  Bytes(<<q, 1>>)' = <<LF>>
  <2>1. q \in Packets /\ script'[q] = script[q]
    BY <1>1, <1>4, PacketKept
  <2>2. Bytes(<<q, 1>>) = <<LF>>
    BY <1>2, <1>4, <2>1 DEF LfBehind
  <2>3. QED
    BY <2>1, <2>2 DEF Bytes
<1>5. CASE PeerSent
  <2>1. phase = "handshake" /\ reading = "returned" /\ Message' = Message
    BY <1>1, <1>2, <1>5, LineStays DEF PeerSent, Sent
  <2>2. QED
    BY <1>1, <1>2, <1>3, <1>4, <1>5, <2>1, PastSentBack
<1>6. ASSUME script' = script, left' = left, Ahead' = Ahead PROVE q \in Messages /\ Past(q, 1)
  BY <1>2, <1>6 DEF Past, Arrived, Before, Packets, Messages
<1>7. CASE Idles
  <2>1. phase = "handshake" /\ reading = "returned" /\ Message' = Message
    BY <1>1, <1>2, <1>7, LineStays DEF Idles
  <2>2. QED
    BY <1>4, <1>6, <1>7, <2>1 DEF Idles
<1>8. CASE Executes1
  <2>1. phase = "handshake" /\ reading = "returned" /\ Message' = Message
    BY <1>1, <1>2, <1>8, LineStays DEF Executes1
  <2>2. script' = script /\ left' = left /\ Ahead' = Ahead
    BY <1>2, <1>8 DEF Executes1, Ahead
  <2>3. QED
    BY <1>4, <1>6, <2>1, <2>2
<1>9. CASE TakesPart \/ Fails
  BY <1>2, <1>9 DEF TakesPart, ReadPart, Reads, Fails
<1>10. CASE TakesEnd
  <2>1. PICK k \in 1 .. 2 : /\ Ahead[1] = buf[1] /\ buf[1] \in Part
                            /\ k <= Len(Ahead) /\ Consumes(k)
                            /\ k = 2 => Bytes(Ahead[2]) = <<LF>>
    BY <1>1, <1>10, TakesSome
  <2>2. InCommand
    BY <1>2, <1>10 DEF TakesEnd, ReadLineEnd, Reads, Again
  <2>3. Message' = Ahead[1][1] /\ Len(Ahead) >= 1
    <3>1. ~Astray(Append(line, buf[1]))
      BY <1>2, <1>10, <2>2, TakesLine DEF Message
    <3>2. QED
      BY <1>1, <1>10, <2>2, <3>1, LineGoesOn, TakesAhead
  <2>4. script' = script /\ q \in Messages
    BY <1>2, <2>1 DEF Consumes, Packets, Messages
  <2>5. Past(q, 1) \/ \E e \in 1 .. k : Ahead[e] = <<q, 1>>
    BY <1>1, <1>2, <2>1, <2>4, PastBack
  <2>6. ~Past(q, 1)
    BY <1>1, <1>2, <2>3, <2>4, PastFirst
  <2>7. Ahead[1] # <<q, 1>>
    BY <1>2, <1>3, <2>3
  <2>8. k = 2 /\ Ahead[2] = <<q, 1>>
    BY <2>5, <2>6, <2>7
  <2>9. QED
    BY <2>1, <2>4, <2>8 DEF Bytes
<1>11. QED
  BY <1>1, <1>5, <1>7, <1>8, <1>9, <1>10, StreamEffect

(***************************************************************************)
(* How far a packet has been read.                                         *)
(***************************************************************************)

\* The first k parts have been read as data, and the next comes next: a command line
\* can begin only behind the packet.
Position(p, k) ==
    /\ Past(p, k)
    /\ k < PartsOf(p) => NextIs(p, k + 1) /\ line = <<>> /\ reading = "reads"
    /\ line # <<>> => p < Message

LEMMA PositionStays ==
    ASSUME StreamControl, StreamControl', [Next]_vars, Active', ~((TakesPart \/ TakesEnd) /\ ~InCommand),
           ~Astray(line)', NEW p \in Packets, NEW k \in 1 .. PartsOf(p), Position(p, k)
    PROVE  Position(p, k)'
<1>1. /\ SendingTypes /\ SendingTypes' /\ QueueTypes /\ Control /\ LineIs /\ NoHoles
      /\ p \in Messages /\ k \in Nat
  BY ControlParts, PacketIs DEF StreamControl, StreamInv, Control, ControlTypes, SendingTypes
<1>2. Past(p, k)' /\ PartsOf(p)' = PartsOf(p)
  BY <1>1, PastAlways, PartsKept DEF Position
<1>3. CASE (TakesPart \/ TakesEnd) /\ InCommand
  <2> ~Astray(Append(line, buf[1]))
    BY <1>3, TakesLine
  <2>1. Message' = Ahead[1][1] /\ Len(Ahead) >= 1 /\ Ahead[1] = buf[1] /\ buf[1] \in Part
    BY <1>1, <1>3, LineGoesOn, TakesAhead
  <2>2. buf[1][1] \in Commands
    BY <1>1, <1>3, LineTakes
  <2>3. p < Message'
    <3>1. p # Ahead[1][1]
      BY <2>1, <2>2 DEF Packets
    <3>2. QED
      BY <1>1, <2>1, <3>1, PastFirst DEF Position
  <2>4. ~(k < PartsOf(p))
    <3>1. SUFFICES ASSUME k < PartsOf(p) PROVE FALSE
      OBVIOUS
    <3>2. NextIs(p, k + 1) /\ line = <<>>
      BY <3>1 DEF Position
    <3>3. Ahead # <<>>
      BY <2>1
    <3>4. buf[1] = <<p, k + 1>>
      BY <2>1, <3>2, <3>3 DEF NextIs
    <3>5. QED
      BY <2>2, <3>4 DEF Packets
  <2>5. QED
    BY <1>2, <2>3, <2>4 DEF Position
<1>4. ASSUME line' = line \/ line' = <<>>, reading' = reading \/ (reading' = "reads" /\ k = PartsOf(p)),
             k < PartsOf(p) => NextIs(p, k + 1)'
      PROVE  Position(p, k)'
  BY <1>1, <1>2, <1>4, LineStays DEF Position
<1>5. CASE PeerSent
  <2>1. ASSUME k < PartsOf(p) PROVE NextIs(p, k + 1)'
    <3>1. k + 1 \in Nat \ {0} /\ k + 1 > 1 /\ k + 1 <= PartsOf(p)
      BY <1>1, <2>1, PacketIs
    <3>2. QED
      BY <1>1, <1>5, <2>1, <3>1, NextAfterSent DEF Position
  <2>2. QED
    BY <1>4, <1>5, <2>1 DEF PeerSent, Sent
<1>6. ASSUME Ahead' = Ahead, script' = script, left' = left, NextIs(p, k + 1) PROVE NextIs(p, k + 1)'
  BY <1>6 DEF NextIs, LastSent, PartsOf
<1>7. CASE Idles
  BY <1>4, <1>6, <1>7 DEF Idles, Position
<1>8. CASE Fails
  BY <1>4, <1>6, <1>8 DEF Fails, Position, Active
<1>9. CASE Executes1
  <2>1. k = PartsOf(p)
    BY <1>1, <1>9, PacketIs DEF Position, Executes1
  <2>2. line' = line \/ line' = <<>>
    BY <1>9 DEF Executes1
  <2>3. reading' = reading \/ reading' = "reads"
    BY <1>9 DEF Executes1
  <2>4. QED
    BY <1>4, <2>1, <2>2, <2>3
<1>10. QED
  BY <1>1, <1>3, <1>5, <1>7, <1>8, <1>9, StreamEffect

\* What has been taken has been passed.
LEMMA TakenPassed ==
    ASSUME StreamControl, StreamControl', [Next]_vars, TakesPart \/ TakesEnd
    PROVE  \E q \in Messages : \E n \in 1 .. PartsOf(q) :
              /\ Ahead[1] = <<q, n>> /\ buf[1] = <<q, n>> /\ q \in Messages'
              /\ Past(q, n)' /\ Past(q, 1)'
<1>1. /\ SendingTypes /\ SendingTypes' /\ QueueTypes /\ QueueTypes' /\ AheadInOrder
  BY ControlParts DEF StreamControl, OrderInv, Control, ControlTypes, SendingTypes, QueueTypes
<1>2. PICK l \in Nat : l = Len(Ahead)
  BY <1>1, AheadTypes
<1>3. PICK k \in 1 .. 2 : /\ Ahead[1] = buf[1] /\ buf[1] \in Part
                          /\ k <= l /\ Consumes(k)
  BY <1>1, <1>2, TakesSome
<1>4. PICK q \in Messages, n \in Nat : buf[1] = <<q, n>> /\ n \in 1 .. PartsOf(q)
  BY <1>1, <1>3, PartIs
<1>5. \A part : Arrived(part)' <=> Arrived(part)
  BY <1>3 DEF Consumes, Arrived
<1>6. Past(q, n)'
  <2>1. Arrived(<<q, n>>)
    <3>1. 1 \in 1 .. l
      BY <1>2, <1>3
    <3>2. QED
      BY <1>1, <1>2, <1>3, <1>4, <3>1 DEF AheadInOrder
  <2>2. Len(Ahead') = l - k /\ \A i \in 1 .. l - k : Ahead'[i] = Ahead[k + i]
    BY <1>2, <1>3 DEF Consumes, Rest
  <2>3. ASSUME NEW i \in 1 .. l - k PROVE Before(<<q, n>>, Ahead[k + i])
    <3>1. 1 \in 1 .. l /\ k + i \in 1 .. l /\ 1 < k + i
      BY <1>2, <1>3
    <3>2. QED
      BY <1>1, <1>2, <1>3, <1>4, <3>1 DEF AheadInOrder
  <2>4. \A i \in 1 .. Len(Ahead') : Before(<<q, n>>, Ahead'[i])
    BY <2>2, <2>3
  <2>5. QED
    BY <1>5, <2>1, <2>4 DEF Past, Before
<1>7. Past(q, 1)'
  BY <1>1, <1>4, <1>6, PastFirstPart
<1>8. q \in Messages'
  BY <1>1, PartsKept
<1>9. QED
  BY <1>3, <1>4, <1>6, <1>7, <1>8

\* A part of data is the next one of a packet.
LEMMA PacketTaken ==
    ASSUME StreamControl, StreamControl', [Next]_vars, Active', TakesPart \/ TakesEnd, ~InCommand
    PROVE  \E q \in Packets : \E n \in 1 .. PartsOf(q) :
              Ahead[1] = <<q, n>> /\ buf[1] = <<q, n>> /\ Past(q, n)' /\ Touched(q)'
<1>1. SendingTypes /\ lost = <<>> /\ torn \subseteq torn' /\ Commands \cap torn' = {}
  BY ActiveBefore
<1>2. PICK q, n :
         /\ q \in Messages /\ n \in 1 .. PartsOf(q)
         /\ Ahead[1] = <<q, n>> /\ buf[1] = <<q, n>> /\ Past(q, n)' /\ Past(q, 1)'
  BY TakenPassed
<1>3. q \in Packets
  BY <1>1, <1>2, DataTaken DEF Packets
<1>4. q \in Packets'
  BY <1>1, <1>3, PacketIs, PacketKept
<1>5. reading' # "returned"
  BY DEF TakesPart, TakesEnd, ReadPart, ReadLineEnd, Reads, Again
<1>6. QED
  BY <1>2, <1>3, <1>4, <1>5 DEF Touched

LEMMA PositionMoves ==
    ASSUME StreamControl, StreamControl', [Next]_vars, TakesPart, ~InCommand,
           NEW p \in Packets, NEW n \in 1 .. PartsOf(p), Ahead[1] = <<p, n>>, Past(p, n)'
    PROVE  Position(p, n)'
<1>1. /\ SendingTypes /\ QueueTypes /\ QueueTypes' /\ NoHoles
      /\ p \in Messages /\ n \in Nat \ {0} /\ PartsOf(p) \in Nat
  BY ControlParts, PacketIs DEF StreamControl, StreamInv, Control, ControlTypes, QueueTypes
<1>2. Consumes(1) /\ Len(Ahead) >= 1
  BY <1>1, TakesAhead
<1>3. line' = <<>> /\ reading' = "reads"
  BY DEF TakesPart, ReadPart, Reads, InCommand
<1>4. PartsOf(p)' = PartsOf(p)
  BY <1>1, PartsKept
<1>5. n < PartsOf(p) => NextIs(p, n + 1)'
  BY <1>1, <1>2, NextAfterRead
<1>6. QED
  BY <1>3, <1>4, <1>5 DEF Position

\* The next part of a packet comes after those that have been read.
LEMMA PositionNext ==
    ASSUME SendingTypes, NEW p \in Packets, NEW k \in 1 .. PartsOf(p), Position(p, k),
           NEW n \in 1 .. PartsOf(p), Ahead[1] = <<p, n>>, Len(Ahead) >= 1
    PROVE  k < PartsOf(p) /\ n = k + 1
<1>1. 1 \in 1 .. Len(Ahead) /\ Ahead # <<>>
  <2>1. \A a : Len(a) >= 1 => a # <<>>
    OBVIOUS
  <2>2. QED
    BY <2>1, AheadTypes
<1>2. p \in Nat /\ PartsOf(p) \in Nat /\ k \in Nat /\ n \in Nat
  BY PacketIs
<1>3. k < n
  BY <1>1, <1>2 DEF Position, Past, Before
<1>4. k < PartsOf(p)
  BY <1>2, <1>3
<1>5. <<p, n>> = <<p, k + 1>>
  BY <1>1, <1>4 DEF Position, NextIs
<1>6. QED
  BY <1>4, <1>5

(***************************************************************************)
(* What has become of a packet.                                            *)
(***************************************************************************)

\* There is no data.
Nothing == skipped = <<>> /\ allSkipped = <<>> /\ presets = <<>> /\ vcom = NoConfig /\ config = NoConfig

\* Its first j parts are the data of a line that has ended; they are kept as data only
\* if they are not what was asked for as it was sent.
Ending(p, j) ==
    (j # 0 /\ j # PartsOf(p)) \/ (j = PartsOf(p) /\ Asked(p)) => p \in torn

\* It is being read: the first k parts, the first j of them on lines that have ended.
CollectedTo(p, k, j) ==
    /\ presets = <<>> /\ vcom = NoConfig /\ config = NoConfig
    /\ j <= k /\ Pieces(allSkipped, p, 0, j) /\ Pieces(skipped, p, j, k)
    /\ Position(p, k)
    /\ reading = "returned" => j = k
    /\ Ending(p, j)

Collected(p) == \E k \in 1 .. PartsOf(p) : \E j \in 0 .. PartsOf(p) : CollectedTo(p, k, j)

\* It is settings, as it was meant.
Parsed(p) ==
    /\ Asked(p)
    /\ skipped = <<>> /\ allSkipped = <<>> /\ presets = <<>>
    /\ {vcom, config} \subseteq {Meant(p), NoConfig} /\ Meant(p) \in {vcom, config}
    /\ Position(p, PartsOf(p))

\* A modem command has kept it as data.
Stored(p) ==
    /\ skipped = <<>> /\ allSkipped = <<>> /\ Pieces(presets, p, 0, PartsOf(p))
    /\ vcom = NoConfig /\ config = NoConfig
    /\ Asked(p) => p \in torn
    /\ Position(p, PartsOf(p))
    /\ \E n \in 1 .. Len(done) : p < done[n]

\* Another command has dropped it.
Forgotten(p) ==
    /\ Nothing
    /\ Asked(p) => p \in torn
    /\ Position(p, PartsOf(p))
    /\ \E n \in 1 .. Len(done) : p < done[n] /\ script[done[n]] \notin ModemKind

Stage(p) == Collected(p) \/ Parsed(p) \/ Stored(p) \/ Forgotten(p)

kept == <<skipped, allSkipped, presets, vcom, config>>

LEMMA DataOfNone == Data(<<>>) = <<>> /\ ~IsUSRVCOM(<<>>)
<1>1. PICK c : c = [i \in 1 .. Len(<<>>) |-> Content(<<>>[i])]
  OBVIOUS
<1>2. c \in Seq(Seq(Byte)) /\ Len(c) = 0
  <2>1. c = [i \in 1 .. 0 |-> Content(<<>>[i])]
    BY <1>1
  <2>2. QED
    BY <2>1
<1>3. c = <<>>
  BY <1>2
<1>4. Data(<<>>) = <<>>
  BY <1>1, <1>3, FlattenNone DEF Data
<1>5. ~IsUSRVCOM(<<>>)
  <2>1. Len(<<>>) = 0
    OBVIOUS
  <2>2. QED
    BY <2>1 DEF IsUSRVCOM
<1>6. QED
  BY <1>4, <1>5

\* The steps, by what they do to the data.
LEMMA ActiveCases ==
    ASSUME [Next]_vars, Active'
    PROVE  \/ UNCHANGED <<kept, done, reading>>
           \/ TakesPart /\ ~InCommand
           \/ TakesEnd
           \/ DeadlineKeepsData /\ UNCHANGED handlerVars
           \/ DeadlineDropsLine /\ UNCHANGED handlerVars
           \/ ModemCommand
           \/ Tone
<1>1. CASE Reading
  <2>1. UNCHANGED handlerVars
    BY <1>1 DEF Reading
  <2>2. CASE PeerSends \/ PeerCloses \/ Tick \/ Fill
    BY <2>1, <2>2 DEF PeerSends, PeerCloses, Tick, Fill, callVars, handlerVars, kept
  <2>3. CASE ReadPart
    <3>1. CASE InCommand
      BY <2>1, <2>3, <3>1 DEF ReadPart, handlerVars, kept
    <3>2. CASE ~InCommand
      BY <2>1, <2>3, <3>2 DEF TakesPart
    <3>3. QED
      BY <3>1, <3>2
  <2>4. CASE ReadLineEnd
    BY <2>1, <2>4 DEF TakesEnd
  <2>5. CASE TimesOut \/ StreamEnds
    BY <2>5 DEF TimesOut, StreamEnds, Fail, Active
  <2>6. QED
    BY <1>1, <2>1, <2>2, <2>3, <2>4, <2>5 DEF Reading, Reader
<1>2. CASE Handler
  BY <1>2 DEF Handler, ModemDial, Connect, HandOver, Token,
         Register, BadToken, DeviceTone, DeviceWaitEnds,
     GiveUp, Active
<1>3. CASE UNCHANGED vars
  BY <1>3 DEF vars, readerVars, callVars, handlerVars, kept
<1>4. QED
  BY <1>1, <1>2, <1>3, NextCases

\* With no data at hand, a step leaves the data and the settings alone, but for
\* those of a command executed.
LEMMA QuietStep ==
    ASSUME StreamControl, [Next]_vars, Active', skipped = <<>>, ~((TakesPart \/ TakesEnd) /\ ~InCommand)
    PROVE  UNCHANGED <<kept, done>> \/ ModemCommand \/ Tone
<1>1. allSkipped \in Seq(Part)
  BY DEF StreamControl, KeptTypes
<1>2. CASE TakesEnd /\ InCommand
  <2>1. VcomAfter(Data(skipped)) = vcom /\ SkippedAfter(Data(skipped), skipped) = allSkipped \o <<>>
    BY DataOfNone DEF VcomAfter, SkippedAfter
  <2>2. allSkipped \o <<>> = allSkipped
    BY <1>1, ConcatEmptySeq
  <2>3. /\ skipped' = <<>> /\ allSkipped' = SkippedAfter(Data(skipped), skipped)
        /\ vcom' = VcomAfter(Data(skipped)) /\ UNCHANGED handlerVars
    BY <1>2 DEF TakesEnd, ReadLineEnd
  <2>4. QED
    BY <2>1, <2>2, <2>3 DEF handlerVars, kept
<1>3. CASE DeadlineDropsLine /\ UNCHANGED handlerVars
  BY <1>3 DEF DeadlineDropsLine, Again, handlerVars, kept
<1>4. CASE DeadlineKeepsData
  BY <1>4 DEF DeadlineKeepsData
<1>5. QED
  BY <1>2, <1>3, <1>4, ActiveCases

LEMMA PacketData ==
    ASSUME SendingTypes, [Next]_vars, torn \subseteq torn', NEW p \in Packets
    PROVE  /\ PartsOf(p)' = PartsOf(p) /\ (Asked(p)' <=> Asked(p)) /\ Meant(p)' = Meant(p)
           /\ \A j : Ending(p, j) => Ending(p, j)'
<1>1. PartsOf(p)' = PartsOf(p) /\ script'[p] = script[p]
  BY PacketIs, PacketKept
<1>2. (Asked(p)' <=> Asked(p)) /\ Meant(p)' = Meant(p)
  BY <1>1 DEF Asked, Meant
<1>3. QED
  BY <1>1, <1>2 DEF Ending

LEMMA DoneStays ==
    ASSUME Control, [Next]_vars, NEW p \in Nat
    PROVE  /\ (\E n \in 1 .. Len(done) : p < done[n])
                  => \E n \in 1 .. Len(done') : p < done'[n]
           /\ (\E n \in 1 .. Len(done) : p < done[n] /\ script[done[n]] \notin ModemKind)
                  => \E n \in 1 .. Len(done') : p < done'[n] /\ script'[done'[n]] \notin ModemKind
<1>1. SendingTypes /\ RecordTypes
  BY ControlParts DEF Control
<1>2. /\ 1 .. Len(done) \subseteq 1 .. Len(done')
      /\ \A n \in 1 .. Len(done) : done'[n] = done[n]
  BY DoneKept
<1>3. ASSUME NEW n \in 1 .. Len(done), p < done[n] PROVE script'[done[n]] = script[done[n]]
  <2>1. done[n] \in Commands \cup {0}
    BY <1>1 DEF RecordTypes
  <2>2. done[n] \in Messages
    BY <1>3, <2>1 DEF Commands
  <2>3. QED
    BY <1>1, <2>2, PacketKept
<1>4. QED
  BY <1>2, <1>3

\* What is not touched stays as it is.
LEMMA StageStays ==
    ASSUME StreamControl, StreamControl', [Next]_vars, Active', ~((TakesPart \/ TakesEnd) /\ ~InCommand),
           ~Astray(line)', UNCHANGED kept, skipped = <<>> \/ reading' = reading, NEW p \in Packets, Stage(p)
    PROVE  Stage(p)'
<1>1. /\ SendingTypes /\ Control /\ torn \subseteq torn'
      /\ UNCHANGED <<skipped, allSkipped, presets, vcom, config>>
  BY ActiveBefore DEF StreamControl, kept
<1>2. /\ PartsOf(p)' = PartsOf(p) /\ PartsOf(p) \in 1 .. PartsOf(p) /\ PartsOf(p) \in Nat /\ p \in Nat
      /\ (Asked(p)' <=> Asked(p)) /\ Meant(p)' = Meant(p)
      /\ \A j : Ending(p, j) => Ending(p, j)'
  BY <1>1, PacketIs, PacketData
<1>3. \A k \in 1 .. PartsOf(p) : Position(p, k) => Position(p, k)'
  BY PositionStays
<1>4. Asked(p) /\ p \in torn => p \in torn'
  BY <1>1
<1>5. CASE Collected(p)
  <2>1. PICK k \in 1 .. PartsOf(p), j \in 0 .. PartsOf(p) : CollectedTo(p, k, j)
    BY <1>5 DEF Collected
  <2>2. reading' = "returned" => j = k
    <3>1. skipped = <<>> => j = k
      <4>1. Len(<<>>) = 0
        OBVIOUS
      <4>2. QED
        BY <1>2, <2>1, <4>1 DEF CollectedTo, Pieces
    <3>2. QED
      BY <2>1, <3>1 DEF CollectedTo
  <2>3. CollectedTo(p, k, j)'
    BY <1>1, <1>2, <1>3, <2>1, <2>2 DEF CollectedTo, Pieces
  <2>4. Collected(p)'
    BY <1>2, <2>3 DEF Collected
  <2>5. QED
    BY <2>4 DEF Stage
<1>6. CASE Parsed(p)
  BY <1>1, <1>2, <1>3, <1>6 DEF Parsed, Stage
<1>7. CASE Stored(p)
  <2>1. \E n \in 1 .. Len(done') : p < done'[n]
    BY <1>1, <1>2, <1>7, DoneStays DEF Stored
  <2>2. Stored(p)'
    BY <1>1, <1>2, <1>3, <1>4, <1>7, <2>1 DEF Stored, Pieces
  <2>3. QED
    BY <2>2 DEF Stage
<1>8. CASE Forgotten(p)
  <2>1. \E n \in 1 .. Len(done') : p < done'[n] /\ script'[done'[n]] \notin ModemKind
    BY <1>1, <1>2, <1>8, DoneStays DEF Forgotten
  <2>2. Forgotten(p)'
    BY <1>1, <1>2, <1>3, <1>4, <1>8, <2>1 DEF Forgotten, Nothing
  <2>3. QED
    BY <2>2 DEF Stage
<1>9. QED
  BY <1>5, <1>6, <1>7, <1>8 DEF Stage

(***************************************************************************)
(* The steps of a packet.                                                  *)
(***************************************************************************)

LEMMA PiecesAppend ==
    ASSUME NEW p, NEW a \in Nat, NEW b \in Nat, a <= b, NEW s \in Seq(Part), Pieces(s, p, a, b),
           <<p, b + 1>> \in Part
    PROVE  Append(s, <<p, b + 1>>) \in Seq(Part) /\ Pieces(Append(s, <<p, b + 1>>), p, a, b + 1)
<1>1. PICK x \in Part : x = <<p, b + 1>>
  OBVIOUS
<1>2. PICK n \in Nat : n = b - a /\ n = Len(s)
  BY DEF Pieces
<1>3. /\ Append(s, x) \in Seq(Part) /\ Len(Append(s, x)) = n + 1
      /\ Append(s, x)[n + 1] = x /\ \A i \in 1 .. n : Append(s, x)[i] = s[i]
  BY <1>2
<1>4. ASSUME NEW i \in 1 .. n + 1 PROVE Append(s, x)[i] = <<p, a + i>>
  <2>1. CASE i \in 1 .. n
    <3>1. s[i] = <<p, a + i>>
      BY <1>2, <2>1 DEF Pieces
    <3>2. QED
      BY <1>3, <2>1, <3>1
  <2>2. CASE i = n + 1
    <3>1. a + i = b + 1
      BY <1>2, <2>2
    <3>2. x = <<p, a + i>>
      BY <1>1, <3>1, Zenon
    <3>3. Append(s, x)[i] = x
      BY <1>3, <2>2, Zenon
    <3>4. QED
      BY <3>2, <3>3, Zenon
  <2>3. i \in 1 .. n \/ i = n + 1
    OBVIOUS
  <2>4. QED
    BY <2>1, <2>2, <2>3
<1>5. (b + 1) - a = n + 1
  BY <1>2
<1>6. QED
  BY <1>1, <1>3, <1>4, <1>5 DEF Pieces

LEMMA PiecesJoin ==
    ASSUME NEW p, NEW a \in Nat, NEW b \in Nat, NEW c \in Nat, a <= b, b <= c,
           NEW s \in Seq(Part), Pieces(s, p, a, b), NEW t \in Seq(Part), Pieces(t, p, b, c)
    PROVE  s \o t \in Seq(Part) /\ Pieces(s \o t, p, a, c)
<1>1. PICK m \in Nat, n \in Nat : m = b - a /\ n = c - b /\ m = Len(s) /\ n = Len(t) /\ c - a = m + n
  <2>1. b - a \in Nat /\ c - b \in Nat /\ c - a = (b - a) + (c - b)
    OBVIOUS
  <2>2. QED
    BY <2>1 DEF Pieces
<1>2. /\ s \o t \in Seq(Part) /\ Len(s \o t) = m + n
      /\ \A i \in 1 .. m + n : (s \o t)[i] = IF i <= m THEN s[i] ELSE t[i - m]
  <2>1. /\ s \o t \in Seq(Part) /\ Len(s \o t) = Len(s) + Len(t)
        /\ \A i \in 1 .. Len(s) + Len(t) : (s \o t)[i] = IF i <= Len(s) THEN s[i] ELSE t[i - Len(s)]
    BY ConcatProperties
  <2>2. m = Len(s) /\ n = Len(t)
    BY <1>1
  <2>3. QED
    BY <2>1, <2>2, Zenon
<1>3. ASSUME NEW i \in 1 .. m + n PROVE (s \o t)[i] = <<p, a + i>>
  <2>1. CASE i <= m
    BY <1>1, <1>2, <2>1 DEF Pieces
  <2>2. CASE ~(i <= m)
    <3>1. PICK j \in 1 .. n : j = i - m /\ b + j = a + i
      <4>1. i - m \in 1 .. n /\ b + (i - m) = a + i
        BY <1>1, <2>2
      <4>2. QED
        BY <4>1
    <3>2. t[j] = <<p, b + j>>
      BY <1>1, <3>1 DEF Pieces
    <3>3. QED
      BY <1>2, <2>2, <3>1, <3>2
  <2>3. QED
    BY <2>1, <2>2
<1>4. QED
  BY <1>1, <1>2, <1>3 DEF Pieces

LEMMA NoPieces ==
    ASSUME NEW p, NEW a \in Nat
    PROVE  /\ Pieces(<<>>, p, a, a)
           /\ \A s \in Seq(Part) : \A b \in Nat : Pieces(s, p, a, b) => (s = <<>> <=> a = b)
<1>1. Len(<<>>) = 0 /\ \A s \in Seq(Part) : s = <<>> <=> Len(s) = 0
  OBVIOUS
<1>2. a - a = 0
  OBVIOUS
<1>3. \A b \in Nat : b - a = 0 <=> a = b
  OBVIOUS
<1>4. QED
  BY <1>1, <1>2, <1>3 DEF Pieces

\* The data of a line of a packet that the reader cannot mistake.
LEMMA LineOfPacket ==
    ASSUME SendingTypes, [Next]_vars, torn \subseteq torn', NEW p \in Packets, Unmistakable(p)',
           NEW k \in 1 .. PartsOf(p), NEW j \in 0 .. PartsOf(p), j < k,
           NEW s \in Seq(Part), Pieces(s, p, j, k), Ending(p, j), k < PartsOf(p) => p \in torn'
    PROVE  /\ IsUSRVCOM(Data(s)) => Asked(p) /\ j = 0
           /\ Asked(p) /\ j = 0 /\ k = PartsOf(p) =>
                 IsUSRVCOM(Data(s)) /\ ParseUSRVCOM(Data(s)) = Meant(p) /\ Meant(p) # NoConfig
           /\ Asked(p) /\ j = 0 /\ k < PartsOf(p) => ParseUSRVCOM(Data(s)) = NoConfig
           /\ ~(Asked(p) /\ j = 0 /\ k = PartsOf(p)) => Ending(p, k)'
<1>1. PICK text \in Seq(Seq(Byte) \ {<<>>}), t \in Nat :
         text = Text[script[p]] /\ t = Len(text) /\ t = PartsOf(p)
  BY PacketIs
<1>2. script'[p] = script[p] /\ PartsOf(p)' = t /\ (Asked(p)' <=> Asked(p))
  BY <1>1, PacketIs, PacketKept, PacketData
<1>3. NoNewline(p)
  BY <1>1, <1>2 DEF Unmistakable, NoNewline
<1>4. ASSUME IsUSRVCOM(Data(s)) PROVE Asked(p) /\ j = 0
  <2>1. Data(s) = FlattenSeq(SubSeq(text, j + 1, k))
    <3>1. j \in Nat /\ k \in 0 .. PartsOf(p) /\ j <= k
      BY <1>1
    <3>2. QED
      BY <1>1, <1>3, <3>1, DataOfPieces
  <2>2. PICK a \in 1 .. t : a = j + 1
    BY <1>1
  <2>3. p \in torn' \/ (a = 1 /\ k = t)
    BY <1>1, <2>2 DEF Ending
  <2>4. k \in 1 .. t
    BY <1>1
  <2>5. Asked(p) /\ a = 1
    BY <1>1, <1>2, <1>4, <2>1, <2>2, <2>3, <2>4 DEF Unmistakable, Asked
  <2>6. QED
    BY <2>2, <2>5
<1>5. ASSUME Asked(p), j = 0
      PROVE  /\ k = PartsOf(p) =>
                   IsUSRVCOM(Data(s)) /\ ParseUSRVCOM(Data(s)) = Meant(p) /\ Meant(p) # NoConfig
             /\ k < PartsOf(p) => ParseUSRVCOM(Data(s)) = NoConfig
  <2>1. k \in 0 .. PartsOf(p) /\ Pieces(s, p, 0, k)
    BY <1>1, <1>5
  <2>2. QED
    BY <1>3, <1>5, <2>1, DataOfAsked
<1>6. ASSUME ~(Asked(p) /\ j = 0 /\ k = t) PROVE Ending(p, k)'
  <2>1. k < t \/ k = t
    BY <1>1
  <2>2. CASE k < t
    BY <1>1, <2>2 DEF Ending
  <2>3. CASE k = t /\ Asked(p)
    BY <1>1, <1>6, <2>3 DEF Ending
  <2>4. CASE k = t /\ ~Asked(p)
    BY <1>2, <2>4 DEF Ending
  <2>5. QED
    BY <2>1, <2>2, <2>3, <2>4
<1>7. QED
  BY <1>1, <1>4, <1>5, <1>6

\* A line of a packet ends, or is cut off: it becomes settings or is kept as data.
LEMMA LineEnds ==
    ASSUME StreamControl, [Next]_vars, torn \subseteq torn', NEW p \in Packets, Unmistakable(p)',
           NEW k \in 1 .. PartsOf(p), NEW j \in 0 .. PartsOf(p), j < k, CollectedTo(p, k, j),
           k < PartsOf(p) => p \in torn', Position(p, k)',
           skipped' = <<>>, UNCHANGED <<presets, config>>,
           \/ /\ IsUSRVCOM(Data(skipped)) /\ ParseUSRVCOM(Data(skipped)) # NoConfig
              /\ allSkipped' = allSkipped /\ vcom' = ParseUSRVCOM(Data(skipped))
           \/ /\ ~IsUSRVCOM(Data(skipped)) \/ ParseUSRVCOM(Data(skipped)) = NoConfig
              /\ allSkipped' = allSkipped \o skipped /\ vcom' = vcom
    PROVE  Stage(p)'
<1>1. /\ SendingTypes /\ skipped \in Seq(Part) /\ allSkipped \in Seq(Part)
      /\ k \in Nat /\ j \in Nat /\ 0 \in Nat /\ 0 <= j /\ j <= k
  <2>1. SendingTypes /\ skipped \in Seq(Part) /\ allSkipped \in Seq(Part)
    BY ControlParts DEF StreamControl, Control, KeptTypes
  <2>2. PartsOf(p) \in Nat
    BY <2>1, PacketIs
  <2>3. QED
    BY <2>1, <2>2
<1>2. /\ Pieces(allSkipped, p, 0, j) /\ Pieces(skipped, p, j, k) /\ Ending(p, j)
      /\ presets = <<>> /\ vcom = NoConfig /\ config = NoConfig
  BY DEF CollectedTo
<1>3. /\ PartsOf(p)' = PartsOf(p) /\ (Asked(p)' <=> Asked(p)) /\ Meant(p)' = Meant(p)
  BY <1>1, PacketData
<1>4. /\ IsUSRVCOM(Data(skipped)) => Asked(p) /\ j = 0
      /\ Asked(p) /\ j = 0 /\ k = PartsOf(p) =>
            /\ IsUSRVCOM(Data(skipped)) /\ ParseUSRVCOM(Data(skipped)) = Meant(p)
            /\ Meant(p) # NoConfig
      /\ Asked(p) /\ j = 0 /\ k < PartsOf(p) => ParseUSRVCOM(Data(skipped)) = NoConfig
      /\ ~(Asked(p) /\ j = 0 /\ k = PartsOf(p)) => Ending(p, k)'
  BY <1>1, <1>2, LineOfPacket
<1>5. CASE IsUSRVCOM(Data(skipped)) /\ ParseUSRVCOM(Data(skipped)) # NoConfig
  <2>1. Asked(p) /\ j = 0 /\ k = PartsOf(p)
    <3>1. k < PartsOf(p) \/ k = PartsOf(p)
      BY <1>1, PacketIs
    <3>2. QED
      BY <1>4, <1>5, <3>1
  <2>2. allSkipped = <<>>
    BY <1>1, <1>2, <2>1, NoPieces
  <2>3. vcom' = Meant(p) /\ allSkipped' = <<>>
    BY <1>4, <1>5, <2>1, <2>2
  <2>4. Parsed(p)'
    BY <1>2, <1>3, <2>1, <2>3 DEF Parsed
  <2>5. QED
    BY <2>4 DEF Stage
<1>6. CASE ~(IsUSRVCOM(Data(skipped)) /\ ParseUSRVCOM(Data(skipped)) # NoConfig)
  <2>1. Ending(p, k)'
    BY <1>4, <1>6
  <2>2. Pieces(allSkipped \o skipped, p, 0, k)
    BY <1>1, <1>2, PiecesJoin
  <2>3. Pieces(allSkipped, p, 0, k)' /\ Pieces(skipped, p, k, k)' /\ vcom' = vcom
    <3>1. allSkipped' = allSkipped \o skipped /\ skipped' = <<>> /\ vcom' = vcom
      BY <1>6
    <3>2. Pieces(<<>>, p, k, k)
      BY <1>1, NoPieces
    <3>3. QED
      BY <2>2, <3>1, <3>2, Zenon DEF Pieces
  <2>4. k <= k /\ k \in 1 .. PartsOf(p) /\ k \in 0 .. PartsOf(p)
    BY <1>1, PacketIs
  <2>5. CollectedTo(p, k, k)'
    BY <1>2, <2>1, <2>3, <2>4 DEF CollectedTo
  <2>6. Collected(p)'
    BY <1>3, <2>4, <2>5 DEF Collected
  <2>7. QED
    BY <2>6 DEF Stage
<1>7. QED
  BY <1>5, <1>6


\* The next part of the packet is read.
LEMMA StageTakes ==
    ASSUME StreamControl, StreamControl', [Next]_vars, Active', TakesPart, ~InCommand,
           NEW p \in Packets, NEW n \in 1 .. PartsOf(p), Ahead[1] = <<p, n>>, buf[1] = <<p, n>>,
           Past(p, n)', \/ n = 1 /\ Nothing
                        \/ Stage(p)
    PROVE  Stage(p)'
<1>1. /\ SendingTypes /\ QueueTypes /\ torn \subseteq torn' /\ Control
      /\ skipped \in Seq(Part) /\ skipped \in Seq(Part)
  BY ActiveBefore DEF StreamControl, KeptTypes
<1>2. /\ PartsOf(p) \in Nat \ {0} /\ PartsOf(p)' = PartsOf(p) /\ <<p, n>> \in Part
      /\ \A j : Ending(p, j) => Ending(p, j)'
  BY <1>1, PacketIs, PacketData
<1>3. Position(p, n)'
  BY PositionMoves
<1>4. /\ skipped' = Append(skipped, <<p, n>>) /\ reading' = "reads"
      /\ UNCHANGED <<allSkipped, vcom, presets, config>>
  BY DEF TakesPart, ReadPart, Reads, handlerVars
<1>5. ASSUME NEW k \in Nat, NEW j \in 0 .. PartsOf(p), n = k + 1, j <= k,
             presets = <<>> /\ vcom = NoConfig /\ config = NoConfig,
             Pieces(allSkipped, p, 0, j), Pieces(skipped, p, j, k), Ending(p, j)
      PROVE  Stage(p)'
  <2>1. Pieces(skipped', p, j, n)
    <3>1. j \in Nat /\ <<p, k + 1>> \in Part
      BY <1>2, <1>5
    <3>2. Pieces(Append(skipped, <<p, k + 1>>), p, j, k + 1)
      BY <1>1, <1>5, <3>1, PiecesAppend
    <3>3. QED
      BY <1>4, <1>5, <3>2
  <2>2. Pieces(allSkipped, p, 0, j)' /\ Pieces(skipped, p, j, n)'
    BY <1>4, <1>5, <2>1 DEF Pieces
  <2>3. j <= n /\ reading' # "returned"
    BY <1>2, <1>4, <1>5
  <2>4. CollectedTo(p, n, j)'
    BY <1>2, <1>3, <1>4, <1>5, <2>2, <2>3 DEF CollectedTo
  <2>5. Collected(p)'
    BY <1>2, <1>5, <2>4 DEF Collected
  <2>6. QED
    BY <2>5 DEF Stage
<1>6. CASE n = 1 /\ Nothing
  <2>1. Pieces(allSkipped, p, 0, 0) /\ Pieces(skipped, p, 0, 0)
    BY <1>6, NoPieces DEF Nothing
  <2>2. 0 \in Nat /\ 0 \in 0 .. PartsOf(p) /\ n = 0 + 1 /\ 0 <= 0 /\ Ending(p, 0)
    BY <1>2, <1>6 DEF Ending
  <2>3. QED
    BY <1>5, <1>6, <2>1, <2>2 DEF Nothing
<1>7. Len(Ahead) >= 1
  BY <1>1, TakesAhead
<1>8. ASSUME Position(p, PartsOf(p)) PROVE FALSE
  <2>1. PartsOf(p) \in 1 .. PartsOf(p)
    BY <1>2
  <2>2. PartsOf(p) < PartsOf(p)
    BY <1>1, <1>7, <1>8, <2>1, PositionNext
  <2>3. QED
    BY <1>2, <2>2
<1>9. CASE Collected(p)
  <2>1. PICK k \in 1 .. PartsOf(p), j \in 0 .. PartsOf(p) : CollectedTo(p, k, j)
    BY <1>9 DEF Collected
  <2>2. Position(p, k)
    BY <2>1 DEF CollectedTo
  <2>3. n = k + 1
    BY <1>1, <1>7, <2>2, PositionNext
  <2>4. k \in Nat
    BY <1>2
  <2>5. QED
    BY <1>5, <2>1, <2>3, <2>4 DEF CollectedTo
<1>10. QED
  BY <1>6, <1>8, <1>9 DEF Stage, Parsed, Stored, Forgotten


\* The command returned comes with the data of its line.
LEMMA StageEnds ==
    ASSUME StreamControl, StreamControl', [Next]_vars, Active', TakesEnd, InCommand,
           ~Astray(line)',
           NEW p \in Packets, Unmistakable(p)', Stage(p)
    PROVE  Stage(p)'
<1>1. /\ SendingTypes /\ torn \subseteq torn' /\ Control /\ LineIs
      /\ skipped \in Seq(Part) /\ reading = "reads"
  BY ActiveBefore, ReadsWhileTaking DEF StreamControl, StreamInv, KeptTypes
<1>2. PartsOf(p) \in Nat /\ PartsOf(p)' = PartsOf(p)
  BY <1>1, PacketIs, PacketData
<1>3. CASE skipped = <<>>
  <2>1. ~((TakesPart \/ TakesEnd) /\ ~InCommand)
    OBVIOUS
  <2>2. ~ModemCommand /\ ~Tone
    BY <1>1 DEF ModemCommand, Tone, Handles, Executes
  <2>3. UNCHANGED kept
    BY <1>3, <2>1, <2>2, QuietStep
  <2>4. QED
    BY <1>3, <2>1, <2>3, StageStays
<1>4. CASE skipped # <<>>
  <2>1. Collected(p)
    BY <1>4 DEF Stage, Parsed, Stored, Forgotten, Nothing
  <2>2. PICK k \in 1 .. PartsOf(p), j \in 0 .. PartsOf(p) : CollectedTo(p, k, j)
    BY <2>1 DEF Collected
  <2>3. k \in Nat /\ j \in Nat
    BY <1>2
  <2>4. /\ j <= k /\ Pieces(skipped, p, j, k) /\ Position(p, k) /\ Ending(p, j)
    BY <2>2 DEF CollectedTo
  <2>5. j < k
    <3>1. j # k
      BY <1>1, <1>4, <2>3, <2>4, NoPieces
    <3>2. QED
      BY <2>3, <2>4, <3>1
  <2>6. Position(p, k)'
    <3>1. ~((TakesPart \/ TakesEnd) /\ ~InCommand)
      OBVIOUS
    <3>2. QED
      BY <2>4, <3>1, PositionStays
  <2>7. ~(k < PartsOf(p))
    <3>1. line' # <<>>
      BY <1>1, TakesLine, LineGoesOn
    <3>2. QED
      BY <1>2, <2>6, <3>1 DEF Position
  <2>8. k = PartsOf(p)
    BY <1>2, <2>7
  <2>9. IsUSRVCOM(Data(skipped)) => ParseUSRVCOM(Data(skipped)) # NoConfig
    BY <1>1, <2>4, <2>5, <2>7, <2>8, LineOfPacket
  <2>10. /\ skipped' = <<>> /\ UNCHANGED <<presets, config>>
         /\ allSkipped' = SkippedAfter(Data(skipped), skipped) /\ vcom' = VcomAfter(Data(skipped))
    BY DEF TakesEnd, ReadLineEnd, handlerVars
  <2>11. \/ /\ IsUSRVCOM(Data(skipped)) /\ ParseUSRVCOM(Data(skipped)) # NoConfig
            /\ allSkipped' = allSkipped /\ vcom' = ParseUSRVCOM(Data(skipped))
         \/ /\ ~IsUSRVCOM(Data(skipped)) \/ ParseUSRVCOM(Data(skipped)) = NoConfig
            /\ allSkipped' = allSkipped \o skipped /\ vcom' = vcom
    BY <2>9, <2>10 DEF SkippedAfter, VcomAfter
  <2>12. QED
    BY <1>1, <2>2, <2>5, <2>6, <2>7, <2>10, <2>11, LineEnds
<1>5. QED
  BY <1>3, <1>4

\* An error cuts the packet, or ends its line.
LEMMA CutsPacket ==
    ASSUME StreamControl, ReadFails(Expired), line = <<>>, NEW p \in Packets, NEW k \in 1 .. PartsOf(p),
           NEW j \in 0 .. PartsOf(p), j < k, k < PartsOf(p), Pieces(skipped, p, j, k)
    PROVE  p \in torn'
<1>1. SendingTypes /\ skipped \in Seq(Part) /\ p \in Nat
  BY ControlParts, PacketIs DEF StreamControl, Control, KeptTypes
<1>2. PICK t \in Nat : t = PartsOf(p) /\ k < t /\ k \in Nat /\ j \in Nat
  BY <1>1, PacketIs
<1>3. PICK n \in Nat \ {0} : n = k - j /\ Len(skipped) = n /\ \A i \in 1 .. n : skipped[i] = <<p, j + i>>
  <2>1. k - j \in Nat \ {0}
    BY <1>2
  <2>2. PICK n \in Nat \ {0} : n = k - j
    BY <2>1
  <2>3. Len(skipped) = n /\ \A i \in 1 .. n : skipped[i] = <<p, j + i>>
    BY <2>2, Zenon DEF Pieces
  <2>4. QED
    BY <2>2, <2>3, Zenon
<1>4. line \o skipped = skipped
  BY <1>1
<1>5. PICK read : read = ToSet(line \o skipped) /\ read = {skipped[i] : i \in 1 .. n}
  <2>1. ToSet(skipped) = {skipped[i] : i \in 1 .. n}
    <3>1. DOMAIN skipped = 1 .. n
      BY <1>1, <1>3
    <3>2. QED
      BY <3>1, Zenon DEF ToSet
  <2>2. QED
    BY <1>4, <2>1
<1>6. <<p, j + 1>> \in read
  BY <1>3, <1>5
<1>7. <<p, t>> \notin read
  <2>1. SUFFICES ASSUME NEW i \in 1 .. n, skipped[i] = <<p, t>> PROVE FALSE
    BY <1>5
  <2>2. j + i = t
    BY <1>3, <2>1
  <2>3. QED
    BY <1>2, <1>3, <2>2
<1>8. p \in Cut
  <2>1. p \in {part[1] : part \in read}
    BY <1>6
  <2>2. QED
    BY <1>2, <1>5, <1>7, <2>1 DEF Cut, PartsOf
<1>9. QED
  BY <1>8 DEF ReadFails

\* The deadline ends the line of a packet, wherever it is.
LEMMA StageKept ==
    ASSUME StreamControl, StreamControl', [Next]_vars, Active', DeadlineKeepsData, UNCHANGED handlerVars,
           ~Astray(line)',
           NEW p \in Packets, Unmistakable(p)', Stage(p)
    PROVE  Stage(p)'
<1>1. /\ SendingTypes /\ torn \subseteq torn' /\ Control
      /\ skipped \in Seq(Part) /\ skipped # <<>> /\ line = <<>> /\ ReadFails(Expired)
  BY ActiveBefore DEF StreamControl, KeptTypes, DeadlineKeepsData
<1>2. PartsOf(p) \in Nat
  BY <1>1, PacketIs
<1>3. Collected(p)
  BY <1>1 DEF Stage, Parsed, Stored, Forgotten, Nothing
<1>4. PICK k \in 1 .. PartsOf(p), j \in 0 .. PartsOf(p) : CollectedTo(p, k, j)
  BY <1>3 DEF Collected
<1>5. /\ j <= k /\ Pieces(skipped, p, j, k) /\ Position(p, k) /\ k \in Nat /\ j \in Nat
  BY <1>2, <1>4 DEF CollectedTo
<1>6. j < k
  <2>1. j # k
    BY <1>1, <1>5, NoPieces
  <2>2. QED
    BY <1>5, <2>1
<1>7. Position(p, k)'
  <2>1. ~((TakesPart \/ TakesEnd) /\ ~InCommand)
    BY <1>1 DEF TakesPart, TakesEnd, ReadPart, ReadLineEnd, Reads, ReadFails
  <2>2. QED
    BY <1>5, <2>1, PositionStays
<1>8. k < PartsOf(p) => p \in torn'
  BY <1>1, <1>5, <1>6, CutsPacket
<1>9. /\ skipped' = <<>> /\ UNCHANGED <<presets, config>>
      /\ \/ /\ IsUSRVCOM(Data(skipped)) /\ ParseUSRVCOM(Data(skipped)) # NoConfig
            /\ allSkipped' = allSkipped /\ vcom' = ParseUSRVCOM(Data(skipped))
         \/ /\ ~IsUSRVCOM(Data(skipped)) \/ ParseUSRVCOM(Data(skipped)) = NoConfig
            /\ allSkipped' = allSkipped \o skipped /\ vcom' = vcom
  BY DEF DeadlineKeepsData, Again, handlerVars
<1>10. QED
  BY <1>1, <1>4, <1>6, <1>7, <1>8, <1>9, LineEnds

\* The deadline that drops a command line cuts a command.
LEMMA StageDropped ==
    ASSUME StreamControl, StreamControl', [Next]_vars, Active', DeadlineDropsLine, UNCHANGED handlerVars,
           ~Astray(line), ~Astray(line)',
           NEW p \in Packets, Stage(p)
    PROVE  Stage(p)'
<1>1. /\ Control /\ KeptTypes /\ LineIs /\ SkippedBefore /\ Commands \cap torn' = {} /\ LineBegun
  BY ActiveBefore DEF StreamControl, StreamInv, Control
<1>2. ReadFails(Expired) /\ (skipped = <<>> \/ line # <<>>) /\ Again(allSkipped, vcom)
  BY DEF DeadlineDropsLine
<1>3. Fails
  <2>1. Ahead' = Ahead
    BY <1>2 DEF ReadFails, Ahead
  <2>2. /\ line' = <<>> /\ skipped' = <<>> /\ reading' \in {"reads", "failed"}
        /\ allSkipped' = allSkipped
    BY <1>2 DEF Again, ReadFails
  <2>3. QED
    BY <1>2, <2>1, <2>2 DEF ReadFails, Fails, peerVars, handlerVars
<1>4. skipped = <<>>
  <2>1. SUFFICES ASSUME line # <<>> PROVE FALSE
    BY <1>2
  <2>2. Message \in torn'
    BY <1>1, <1>3, <2>1, CutsLine
  <2>3. Message \in Commands
    <3>1. line \in Seq(Part)
      BY <1>1 DEF Control, ControlTypes
    <3>2. QED
      BY <2>1, <3>1, OwnLine DEF Message
  <2>4. QED
    BY <1>1, <2>2, <2>3
<1>5. ~((TakesPart \/ TakesEnd) /\ ~InCommand)
  BY <1>2 DEF TakesPart, TakesEnd, ReadPart, ReadLineEnd, Reads, ReadFails
<1>6. UNCHANGED kept
  BY <1>2, <1>4 DEF Again, handlerVars, kept
<1>7. QED
  BY <1>4, <1>5, <1>6, StageStays


\* A command that is executed was sent behind the packet.
LEMMA CommandBehind ==
    ASSUME StreamControl, StreamControl', [Next]_vars, reading = "returned", done' = Append(done, Message),
           NEW p \in Packets, NEW k \in 1 .. PartsOf(p), Position(p, k)
    PROVE  /\ k = PartsOf(p) /\ Message \in Commands
           /\ \E n \in 1 .. Len(done') : p < done'[n]
           /\ script[Message] \notin ModemKind =>
                 \E n \in 1 .. Len(done') : p < done'[n] /\ script'[done'[n]] \notin ModemKind
<1>1. SendingTypes /\ QueueTypes /\ RecordTypes /\ LineBegun /\ line # <<>>
  BY ControlParts DEF StreamControl, Control, LineBegun
<1>2. PartsOf(p) \in Nat /\ p \in Nat
  BY <1>1, PacketIs
<1>3. k = PartsOf(p) /\ p < Message
  BY <1>1, <1>2 DEF Position
<1>4. PICK l \in Nat : l = Len(done) /\ done \in Seq(Commands \cup {0})
  <2>1. done \in Seq(Commands \cup {0})
    BY <1>1 DEF RecordTypes
  <2>2. Len(done) \in Nat
    BY <2>1
  <2>3. QED
    BY <2>1, <2>2, Zenon
<1>5. Message \in Commands /\ Message \in Messages
  <2>1. Message \in Commands \cup {0} /\ Message # 0
    BY <1>1, <1>2, <1>3, ReturnedCommand
  <2>2. QED
    BY <2>1 DEF Commands
<1>6. l + 1 \in 1 .. Len(done') /\ done'[l + 1] = Message
  BY <1>4, <1>5
<1>7. script'[Message] = script[Message]
  BY <1>1, <1>5, PacketKept
<1>8. QED
  BY <1>3, <1>5, <1>6, <1>7

LEMMA StageModem ==
    ASSUME StreamControl, StreamControl', [Next]_vars, Active', ModemCommand, ~Astray(line)',
           NEW p \in Packets, Stage(p)
    PROVE  Stage(p)'
<1>1. SendingTypes /\ Control /\ torn \subseteq torn' /\ {allSkipped, presets} \subseteq Seq(Part)
  BY ActiveBefore DEF StreamControl, KeptTypes
<1>2. /\ reading = "returned" /\ done' = Append(done, Message)
      /\ config' = Or(vcom, config) /\ presets' = presets \o allSkipped
      /\ skipped' = <<>> /\ allSkipped' = <<>> /\ vcom' = NoConfig
  BY DEF ModemCommand, Handles, Executes, Call
<1>3. ~((TakesPart \/ TakesEnd) /\ ~InCommand)
  BY <1>2 DEF TakesPart, TakesEnd, ReadPart, ReadLineEnd, Reads
<1>4. /\ PartsOf(p)' = PartsOf(p) /\ PartsOf(p) \in 1 .. PartsOf(p) /\ PartsOf(p) \in Nat
      /\ (Asked(p)' <=> Asked(p)) /\ Meant(p)' = Meant(p)
      /\ \A j : Ending(p, j) => Ending(p, j)'
  BY <1>1, PacketIs, PacketData
<1>5. \A k \in 1 .. PartsOf(p) : Position(p, k) => Position(p, k)'
  BY <1>3, PositionStays
<1>6. \A s \in Seq(Part) : <<>> \o s = s /\ s \o <<>> = s
  OBVIOUS
<1>7. CASE Collected(p)
  <2>1. PICK k \in 1 .. PartsOf(p), j \in 0 .. PartsOf(p) : CollectedTo(p, k, j)
    BY <1>7 DEF Collected
  <2>2. Position(p, k) /\ j = k
    BY <1>2, <2>1 DEF CollectedTo
  <2>3. k = PartsOf(p) /\ \E n \in 1 .. Len(done') : p < done'[n]
    BY <1>2, <2>2, CommandBehind
  <2>4. Pieces(allSkipped, p, 0, PartsOf(p)) /\ Ending(p, PartsOf(p))
        /\ presets = <<>> /\ vcom = NoConfig /\ config = NoConfig
    BY <2>1, <2>2, <2>3 DEF CollectedTo
  <2>5. Asked(p) => p \in torn'
    BY <1>1, <2>4 DEF Ending
  <2>6. presets' = allSkipped /\ config' = NoConfig
    BY <1>1, <1>2, <1>6, <2>4 DEF Or
  <2>7. Position(p, PartsOf(p))'
    BY <1>4, <1>5, <2>2, <2>3
  <2>8. Stored(p)'
    BY <1>2, <1>4, <2>3, <2>4, <2>5, <2>6, <2>7 DEF Stored, Pieces
  <2>9. QED
    BY <2>8 DEF Stage
<1>8. CASE Parsed(p)
  <2>1. presets' = <<>>
    BY <1>1, <1>2, <1>6, <1>8 DEF Parsed
  <2>2. {vcom', config'} \subseteq {Meant(p), NoConfig} /\ Meant(p) \in {vcom', config'}
    BY <1>2, <1>8 DEF Parsed, Or
  <2>3. Position(p, PartsOf(p))'
    BY <1>4, <1>5, <1>8 DEF Parsed
  <2>4. Parsed(p)'
    BY <1>2, <1>4, <1>8, <2>1, <2>2, <2>3 DEF Parsed
  <2>5. QED
    BY <2>4 DEF Stage
<1>9. CASE Stored(p) \/ Forgotten(p)
  <2>1. skipped = <<>> /\ allSkipped = <<>> /\ vcom = NoConfig /\ config = NoConfig
    BY <1>9 DEF Stored, Forgotten, Nothing
  <2>2. presets' = presets /\ config' = config
    BY <1>1, <1>2, <1>6, <2>1 DEF Or
  <2>3. UNCHANGED kept
    BY <1>2, <2>1, <2>2 DEF kept
  <2>4. QED
    BY <1>3, <1>9, <2>1, <2>3, StageStays
<1>10. QED
  BY <1>7, <1>8, <1>9 DEF Stage

LEMMA StageTone ==
    ASSUME StreamControl, StreamControl', [Next]_vars, Active', Tone, ~Astray(line)',
           NEW p \in Packets, Stage(p)
    PROVE  Stage(p)'
<1>1. SendingTypes /\ Control /\ torn \subseteq torn'
  BY ActiveBefore DEF StreamControl
<1>2. /\ reading = "returned" /\ done' = Append(done, Message)
      /\ Message # 0 => script[Message] \notin ModemKind
      /\ config' = Or(vcom, config) /\ presets' = presets
      /\ skipped' = <<>> /\ allSkipped' = <<>> /\ vcom' = NoConfig
  BY DEF Tone, Handles, Executes, Call, Active, ModemKind
<1>3. ~((TakesPart \/ TakesEnd) /\ ~InCommand)
  BY <1>2 DEF TakesPart, TakesEnd, ReadPart, ReadLineEnd, Reads
<1>4. /\ PartsOf(p)' = PartsOf(p) /\ PartsOf(p) \in 1 .. PartsOf(p) /\ PartsOf(p) \in Nat
      /\ (Asked(p)' <=> Asked(p)) /\ Meant(p)' = Meant(p)
      /\ \A j : Ending(p, j) => Ending(p, j)'
  BY <1>1, PacketIs, PacketData
<1>5. \A k \in 1 .. PartsOf(p) : Position(p, k) => Position(p, k)'
  BY <1>3, PositionStays
<1>6. CASE Collected(p)
  <2>1. PICK k \in 1 .. PartsOf(p), j \in 0 .. PartsOf(p) : CollectedTo(p, k, j)
    BY <1>6 DEF Collected
  <2>2. Position(p, k) /\ j = k
    BY <1>2, <2>1 DEF CollectedTo
  <2>3. /\ k = PartsOf(p)
        /\ \E n \in 1 .. Len(done') : p < done'[n] /\ script'[done'[n]] \notin ModemKind
    <3>1. Message \in Commands
      BY <1>2, <2>2, CommandBehind
    <3>2. script[Message] \notin ModemKind
      BY <1>2, <3>1 DEF Commands, Messages
    <3>3. QED
      BY <1>2, <2>2, <3>2, CommandBehind
  <2>4. Ending(p, PartsOf(p)) /\ presets = <<>> /\ vcom = NoConfig /\ config = NoConfig
    BY <2>1, <2>2, <2>3 DEF CollectedTo
  <2>5. Asked(p) => p \in torn'
    BY <1>1, <2>4 DEF Ending
  <2>6. Nothing'
    BY <1>2, <2>4 DEF Nothing, Or
  <2>7. Position(p, PartsOf(p))'
    BY <1>4, <1>5, <2>2, <2>3
  <2>8. Forgotten(p)'
    BY <1>4, <2>3, <2>5, <2>6, <2>7 DEF Forgotten
  <2>9. QED
    BY <2>8 DEF Stage
<1>7. CASE Parsed(p)
  <2>1. {vcom', config'} \subseteq {Meant(p), NoConfig} /\ Meant(p) \in {vcom', config'}
    BY <1>2, <1>7 DEF Parsed, Or
  <2>2. Position(p, PartsOf(p))'
    BY <1>4, <1>5, <1>7 DEF Parsed
  <2>3. Parsed(p)'
    BY <1>2, <1>4, <1>7, <2>1, <2>2 DEF Parsed
  <2>4. QED
    BY <2>3 DEF Stage
<1>8. CASE Stored(p) \/ Forgotten(p)
  <2>1. skipped = <<>> /\ allSkipped = <<>> /\ vcom = NoConfig /\ config = NoConfig
    BY <1>8 DEF Stored, Forgotten, Nothing
  <2>2. UNCHANGED kept
    BY <1>2, <2>1 DEF kept, Or
  <2>3. QED
    BY <1>3, <1>8, <2>1, <2>2, StageStays
<1>9. QED
  BY <1>6, <1>7, <1>8 DEF Stage

\* The one packet sent has no line end in it.
LEMMA NoLineEnd ==
    ASSUME StreamControl, StreamControl', [Next]_vars, Active', TakesEnd, ~InCommand,
           NEW p \in Packets, Only(p)', Unmistakable(p)'
    PROVE  FALSE
<1>1. SendingTypes
  BY ActiveBefore
<1>2. PICK q, n : q \in Packets /\ n \in 1 .. PartsOf(q) /\ buf[1] = <<q, n>> /\ Touched(q)'
  BY PacketTaken
<1>3. q = p
  BY <1>1, <1>2, PacketIs, PacketKept DEF Only
<1>4. script'[p] = script[p]
  BY <1>1, PacketIs, PacketKept
<1>5. PICK b : b = Text[script[p]][n] /\ b \in Seq(Byte) \ {<<>>} /\ b = Bytes(<<p, n>>)
  <2>1. Text[script[p]] \in Seq(Seq(Byte) \ {<<>>}) /\ n \in 1 .. Len(Text[script[p]])
    BY <1>1, <1>2, <1>3, PacketIs
  <2>2. Text[script[p]][n] \in Seq(Byte) \ {<<>>}
    BY <2>1, ElementOfSeq
  <2>3. QED
    BY <1>1, <1>2, <1>3, <2>2, PacketIs
<1>6. Len(b) \in 1 .. Len(b) /\ Last(b) = b[Len(b)]
  BY <1>5 DEF Last
<1>7. IsNewline(b[Len(b)])
  BY <1>2, <1>3, <1>5, <1>6 DEF TakesEnd, ReadLineEnd, EndsLine
<1>8. ~IsNewline(b[Len(b)])
  <2>1. n \in 1 .. Len(Text[script[p]])
    BY <1>1, <1>2, <1>3, PacketIs
  <2>2. QED
    BY <1>4, <1>5, <1>6, <2>1 DEF Unmistakable
<1>9. QED
  BY <1>7, <1>8


(***************************************************************************)
(* The invariant.                                                          *)
(***************************************************************************)

\* In the handshake there is no data before a packet is read, and what has been read
\* of the only one is at one of its stages.
KeptInv ==
    Active =>
        /\ (\A q \in Packets : ~Touched(q)) => Nothing
        /\ \A p \in Packets :
              Touched(p) /\ Only(p) /\ Unmistakable(p) /\ ~Astray(line) => Stage(p)

LEMMA UnmistakableBefore ==
    ASSUME SendingTypes, [Next]_vars, torn \subseteq torn', NEW p \in Packets, Unmistakable(p)'
    PROVE  Unmistakable(p) /\ Bytes(<<p, 1>>)' # <<LF>>
<1>1. script'[p] = script[p]
  BY PacketIs, PacketKept
<1>2. PICK text \in Seq(Seq(Byte) \ {<<>>}) : text = Text[script[p]] /\ text # <<>>
  <2>1. Text[script[p]] \in Seq(Seq(Byte) \ {<<>>}) \ {<<>>}
    BY PacketIs, Assumptions
  <2>2. QED
    BY <2>1
<1>3. Unmistakable(p)
  BY <1>1 DEF Unmistakable
<1>4. \A n \in 1 .. Len(text) : \A i \in 1 .. Len(text[n]) : ~IsNewline(text[n][i])
  BY <1>2, <1>3 DEF Unmistakable
<1>5. text[1] # <<LF>>
  <2>1. SUFFICES ASSUME text[1] = <<LF>> PROVE FALSE
    OBVIOUS
  <2>2. 1 \in 1 .. Len(text) /\ 1 \in 1 .. Len(text[1]) /\ text[1][1] = LF
    BY <1>2, <2>1
  <2>3. QED
    BY <1>4, <2>2 DEF IsNewline
<1>6. Bytes(<<p, 1>>)' = text[1]
  BY <1>1, <1>2 DEF Bytes
<1>7. QED
  BY <1>3, <1>5, <1>6

LEMMA OnlyBefore ==
    ASSUME StreamControl, StreamControl', [Next]_vars, Active', NEW p, Only(p)'
    PROVE  Only(p)
<1>1. \A q \in Packets : Touched(q) => q \in Packets' /\ Touched(q)'
  BY TouchedStays DEF Touched
<1>2. QED
  BY <1>1 DEF Only

LEMMA NothingStays ==
    ASSUME StreamControl, StreamControl', KeptInv, [Next]_vars, Active', \A q \in Packets' : ~Touched(q)'
    PROVE  Nothing'
<1>1. Active /\ SendingTypes
  BY ActiveBefore
<1>2. \A q : ~Touched(q)'
  BY DEF Touched
<1>3. \A q : ~Touched(q)
  BY <1>2, TouchedStays
<1>4. Nothing
  BY <1>1, <1>3 DEF KeptInv
<1>5. ~((TakesPart \/ TakesEnd) /\ ~InCommand)
  <2>1. SUFFICES ASSUME TakesPart \/ TakesEnd, ~InCommand PROVE FALSE
    OBVIOUS
  <2>2. \E q \in Packets : Touched(q)'
    BY <2>1, PacketTaken
  <2>3. QED
    BY <1>2, <2>2
<1>6. UNCHANGED <<kept, done>> \/ ModemCommand \/ Tone
  BY <1>4, <1>5, QuietStep DEF Nothing
<1>7. CASE UNCHANGED <<kept, done>>
  BY <1>4, <1>7 DEF Nothing, kept
<1>8. CASE ModemCommand
  <2>1. presets' = presets \o allSkipped
    BY <1>8 DEF ModemCommand
  <2>2. <<>> \o <<>> = <<>>
    OBVIOUS
  <2>3. presets' = <<>>
    BY <1>4, <2>1, <2>2 DEF Nothing
  <2>4. QED
    BY <1>4, <1>8, <2>3 DEF ModemCommand, Handles, Executes, Call, Or, Nothing
<1>9. CASE Tone
  BY <1>4, <1>9 DEF Tone, Handles, Executes, Call, Or, Nothing, Active
<1>10. QED
  BY <1>6, <1>7, <1>8, <1>9

(***************************************************************************)
(* No line goes astray before a session that has one packet before it.     *)
(***************************************************************************)

\* A line that no command begins waits for the next packet.
Stuck(m) == reading = "reads" /\ buf # <<>> /\ buf[1][1] \in Packets /\ buf[1][1] # m

AstrayInv ==
    Active /\ Astray(line) /\ Only(line[1][1]) /\ Unmistakable(line[1][1]) => Stuck(line[1][1])

\* It is a packet's, while no error has cut a command.
LEMMA AstrayIs ==
    ASSUME StreamControl, Active, Astray(line)
    PROVE  /\ line # <<>> /\ line[1][1] \in Packets /\ Touched(line[1][1])
           /\ \A i \in 1 .. Len(line) : line[i][1] \in Packets
<1>1. /\ SendingTypes /\ QueueTypes /\ LineBegun /\ LineFirst /\ Commands \cap torn = {}
      /\ line \in Seq(Part) /\ line # <<>>
  BY ControlParts DEF StreamControl, OrderInv, Control, Active, Untorn, QueueTypes, Astray
<1>2. ASSUME NEW i \in 1 .. Len(line) PROVE line[i][1] \in Packets
  <2>1. line[i] \in Part /\ line[i][1] \in torn
    BY <1>1 DEF LineBegun
  <2>2. line[i][1] \in Messages
    BY <1>1, <2>1, PartIs
  <2>3. QED
    BY <1>1, <2>1, <2>2 DEF Packets
<1>3. 1 \in 1 .. Len(line) /\ line[1] \in Part
  BY <1>1
<1>4. PICK m, n : /\ line[1] = <<m, n>> /\ m \in Messages /\ m \in Nat /\ n \in Nat \ {0}
                  /\ PartsOf(m) \in Nat /\ n <= PartsOf(m)
  <2>1. /\ line[1] = <<line[1][1], line[1][2]>> /\ line[1][1] \in Messages /\ line[1][1] \in Nat
        /\ PartsOf(line[1][1]) \in Nat /\ line[1][2] \in 1 .. PartsOf(line[1][1])
    BY <1>1, <1>3, PartIs
  <2>2. QED
    BY <2>1
<1>5. Arrived(<<m, n>>) /\ \A i \in 1 .. Len(Ahead) : Before(<<m, n>>, Ahead[i])
  BY <1>1, <1>4 DEF LineFirst
<1>6. Past(m, 1)
  <2>1. PICK c \in Nat, f \in Nat, t \in Nat : c = Len(script) /\ f = left /\ t = PartsOf(m)
    <3>1. Len(script) \in Nat /\ left \in Nat /\ PartsOf(m) \in Nat
      BY <1>1, <1>4 DEF SendingTypes
    <3>2. QED
      BY <3>1, Zenon
  <2>2. m < c \/ (m = c /\ n <= t - f)
    BY <1>5, <2>1 DEF Arrived, PartsOf
  <2>3. m < c \/ (m = c /\ 1 <= t - f)
    BY <1>4, <2>2
  <2>4. Arrived(<<m, 1>>)
    BY <2>1, <2>3 DEF Arrived, PartsOf
  <2>5. ASSUME NEW i \in 1 .. Len(Ahead) PROVE Before(<<m, 1>>, Ahead[i])
    <3>1. Ahead \in Seq(Part)
      BY <1>1, AheadTypes
    <3>2. Ahead[i][2] \in Nat
      BY <3>1 DEF Part
    <3>3. QED
      BY <1>4, <1>5, <3>2 DEF Before
  <2>6. QED
    BY <2>4, <2>5 DEF Past
<1>7. m \in Packets
  BY <1>2, <1>3, <1>4
<1>8. Touched(m)
  BY <1>6, <1>7 DEF Touched, Message
<1>9. QED
  BY <1>1, <1>2, <1>4, <1>7, <1>8

\* While it waits it stays as it is; the packet it waits for is another one.
LEMMA StuckStays ==
    ASSUME StreamControl, StreamControl', [Next]_vars, Active', Astray(line),
           NEW m, m = line[1][1], Stuck(m), Only(m)'
    PROVE  line'[1] = line[1] /\ Astray(line)' /\ Stuck(m)'
<1>1. SendingTypes /\ QueueTypes /\ line \in Seq(Part) /\ line # <<>> /\ InCommand
  BY ControlParts DEF StreamControl, Control, QueueTypes, Astray, InCommand
<1>2. ASSUME line' = line, reading' = reading, buf' # <<>>, buf'[1] = buf[1]
      PROVE  line'[1] = line[1] /\ Astray(line)' /\ Stuck(m)'
  <2>1. Astray(line)'
    BY <1>1, <1>2, LineStays
  <2>2. buf[1][1] \in Packets'
    BY <1>1, PacketIs, PacketKept DEF Stuck
  <2>3. QED
    BY <1>2, <2>1, <2>2 DEF Stuck
<1>3. CASE TakesPart \/ TakesEnd
  <2>1. /\ line' = Append(line, buf[1]) /\ script' = script
        /\ Astray(line)' <=> Astray(Append(line, buf[1]))
    BY <1>1, <1>3, TakesLine
  <2>2. line'[1] = line[1] /\ line' # <<>>
    <3>1. buf[1] \in Part
      BY <1>1, <1>3, TakesAhead
    <3>2. QED
      BY <1>1, <2>1, <3>1
  <2>3. Astray(line)'
    BY <2>1, <2>2 DEF Astray
  <2>4. PICK q, n : q \in Messages' /\ buf[1] = <<q, n>> /\ Past(q, 1)'
    BY <1>3, TakenPassed
  <2>5. q \in Packets' /\ q # m
    BY <2>1, <2>4 DEF Stuck, Packets, Commands, Messages
  <2>6. Touched(q)'
    BY <2>3, <2>4, <2>5 DEF Touched, Message
  <2>7. QED
    BY <2>5, <2>6 DEF Only
<1>4. CASE Reading
  <2>1. UNCHANGED handlerVars
    BY <1>4 DEF Reading
  <2>2. CASE PeerSends \/ PeerCloses \/ Tick
    BY <1>2, <2>2 DEF PeerSends, PeerCloses, Tick, callVars, Stuck
  <2>3. CASE Fill
    <3>1. buf' = buf \o unread /\ UNCHANGED <<line, reading>>
      BY <2>3 DEF Fill, callVars
    <3>2. buf \in Seq(Part) /\ unread \in Seq(Part) /\ buf # <<>>
      BY <1>1 DEF QueueTypes, Stuck
    <3>3. buf' # <<>> /\ buf'[1] = buf[1]
      BY <3>1, <3>2
    <3>4. QED
      BY <1>2, <3>1, <3>3
  <2>4. CASE ReadPart \/ ReadLineEnd
    BY <1>3, <2>1, <2>4 DEF TakesPart, TakesEnd
  <2>5. CASE DeadlineKeepsData \/ DeadlineDropsLine \/ TimesOut \/ StreamEnds
    BY <2>5 DEF DeadlineKeepsData, DeadlineDropsLine, TimesOut, StreamEnds, ReadFails, Stuck
  <2>6. QED
    BY <1>4, <2>2, <2>3, <2>4, <2>5 DEF Reading, Reader
<1>5. CASE Handler
  BY <1>5 DEF Handler, ModemCommand, Tone, ModemDial, Connect,
         Register, BadToken, DeviceTone, DeviceWaitEnds,
     GiveUp, Handles, Executes, Stuck
<1>6. CASE UNCHANGED vars
  BY <1>2, <1>6 DEF vars, readerVars, callVars, Stuck
<1>7. QED
  BY <1>4, <1>5, <1>6, NextCases

\* Only the last byte of a packet, an 'A', can begin such a line: the 'T' is another's.
LEMMA AstrayBegins ==
    ASSUME StreamControl, StreamControl', [Next]_vars, Active', ~Astray(line), Astray(line)',
           NEW m, m = line'[1][1], Unmistakable(m)'
    PROVE  Stuck(m)'
<1>1. /\ SendingTypes /\ QueueTypes /\ NoHoles /\ LineIs /\ line \in Seq(Part)
      /\ torn \subseteq torn' /\ Commands \cap torn' = {}
  BY ActiveBefore DEF StreamControl, StreamInv, QueueTypes
<1>2. /\ line' # line /\ line' # <<>>
  BY <1>1, LineStays DEF Astray
<1>3. (TakesPart \/ TakesEnd) /\ InCommand
  <2>1. TakesPart \/ TakesEnd
    BY <1>2, StreamEffect DEF StreamControl, PeerSent, Sent, Idles, Fails, Executes1
  <2>2. InCommand
    BY <1>2, <2>1 DEF TakesPart, TakesEnd, ReadPart, ReadLineEnd, Again
  <2>3. QED
    BY <2>1, <2>2
<1>4. /\ line' = Append(line, buf[1]) /\ script' = script /\ Astray(Append(line, buf[1]))
      /\ buf[1][1] \in torn' /\ buf \in Seq(Part) /\ buf # <<>> /\ buf[1] \in Part
  BY <1>1, <1>3, TakesLine, AstrayTears, TakesAhead DEF QueueTypes
<1>5. line = <<>>
  <2>1. SUFFICES ASSUME line # <<>> PROVE FALSE
    OBVIOUS
  <2>2. Append(line, buf[1])[1] = line[1]
    BY <1>1, <1>4, <2>1
  <2>3. QED
    BY <1>4, <2>1, <2>2 DEF Astray
<1>6. m = buf[1][1] /\ m \in Messages /\ m \in Packets
  <2>1. Append(line, buf[1])[1] = buf[1]
    BY <1>4, <1>5
  <2>2. m = buf[1][1] /\ m \in Messages
    BY <1>1, <1>4, <2>1, PartIs
  <2>3. QED
    BY <1>1, <1>4, <2>2 DEF Packets
<1>7. PICK n, text : /\ n \in 1 .. PartsOf(m) /\ buf[1] = <<m, n>> /\ n \in Nat
                     /\ text \in Seq(Seq(Byte) \ {<<>>}) /\ text = Text[script[m]]
                     /\ PartsOf(m) = Len(text) /\ PartsOf(m) \in Nat \ {0}
                     /\ Bytes(<<m, n>>) = text[n]
  <2>1. buf[1] = <<m, buf[1][2]>> /\ buf[1][2] \in 1 .. PartsOf(m)
    BY <1>1, <1>4, <1>6, PartIs
  <2>2. /\ Text[script[m]] \in Seq(Seq(Byte) \ {<<>>}) /\ PartsOf(m) = Len(Text[script[m]])
        /\ PartsOf(m) \in Nat \ {0}
        /\ \A n \in 1 .. PartsOf(m) : Bytes(<<m, n>>) = Text[script[m]][n]
    BY <1>1, <1>6, PacketIs
  <2>3. buf[1][2] \in Nat
    BY <2>1, <2>2
  <2>4. QED
    BY <2>1, <2>2, <2>3
<1>8. ~HoldsCommand(FlattenSeq(text))
  BY <1>4, <1>7 DEF Unmistakable
<1>9. ~IsPrefix(AT, text[n])
  BY <1>7, <1>8, HoldsWhatBegins
<1>10. text[n] = <<AT[1]>> /\ Len(buf) > 1 /\ Head(Bytes(buf[2])) = AT[2]
  BY <1>3, <1>5, <1>7, <1>9 DEF InCommand
<1>11. /\ Len(Ahead) \in Nat /\ Len(Ahead) >= 2 /\ Ahead[1] = buf[1] /\ Ahead[2] = buf[2]
       /\ Follows(Ahead[1], Ahead[2])
  <2>1. Len(Ahead) \in Nat /\ Len(Ahead) >= 2 /\ Ahead[1] = buf[1] /\ Ahead[2] = buf[2]
    BY <1>1, <1>3, <1>10, TakesAhead, AheadTypes
  <2>2. 1 \in 1 .. Len(Ahead) - 1 /\ 1 + 1 = 2
    BY <2>1
  <2>3. QED
    BY <1>1, <2>1, <2>2 DEF NoHoles
<1>12. n = PartsOf(m)
  <2>1. SUFFICES ASSUME n < PartsOf(m) PROVE FALSE
    BY <1>7
  <2>2. buf[2] = <<m, n + 1>>
    BY <1>7, <1>11, <2>1 DEF Follows
  <2>3. n + 1 \in 1 .. PartsOf(m)
    BY <1>7, <2>1
  <2>4. Bytes(buf[2]) = text[n + 1]
    BY <1>1, <1>6, <1>7, <2>2, <2>3, PacketIs
  <2>5. QED
    BY <1>7, <1>8, <1>10, <2>1, <2>4, HoldsWhatBegins
<1>13. buf[2] = <<m + 1, 1>> /\ m \in Nat
  BY <1>6, <1>7, <1>11, <1>12 DEF Follows, Messages
<1>14. m + 1 \in Packets
  <2>1. buf[2] \in Part
    BY <1>4, <1>10
  <2>2. m + 1 \in Messages
    BY <1>1, <1>13, <2>1, PartIs
  <2>3. m + 1 \notin Commands
    <3>1. SUFFICES ASSUME m + 1 \in Commands PROVE FALSE
      OBVIOUS
    <3>2. Head(Bytes(<<m + 1, 1>>)) = 65
      <4>1. \/ IsPrefix(AT, Bytes(<<m + 1, 1>>))
            \/ Bytes(<<m + 1, 1>>) = <<AT[1]>>
        BY <1>1, <3>1, CommandParts
      <4>2. QED
        BY <4>1 DEF IsPrefix, AT
    <3>3. QED
      BY <1>10, <1>13, <3>2 DEF AT
  <2>4. QED
    BY <2>2, <2>3 DEF Packets
<1>15. ~EndsLine(buf[1])
  <2>1. Bytes(buf[1]) = <<65>>
    BY <1>7, <1>10 DEF AT
  <2>2. Last(Bytes(buf[1])) = 65
    BY <2>1 DEF Last
  <2>3. QED
    BY <2>2 DEF EndsLine, IsNewline, CR, LF
<1>16. reading' = "reads" /\ buf' = Tail(buf)
  BY <1>3, <1>15 DEF TakesPart, TakesEnd, ReadPart, ReadLineEnd, Reads
<1>17. buf' # <<>> /\ buf'[1] = buf[2]
  BY <1>4, <1>10, <1>16
<1>18. m + 1 \in Packets' /\ m + 1 # m
  BY <1>4, <1>13, <1>14 DEF Packets, Commands, Messages
<1>19. QED
  BY <1>13, <1>16, <1>17, <1>18 DEF Stuck

LEMMA AstrayStep ==
    ASSUME StreamControl, StreamControl', AstrayInv, [Next]_vars
    PROVE  AstrayInv'
<1>1. SUFFICES ASSUME Active', Astray(line)', NEW m, m = line'[1][1], Only(m)', Unmistakable(m)'
               PROVE  Stuck(m)'
  BY DEF AstrayInv
<1>2. Active /\ SendingTypes /\ torn \subseteq torn'
  BY <1>1, ActiveBefore
<1>3. CASE ~Astray(line)
  BY <1>1, <1>3, AstrayBegins
<1>4. CASE Astray(line)
  <2>1. PICK p : p = line[1][1] /\ p \in Packets /\ Touched(p)
    BY <1>2, <1>4, AstrayIs
  <2>2. p = m
    <3>1. Touched(p)' /\ p \in Packets'
      BY <1>1, <1>2, <2>1, TouchedStays, PacketIs, PacketKept
    <3>2. QED
      BY <1>1, <3>1 DEF Only
  <2>3. Only(p) /\ Unmistakable(p)
    BY <1>1, <1>2, <2>1, <2>2, OnlyBefore, UnmistakableBefore
  <2>4. Stuck(m)
    BY <1>2, <1>4, <2>1, <2>2, <2>3 DEF AstrayInv
  <2>5. QED
    BY <1>1, <1>4, <2>1, <2>2, <2>4, StuckStays
<1>5. QED
  BY <1>3, <1>4

\* A line that has gone astray stays so until another packet is read.
LEMMA StraightBefore ==
    ASSUME StreamControl, StreamControl', AstrayInv, [Next]_vars, Active', ~Astray(line)',
           NEW p \in Packets, Only(p)', Unmistakable(p)'
    PROVE  ~Astray(line)
<1>1. SUFFICES ASSUME Astray(line) PROVE FALSE
  OBVIOUS
<1>2. Active /\ SendingTypes /\ torn \subseteq torn'
  BY ActiveBefore
<1>3. Only(p) /\ Unmistakable(p)
  BY <1>2, OnlyBefore, UnmistakableBefore
<1>4. p = line[1][1]
  BY <1>1, <1>2, <1>3, AstrayIs DEF Only
<1>5. Stuck(p)
  BY <1>1, <1>2, <1>3, <1>4 DEF AstrayInv
<1>6. QED
  BY <1>1, <1>4, <1>5, StuckStays

(***************************************************************************)
(* The step of the invariant.                                              *)
(***************************************************************************)

LEMMA StageStep ==
    ASSUME StreamControl, StreamControl', LfBehind, KeptInv, AstrayInv, [Next]_vars, Active',
           NEW p \in Packets', Touched(p)', Only(p)', Unmistakable(p)', ~Astray(line)'
    PROVE  Stage(p)'
<1>1. Active /\ SendingTypes /\ torn \subseteq torn'
  BY ActiveBefore
<1>2. ~(TakesEnd /\ ~InCommand)
  <2>1. SUFFICES ASSUME TakesEnd, ~InCommand PROVE FALSE
    OBVIOUS
  <2>2. p \in Packets
    BY <2>1 DEF TakesEnd, ReadLineEnd, peerVars, Packets, Commands, Messages
  <2>3. QED
    BY <2>1, <2>2, NoLineEnd
<1>3. Bytes(<<p, 1>>)' # <<LF>>
  <2>1. script'[p] \in Kind
    <3>1. SendingTypes'
      BY DEF StreamControl, Control, ControlTypes, SendingTypes
    <3>2. QED
      BY <3>1 DEF SendingTypes, Packets, Messages
  <2>2. PICK text \in Seq(Seq(Byte) \ {<<>>}) : text = Text[script'[p]] /\ text # <<>>
    <3>1. Text[script'[p]] \in Seq(Seq(Byte) \ {<<>>}) \ {<<>>}
      BY <2>1, Assumptions
    <3>2. QED
      BY <3>1
  <2>3. \A n \in 1 .. Len(text) : \A i \in 1 .. Len(text[n]) : ~IsNewline(text[n][i])
    BY <2>2 DEF Unmistakable
  <2>4. SUFFICES ASSUME text[1] = <<LF>> PROVE FALSE
    BY <2>2 DEF Bytes
  <2>5. 1 \in 1 .. Len(text) /\ 1 \in 1 .. Len(text[1]) /\ text[1][1] = LF
    BY <2>2, <2>4
  <2>6. QED
    BY <2>3, <2>5 DEF IsNewline
<1>4. p \in Packets /\ (Touched(p) \/ (TakesPart /\ ~InCommand /\ buf[1] = <<p, 1>>))
  BY <1>2, <1>3, TouchedBefore
<1>5. Only(p) /\ Unmistakable(p) /\ ~Astray(line)
  BY <1>1, <1>4, OnlyBefore, UnmistakableBefore, StraightBefore
<1>6. Touched(p) => Stage(p)
  BY <1>1, <1>4, <1>5 DEF KeptInv
<1>7. CASE TakesPart /\ ~InCommand
  <2>1. PICK q, n : /\ q \in Packets /\ n \in 1 .. PartsOf(q)
                   /\ Ahead[1] = <<q, n>> /\ buf[1] = <<q, n>> /\ Past(q, n)' /\ Touched(q)'
    BY <1>7, PacketTaken
  <2>2. q = p
    BY <2>1 DEF Only, Touched
  <2>3. CASE Touched(p)
    BY <1>4, <1>6, <1>7, <2>1, <2>2, <2>3, StageTakes
  <2>4. CASE ~Touched(p)
    <3>1. n = 1
      BY <1>4, <2>1, <2>2, <2>4
    <3>2. Nothing
      BY <1>1, <1>5, <2>4 DEF KeptInv, Only
    <3>3. QED
      BY <1>4, <1>7, <2>1, <2>2, <3>1, <3>2, StageTakes
  <2>5. QED
    BY <2>3, <2>4
<1>8. CASE ~(TakesPart /\ ~InCommand)
  <2>1. Stage(p) /\ ~((TakesPart \/ TakesEnd) /\ ~InCommand)
    BY <1>2, <1>4, <1>6, <1>8
  <2>2. CASE UNCHANGED <<kept, done, reading>>
    <3>1. UNCHANGED kept /\ reading' = reading
      BY <2>2
    <3>2. QED
      BY <1>4, <2>1, <3>1, StageStays
  <2>3. CASE TakesEnd
    BY <1>4, <2>1, <2>3, StageEnds
  <2>4. CASE DeadlineKeepsData /\ UNCHANGED handlerVars
    BY <1>4, <2>1, <2>4, StageKept
  <2>5. CASE DeadlineDropsLine /\ UNCHANGED handlerVars
    BY <1>4, <1>5, <2>1, <2>5, StageDropped
  <2>6. CASE ModemCommand
    BY <1>4, <2>1, <2>6, StageModem
  <2>7. CASE Tone
    BY <1>4, <2>1, <2>7, StageTone
  <2>8. QED
    BY <1>8, <2>2, <2>3, <2>4, <2>5, <2>6, <2>7, ActiveCases
<1>9. QED
  BY <1>7, <1>8

LEMMA KeptInvStep ==
    ASSUME StreamControl, StreamControl', LfBehind, KeptInv, AstrayInv, [Next]_vars
    PROVE  KeptInv'
<1>1. ASSUME Active', \A q \in Packets' : ~Touched(q)' PROVE Nothing'
  BY <1>1, NothingStays
<1>2. ASSUME Active', NEW p \in Packets', Touched(p)', Only(p)', Unmistakable(p)',
             ~Astray(line)'
      PROVE  Stage(p)'
  BY <1>2, StageStep
<1>3. QED
  BY <1>1, <1>2 DEF KeptInv


(***************************************************************************)
(* The hand-over to the session.                                           *)
(***************************************************************************)

\* What the proxy makes of a USR-VCOM packet sets the device as it asks for.
LEMMA MeantSets ==
    ASSUME SendingTypes, NEW p \in Packets, Unmistakable(p), Asked(p)
    PROVE  /\ Meant(p) # NoConfig
           /\ TelnetReads(BuildRFC2217Packet(Meant(p))) = Sets(Asks[script[p]])
<1>1. PICK s \in Setting : s = Asks[script[p]]
  BY HandshakeAssumption DEF Asked, HandshakeAssumption
<1>2. Meant(p) = ParseUSRVCOM(VcomPacket(s)) /\ ParseUSRVCOM(VcomPacket(s)) # NoConfig
  BY <1>1, VcomPacketIs DEF Meant
<1>3. \A i \in 1 .. 3 : BigEndian(s.baud, 3)[i] # IAC
  BY <1>1 DEF Unmistakable, Asked
<1>4. TelnetReads(BuildRFC2217Packet(ParseUSRVCOM(VcomPacket(s)))) = Sets(s)
  BY <1>3, ConversionsFaithful DEF Faithful
<1>5. QED
  BY <1>1, <1>2, <1>4

\* A packet kept as data becomes the bytes for the device.
LEMMA WholePacket ==
    ASSUME SendingTypes, NEW p \in Packets, Unmistakable(p), NEW s \in Seq(Part),
           Pieces(s, p, 0, PartsOf(p))
    PROVE  /\ Asked(p) => ForwardOf(NoConfig, Data(s)) = BuildRFC2217Packet(Meant(p))
           /\ ~Asked(p) => ForwardOf(NoConfig, Data(s)) = FlattenSeq(Text[script[p]])
<1>1. PICK text \in Seq(Seq(Byte) \ {<<>>}), t \in Nat \ {0} :
         text = Text[script[p]] /\ t = Len(text) /\ t = PartsOf(p)
  BY PacketIs
<1>2. NoNewline(p)
  BY <1>1 DEF Unmistakable, NoNewline
<1>3. t \in 0 .. PartsOf(p) /\ Pieces(s, p, 0, t) /\ 0 \in Nat /\ 0 <= t /\ 0 + 1 = 1
  BY <1>1
<1>4. ASSUME Asked(p) PROVE ForwardOf(NoConfig, Data(s)) = BuildRFC2217Packet(Meant(p))
  <2>1. IsUSRVCOM(Data(s)) /\ ParseUSRVCOM(Data(s)) = Meant(p) /\ Meant(p) # NoConfig
    BY <1>1, <1>2, <1>3, <1>4, DataOfAsked
  <2>2. QED
    BY <2>1 DEF ForwardOf
<1>5. ASSUME ~Asked(p) PROVE ForwardOf(NoConfig, Data(s)) = FlattenSeq(Text[script[p]])
  <2>1. Data(s) = FlattenSeq(SubSeq(Text[script[p]], 0 + 1, t))
    BY <1>2, <1>3, DataOfPieces
  <2>2. SubSeq(text, 1, t) = text
    BY <1>1, SubSeqFull
  <2>3. Data(s) = FlattenSeq(SubSeq(text, 1, t)) /\ Data(s) = FlattenSeq(text)
    BY <1>1, <1>3, <2>1, <2>2
  <2>4. ~IsUSRVCOM(Data(s))
    <3>1. 1 \in 1 .. Len(text) /\ t \in 1 .. Len(text)
      BY <1>1
    <3>2. IsUSRVCOM(FlattenSeq(SubSeq(text, 1, t))) => Asked(p)
      BY <1>1, <3>1 DEF Unmistakable, Asked
    <3>3. QED
      BY <1>5, <2>3, <3>2
  <2>5. QED
    BY <1>1, <2>3, <2>4 DEF ForwardOf
<1>6. QED
  BY <1>4, <1>5

\* When a command asks for the session, all of the packets sent before have been read.
LEMMA ReadBehind ==
    ASSUME StreamControl, phase = "handshake", reading = "returned", Commands \cap torn = {},
           NEW p \in Packets, p < Message, Packets \cap 1 .. Message = {p}
    PROVE  Active /\ Touched(p) /\ Only(p) /\ ~Astray(line) /\ Message \in Commands
<1>1. /\ SendingTypes /\ QueueTypes /\ LineBegun /\ LostInv /\ EndedInv
      /\ p \in Messages /\ p \in Nat
  BY ControlParts, PacketIs DEF StreamControl, StreamInv, Control
<1>2. Message \in Commands /\ Message \in Messages /\ Message \in Nat /\ Len(script) \in Nat
  <2>1. Message \in Commands \cup {0} /\ Message # 0
    BY <1>1, ReturnedCommand
  <2>2. QED
    BY <1>1, <2>1 DEF Commands, Messages, SendingTypes
<1>3. Active
  BY <1>1 DEF Active, Untorn, LostInv
<1>4. Ended(Message)
  BY <1>1, <1>2 DEF EndedInv, Executing
<1>5. Past(p, 1)
  <2>1. Arrived(<<p, 1>>)
    <3>1. p < Len(script)
      BY <1>1, <1>2 DEF Messages
    <3>2. QED
      BY <3>1 DEF Arrived
  <2>2. ASSUME NEW i \in 1 .. Len(Ahead) PROVE Before(<<p, 1>>, Ahead[i])
    <3>1. Message < Ahead[i][1]
      BY <1>4, <2>2 DEF Ended
    <3>2. Ahead[i][1] \in Nat
      <4>1. Ahead \in Seq(Part)
        BY <1>1, AheadTypes
      <4>2. Ahead[i] \in Part
        BY <4>1
      <4>3. QED
        BY <4>2 DEF Part, Messages
    <3>3. p < Ahead[i][1]
      BY <1>1, <1>2, <3>1, <3>2
    <3>4. QED
      BY <3>3 DEF Before
  <2>3. QED
    BY <2>1, <2>2 DEF Past
<1>6. Touched(p)
  BY <1>1, <1>2, <1>5 DEF Touched
<1>7. Only(p)
  <2>1. SUFFICES ASSUME NEW q \in Packets, ~(Message < q) PROVE q = p
    BY <1>1, <1>2 DEF Only, Touched
  <2>2. q \in Nat /\ q # 0 /\ q # Message
    BY <1>1, <1>2, PacketIs
  <2>3. q \in Packets \cap 1 .. Message
    BY <1>2, <2>1, <2>2
  <2>4. QED
    BY <2>3
<1>8. ~Astray(line)
  BY <1>1, <1>2, ReturnedCommand
<1>9. QED
  BY <1>2, <1>3, <1>6, <1>7, <1>8

\* The commands executed between the packet and the one that asks for the session.
LEMMA DoneBetween ==
    ASSUME StreamControl, phase = "handshake", reading = "returned", Message # 0,
           NEW n \in 1 .. Len(done), done[n] # 0
    PROVE  done[n] \in Commands /\ done[n] < Message
<1>1. QueueTypes /\ RecordTypes /\ LineBegun /\ DoneFirst
  BY ControlParts DEF StreamControl, OrderInv, Control
<1>2. done[n] \in Commands /\ done[n] \in Nat
  BY <1>1 DEF RecordTypes, Commands, Messages
<1>3. line # <<>> /\ line[1][1] = Message /\ line[1][2] = 1 /\ Message \in Nat
  BY <1>1, ReturnedCommand DEF LineBegun, Messages
<1>4. Before(<<done[n], 1>>, line[1])
  BY <1>1, <1>3 DEF DoneFirst, Waiting
<1>5. QED
  BY <1>2, <1>3, <1>4 DEF Before

\* The commands between message p and the one returned.
Between(p) == {m \in Commands : p < m /\ m < Message}

\* The bytes for the device, if the command returned hands over the settings c and
\* these parts of data.
LEMMA Delivered ==
    ASSUME StreamControl, KeptInv, phase = "handshake", reading = "returned",
           NEW p \in Packets, p < Message, Packets \cap 1 .. Message = {p}, Commands \cap torn = {},
           Unmistakable(p), NEW c, c = Or(vcom, config), NEW parts,
           \/ parts = allSkipped /\ script[Message] # "dial"
           \/ parts = IF allSkipped = <<>> THEN presets ELSE allSkipped
    PROVE  IF Asked(p)
           THEN (p \notin torn \/ Between(p) = {}) =>
                   TelnetReads(ForwardOf(c, Data(parts))) = Sets(Asks[script[p]])
           ELSE (\/ Between(p) = {}
                 \/ script[Message] = "dial" /\ \A m \in Between(p) : script[m] \in ModemKind)
                => ForwardOf(c, Data(parts)) = FlattenSeq(Text[script[p]])
<1>1. /\ SendingTypes /\ allSkipped \in Seq(Part) /\ presets \in Seq(Part)
      /\ PartsOf(p) \in Nat \ {0} /\ PartsOf(p) \in Nat /\ PartsOf(p) # 0
  BY ControlParts, PacketIs DEF StreamControl, Control, KeptTypes
<1>2. Stage(p)
  BY ReadBehind DEF KeptInv
<1> Message # 0 /\ p \in Nat
  BY <1>1, ReadBehind, PacketIs DEF Commands, Messages
<1>3. Asked(p) => /\ Meant(p) # NoConfig
                  /\ TelnetReads(BuildRFC2217Packet(Meant(p))) = Sets(Asks[script[p]])
  BY <1>1, MeantSets
<1>4. \A n \in 1 .. Len(done) : p < done[n] => done[n] \in Between(p)
  <2>1. ASSUME NEW n \in 1 .. Len(done), p < done[n] PROVE done[n] \in Between(p)
    <3>1. done[n] # 0
      BY <2>1
    <3>2. done[n] \in Commands /\ done[n] < Message
      BY <3>1, DoneBetween
    <3>3. QED
      BY <2>1, <3>2 DEF Between
  <2>2. QED
    BY <2>1
<1>5. ASSUME c = NoConfig, parts \in Seq(Part), Pieces(parts, p, 0, PartsOf(p))
      PROVE  /\ Asked(p) => TelnetReads(ForwardOf(c, Data(parts))) = Sets(Asks[script[p]])
             /\ ~Asked(p) => ForwardOf(c, Data(parts)) = FlattenSeq(Text[script[p]])
  BY <1>1, <1>3, <1>5, WholePacket
<1>6. CASE Collected(p)
  <2>1. PICK k \in 1 .. PartsOf(p), j \in 0 .. PartsOf(p) : CollectedTo(p, k, j)
    BY <1>6 DEF Collected
  <2>2. j = k /\ k = PartsOf(p)
    BY <1>1, <2>1 DEF CollectedTo, Position
  <2>3. Pieces(allSkipped, p, 0, PartsOf(p)) /\ vcom = NoConfig /\ config = NoConfig
    BY <2>1, <2>2 DEF CollectedTo
  <2>4. allSkipped # <<>>
    BY <1>1, <2>3, NoPieces
  <2>5. parts = allSkipped /\ c = NoConfig
    BY <2>3, <2>4 DEF Or
  <2>6. QED
    BY <1>1, <1>5, <2>3, <2>5
<1>7. CASE Parsed(p)
  <2>1. Asked(p) /\ c = Meant(p)
    BY <1>3, <1>7 DEF Parsed, Or
  <2>2. ForwardOf(c, Data(parts)) = BuildRFC2217Packet(Meant(p))
    BY <1>3, <2>1 DEF ForwardOf
  <2>3. QED
    BY <1>3, <2>1, <2>2
<1>8. CASE Stored(p)
  <2>1. Between(p) # {}
    BY <1>4, <1>8 DEF Stored
  <2>2. CASE Asked(p)
    BY <1>8, <2>1, <2>2 DEF Stored
  <2>3. CASE ~Asked(p)
    <3>1. SUFFICES ASSUME script[Message] = "dial"
                   PROVE  ForwardOf(c, Data(parts)) = FlattenSeq(Text[script[p]])
      BY <2>1, <2>3
    <3>2. parts = presets /\ c = NoConfig /\ Pieces(presets, p, 0, PartsOf(p))
      BY <1>8, <3>1 DEF Stored, Or
    <3>3. QED
      BY <1>1, <1>5, <2>3, <3>2
  <2>4. QED
    BY <2>2, <2>3
<1>9. CASE Forgotten(p)
  <2>1. \E m \in Between(p) : script[m] \notin ModemKind
    BY <1>4, <1>9 DEF Forgotten
  <2>2. CASE Asked(p)
    BY <1>9, <2>1, <2>2 DEF Forgotten
  <2>3. CASE ~Asked(p)
    BY <2>1, <2>3
  <2>4. QED
    BY <2>2, <2>3
<1>10. QED
  BY <1>2, <1>6, <1>7, <1>8, <1>9 DEF Stage


\* A session begins with a command executed.
LEMMA SessionBegins ==
    ASSUME [Next]_vars, phase' = "client"
    PROVE  \/ UNCHANGED vars
           \/ /\ phase = "handshake" /\ reading = "returned"
              /\ done' = Append(done, Message) /\ UNCHANGED <<script, torn>>
              /\ \E parts : /\ forward' = ForwardOf(Or(vcom, config), Data(parts))
                            /\ \/ parts = allSkipped /\ (Message # 0 => script[Message] # "dial")
                               \/ parts = IF allSkipped = <<>> THEN presets ELSE allSkipped
<1>1. CASE Reading
  BY <1>1 DEF Reading, Waiting, handlerVars
<1>2. CASE ModemDial
  BY <1>2 DEF ModemDial, HandOver, Handles, Executes, peerVars
<1>3. CASE Connect
  BY <1>3 DEF Connect, HandOver, Handles, Executes, peerVars
<1>4. CASE ModemCommand \/ Tone \/ Register \/ DeviceTone \/ DeviceWaitEnds \/ GiveUp
  BY <1>4 DEF ModemCommand, Tone,
         Register, BadToken, DeviceTone, DeviceWaitEnds, GiveUp, Handles, Executes
<1>5. QED
  BY <1>1, <1>2, <1>3, <1>4, NextCases DEF Handler

LEMMA SettingsKeptStep ==
    ASSUME StreamControl, KeptInv, SettingsKept, [Next]_vars
    PROVE  SettingsKept'
<1>1. CASE phase' # "client"
  BY <1>1 DEF SettingsKept
<1>2. CASE UNCHANGED vars
  <2>1. UNCHANGED <<script, torn, phase, done, forward>>
    BY <1>2, Zenon DEF vars, readerVars, peerVars, handlerVars
  <2>2. Packets' = Packets /\ Commands' = Commands /\ LastDone' = LastDone
    BY <2>1 DEF Packets, Commands, Messages, LastDone
  <2>3. \A p : Unmistakable(p)' <=> Unmistakable(p)
    BY <2>1 DEF Unmistakable
  <2>4. QED
    BY <2>1, <2>2, <2>3, Zenon DEF SettingsKept
<1>3. ASSUME phase = "handshake", reading = "returned", done' = Append(done, Message),
             UNCHANGED <<script, torn>>, NEW parts, forward' = ForwardOf(Or(vcom, config), Data(parts)),
             \/ parts = allSkipped /\ (Message # 0 => script[Message] # "dial")
             \/ parts = IF allSkipped = <<>> THEN presets ELSE allSkipped
      PROVE  SettingsKept'
  <2>1. Commands' = Commands /\ Packets' = Packets
    BY <1>3 DEF Packets, Commands, Messages
  <2>2. LastDone' = Message /\ Message \in Messages \cup {0}
    <3>1. /\ done \in Seq(Commands \cup {0})
          /\ Message \in Commands \cup {0} /\ Message \in Messages \cup {0}
      BY <1>3, ControlParts, ReturnedCommand DEF StreamControl, Control, RecordTypes
    <3>2. PICK l \in Nat : l = Len(done)
      BY <3>1
    <3>3. Len(done') = l + 1 /\ done'[l + 1] = Message
      BY <1>3, <3>1, <3>2
    <3>4. QED
      BY <3>1, <3>3 DEF LastDone
  <2>3. ASSUME NEW p \in Packets, p < Message, Packets \cap 1 .. Message = {p}, Commands \cap torn = {},
               Unmistakable(p)
        PROVE  IF script[p] \in DOMAIN Asks
               THEN (p \notin torn \/ {m \in Commands : p < m /\ m < Message} = {}) =>
                       TelnetReads(forward') = Sets(Asks[script[p]])
               ELSE (\/ {m \in Commands : p < m /\ m < Message} = {}
                     \/ /\ script[Message] = "dial"
                        /\ \A m \in {m \in Commands : p < m /\ m < Message} : script[m] \in ModemKind)
                    => forward' = FlattenSeq(Text[script[p]])
    <3>1. PICK c : c = Or(vcom, config)
      OBVIOUS
    <3>2. IF Asked(p)
          THEN (p \notin torn \/ Between(p) = {}) =>
                  TelnetReads(ForwardOf(c, Data(parts))) = Sets(Asks[script[p]])
          ELSE (\/ Between(p) = {}
                \/ script[Message] = "dial" /\ \A m \in Between(p) : script[m] \in ModemKind)
               => ForwardOf(c, Data(parts)) = FlattenSeq(Text[script[p]])
      <4>1. Message # 0
        BY <2>3 DEF Packets, Messages
      <4>2. QED
        BY <1>3, <2>3, <3>1, <4>1, Delivered
    <3>3. forward' = ForwardOf(c, Data(parts))
      BY <1>3, <3>1
    <3>4. QED
      BY <3>2, <3>3 DEF Asked, Between
  <2>4. \A p \in Packets : Unmistakable(p)' => Unmistakable(p)
    BY <1>3 DEF Unmistakable
  <2>5. QED
    BY <1>3, <2>1, <2>2, <2>3, <2>4, Zenon DEF SettingsKept
<1>4. QED
  BY <1>1, <1>2, <1>3, SessionBegins

\* The settings of the one packet that a client sends before its session reach the
\* device, and other data reaches it as it is: the reader and the handler lose none of
\* it on the way, unless an error cuts a command, or the packet itself.
THEOREM SettingsReachDevice == Spec => []SettingsKept
<1>1. Init => LfBehind /\ KeptInv /\ AstrayInv /\ SettingsKept
  <2> SUFFICES ASSUME Init PROVE LfBehind /\ KeptInv /\ AstrayInv /\ SettingsKept
    OBVIOUS
  <2>1. Packets = {}
    BY DEF Init, ReaderInit, Packets, Messages
  <2>2. Nothing
    BY DEF Init, Nothing
  <2>3. ~Astray(line)
    BY DEF Init, Astray
  <2>4. QED
    BY <2>1, <2>2, <2>3 DEF AstrayInv, LfBehind, KeptInv, SettingsKept
<1>2. StreamControl /\ StreamControl' /\ LfBehind /\ KeptInv /\ AstrayInv /\ SettingsKept /\ [Next]_vars
        => LfBehind' /\ KeptInv' /\ AstrayInv' /\ SettingsKept'
  BY LfBehindStep, KeptInvStep, AstrayStep, SettingsKeptStep
<1>3. QED
  BY <1>1, <1>2, StreamInOrder, PTL DEF Spec
=============================================================================
