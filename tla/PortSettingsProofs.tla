------------------------- MODULE PortSettingsProofs -------------------------
(***************************************************************************)
(* Proofs about PortSettings, for any data: what the conversions return,   *)
(* and that they are right for every setting of a port.                    *)
(*                                                                         *)
(* The recursive functions of the model are CHOOSEn: each proof about one  *)
(* first shows that there is such a function.  Induction is over a least   *)
(* counterexample, as the library's theorem takes an operator.             *)
(***************************************************************************)
EXTENDS PortSettings, FiniteSetTheorems, SequenceTheorems, WellFoundedInduction, TLAPS

(***************************************************************************)
(* Induction and recursion on numbers.                                     *)
(***************************************************************************)

LessThan == {pair \in Nat \X Nat : pair[1] < pair[2]}

LEMMA LessThanWellFounded == IsWellFoundedOn(LessThan, Nat)
  BY NatLessThanWellFounded, Zenon DEF OpToRel, LessThan

\* A set of numbers that is not empty has a least one.
LEMMA Least ==
    ASSUME NEW S, S \subseteq Nat, S # {}
    PROVE  \E x \in S : \A y \in S : x <= y
<1>1. PICK x \in S : \A y \in S : ~(<<y, x>> \in LessThan)
  BY LessThanWellFounded, WFMin
<1>2. ASSUME NEW y \in S PROVE x <= y
  <2>1. x \in Nat /\ y \in Nat /\ <<y, x>> \notin LessThan
    BY <1>1
  <2>2. ~(y < x)
    BY <2>1 DEF LessThan
  <2>3. QED
    BY <2>1, <2>2
<1>3. QED
  BY <1>2

\* Induction, on a set of numbers.
LEMMA Induction ==
    ASSUME NEW n \in Nat, NEW P, 0 \in P, \A k \in 1 .. n : k - 1 \in P => k \in P
    PROVE  \A k \in 0 .. n : k \in P
<1> DEFINE S == {k \in 0 .. n : k \notin P}
<1>1. S \subseteq Nat
  OBVIOUS
<1>2. S = {}
  <2> SUFFICES ASSUME S # {} PROVE FALSE
    OBVIOUS
  <2>1. PICK k \in S : \A j \in S : k <= j
    <3> HIDE DEF S
    <3>1. QED
      BY <1>1, Least
  <2>2. k \in 0 .. n /\ k \notin P
    OBVIOUS
  <2>3. k # 0
    BY <2>2
  <2>4. k \in 1 .. n
    BY <2>2, <2>3
  <2>5. k - 1 \in P
    <3>1. k - 1 \in 0 .. n /\ ~(k <= k - 1)
      BY <2>4
    <3>2. k - 1 \notin S
      BY <2>1, <3>1
    <3>3. QED
      BY <3>1, <3>2
  <2>6. QED
    BY <2>2, <2>4, <2>5
<1>3. QED
  BY <1>2

\* f goes from a, in n steps.
Goes(f, n, T, a, step) ==
    f \in [0 .. n -> T] /\ f[0] = a /\ \A i \in 1 .. n : f[i] = step[i][f[i - 1]]

\* A function on 0 .. n is defined by its first value and a step.
LEMMA Recursion ==
    ASSUME NEW n \in Nat, NEW T, NEW a \in T, NEW step \in [1 .. n -> [T -> T]]
    PROVE  \E f : Goes(f, n, T, a, step)
<1> DEFINE Is(k, f) == f[0] = a /\ \A i \in 1 .. k : f[i] = step[i][f[i - 1]]
           P == {k \in 0 .. n : \E f \in [0 .. k -> T] : Is(k, f)}
<1>1. 0 \in P
  <2>1. PICK f \in [0 .. 0 -> T] : f = [i \in 0 .. 0 |-> a]
    OBVIOUS
  <2>2. f[0] = a
    BY <2>1
  <2>3. Is(0, f)
    BY <2>2
  <2>4. QED
    BY <2>3
<1>2. ASSUME NEW k \in 1 .. n, k - 1 \in P PROVE k \in P
  <2>1. PICK f \in [0 .. k - 1 -> T] : Is(k - 1, f)
    BY <1>2
  <2>2. PICK v \in T : v = step[k][f[k - 1]]
    <3>1. f[k - 1] \in T
      OBVIOUS
    <3>2. step[k] \in [T -> T]
      OBVIOUS
    <3>3. QED
      BY <3>1, <3>2
  <2>3. PICK g \in [0 .. k -> T] : g[k] = v /\ \A i \in 0 .. k - 1 : g[i] = f[i]
    <3> DEFINE h == [i \in 0 .. k |-> IF i = k THEN v ELSE f[i]]
    <3>1. h \in [0 .. k -> T]
      OBVIOUS
    <3>2. h[k] = v /\ \A i \in 0 .. k - 1 : h[i] = f[i]
      OBVIOUS
    <3> HIDE DEF h
    <3>3. QED
      BY <3>1, <3>2
  <2>4. g[0] = a
    BY <2>1, <2>3
  <2>5. ASSUME NEW i \in 1 .. k PROVE g[i] = step[i][g[i - 1]]
    <3>1. i - 1 \in 0 .. k - 1 /\ g[i - 1] = f[i - 1]
      BY <2>3
    <3>2. CASE i = k
      BY <2>2, <2>3, <3>1, <3>2
    <3>3. CASE i # k
      <4>1. i \in 1 .. k - 1 /\ i \in 0 .. k - 1
        BY <3>3
      <4>2. QED
        BY <2>1, <2>3, <3>1, <4>1
    <3>4. QED
      BY <3>2, <3>3
  <2>6. Is(k, g) /\ k \in 0 .. n
    BY <2>4, <2>5
  <2> HIDE DEF Is
  <2>7. QED
    BY <2>6
<1> HIDE DEF P
<1>3. n \in P
  <2>1. \A k \in 1 .. n : k - 1 \in P => k \in P
    BY <1>2
  <2>2. \A k \in 0 .. n : k \in P
    BY <1>1, <2>1, Induction
  <2>3. QED
    BY <2>2
<1>4. QED
  BY <1>3 DEF P, Goes

\* FlattenSeq puts one sequence after the other.
LEMMA Flattened ==
    ASSUME NEW T, NEW seqs \in Seq(Seq(T)), NEW n \in Nat, n = Len(seqs)
    PROVE  \E f \in [0 .. n -> Seq(T)] :
              /\ f[0] = <<>> /\ \A i \in 1 .. n : f[i] = f[i - 1] \o seqs[i]
              /\ FlattenSeq(seqs) = f[n]
<1>1. \A i \in 1 .. n : seqs[i] \in Seq(T)
  OBVIOUS
<1> DEFINE step == [i \in 1 .. n |-> [s \in Seq(T) |-> s \o seqs[i]]]
<1>2. step \in [1 .. n -> [Seq(T) -> Seq(T)]]
  <2>1. \A i \in 1 .. n, s \in Seq(T) : s \o seqs[i] \in Seq(T)
    BY <1>1
  <2>2. QED
    BY <2>1
<1>3. PICK f \in [0 .. n -> Seq(T)] : f[0] = <<>> /\ \A i \in 1 .. n : f[i] = f[i - 1] \o seqs[i]
  <2>1. PICK f : Goes(f, n, Seq(T), <<>>, step)
    <3>1. <<>> \in Seq(T)
      OBVIOUS
    <3> HIDE DEF step
    <3>2. QED
      BY <1>2, <3>1, Recursion
  <2> HIDE DEF step
  <2>2. f \in [0 .. n -> Seq(T)] /\ f[0] = <<>> /\ \A i \in 1 .. n : f[i] = step[i][f[i - 1]]
    BY <2>1 DEF Goes
  <2>3. ASSUME NEW i \in 1 .. n PROVE f[i] = f[i - 1] \o seqs[i]
    <3>1. i - 1 \in 0 .. n
      OBVIOUS
    <3>2. f[i - 1] \in Seq(T)
      BY <2>2, <3>1
    <3>3. step[i][f[i - 1]] = f[i - 1] \o seqs[i]
      BY <3>2 DEF step
    <3>4. QED
      BY <2>2, <3>3
  <2>4. QED
    BY <2>2, <2>3
<1> HIDE DEF step
<1>4. CASE n = 0
  <2>1. Len(seqs) = 0 /\ seqs = <<>>
    BY <1>4, EmptySeq
  <2>2. FlattenSeq(seqs) = <<>>
    BY <2>1, Zenon DEF FlattenSeq
  <2>3. f[n] = <<>>
    BY <1>3, <1>4
  <2>4. QED
    BY <1>3, <2>2, <2>3
<1>5. CASE n > 0
  <2> DEFINE Value(g, i) == IF i = 1 THEN seqs[i] ELSE g[i - 1] \o seqs[i]
             flatten == CHOOSE g : g = [i \in 1 .. n |-> Value(g, i)]
  <2>1. FlattenSeq(seqs) = flatten[n]
    <3>1. n # 0
      BY <1>5
    <3>2. QED
      BY <3>1 DEF FlattenSeq
  <2>2. \E g : g = [i \in 1 .. n |-> Value(g, i)]
    <3> DEFINE g == [i \in 1 .. n |-> f[i]]
    <3>1. ASSUME NEW i \in 1 .. n PROVE g[i] = Value(g, i)
      <4>1. CASE i = 1
        <5>1. 1 - 1 = 0 /\ 1 \in 1 .. n /\ seqs[1] \in Seq(T)
          BY <1>1, <4>1
        <5>2. f[1] = <<>> \o seqs[1]
          BY <1>3, <5>1
        <5>3. f[1] = seqs[1]
          BY <5>1, <5>2
        <5>4. g[i] = f[1]
          BY <4>1
        <5> HIDE DEF g
        <5>5. QED
          BY <4>1, <5>3, <5>4
      <4>2. CASE i # 1
        <5>1. i - 1 \in 1 .. n
          BY <4>2
        <5>2. g[i - 1] = f[i - 1] /\ g[i] = f[i]
          BY <5>1
        <5> HIDE DEF g
        <5>3. QED
          BY <1>3, <4>2, <5>2
      <4>3. QED
        BY <4>1, <4>2
    <3>2. g = [i \in 1 .. n |-> g[i]]
      OBVIOUS
    <3> HIDE DEF g
    <3>3. g = [i \in 1 .. n |-> Value(g, i)]
      <4> HIDE DEF Value
      <4>1. QED
        BY <3>1, <3>2
    <3>4. QED
      BY <3>3
  <2>3. flatten = [i \in 1 .. n |-> Value(flatten, i)]
    BY <2>2
  <2> HIDE DEF flatten
  <2>4. ASSUME NEW i \in 1 .. n PROVE flatten[i] = IF i = 1 THEN seqs[1] ELSE flatten[i - 1] \o seqs[i]
    <3>1. flatten[i] = Value(flatten, i)
      <4> HIDE DEF Value
      <4>1. QED
        BY <2>3
    <3>2. QED
      BY <3>1
  <2>5. \A k \in 0 .. n : k = 0 \/ flatten[k] = f[k]
    <3> DEFINE P == {k \in 0 .. n : k = 0 \/ flatten[k] = f[k]}
    <3>1. 0 \in P
      OBVIOUS
    <3>2. ASSUME NEW k \in 1 .. n, k - 1 \in P PROVE k \in P
      <4>1. k = 1 => flatten[k] = f[k]
        <5>1. f[1 - 1] \o seqs[1] = seqs[1]
          BY <1>1, <1>3, <1>5
        <5>2. 1 \in 1 .. n
          BY <1>5
        <5>3. QED
          BY <1>3, <2>4, <5>1, <5>2
      <4>2. k # 1 => flatten[k] = f[k]
        <5>1. k # 1 => flatten[k - 1] = f[k - 1]
          BY <3>2
        <5>2. f[k] = f[k - 1] \o seqs[k]
          BY <1>3
        <5>3. k # 1 => flatten[k] = flatten[k - 1] \o seqs[k]
          BY <2>4
        <5> HIDE DEF P
        <5>4. QED
          BY <5>1, <5>2, <5>3
      <4>3. QED
        BY <4>1, <4>2
    <3> HIDE DEF P
    <3>3. \A k \in 1 .. n : k - 1 \in P => k \in P
      BY <3>2
    <3>4. \A k \in 0 .. n : k \in P
      BY <3>1, <3>3, Induction
    <3>5. QED
      BY <3>4 DEF P
  <2>6. flatten[n] = f[n]
    BY <1>5, <2>5
  <2>7. QED
    BY <1>3, <2>1, <2>6
<1>6. QED
  <2>1. n = 0 \/ n > 0
    OBVIOUS
  <2>2. QED
    BY <1>4, <1>5, <2>1, Zenon

LEMMA FlattenType ==
    ASSUME NEW T, NEW seqs \in Seq(Seq(T))
    PROVE  FlattenSeq(seqs) \in Seq(T)
<1>1. PICK n \in Nat : n = Len(seqs)
  OBVIOUS
<1>2. \E f \in [0 .. n -> Seq(T)] :
              /\ f[0] = <<>> /\ \A i \in 1 .. n : f[i] = f[i - 1] \o seqs[i]
              /\ FlattenSeq(seqs) = f[n]
  BY <1>1, Flattened, Zenon
<1>3. QED
  BY <1>2


(***************************************************************************)
(* Types.                                                                  *)
(***************************************************************************)

LEMMA LeastOf ==
    ASSUME NEW S, S \subseteq Nat, S # {}
    PROVE  Min(S) \in S /\ \A y \in S : Min(S) <= y
<1>1. \E x \in S : \A y \in S : x <= y
  BY Least
<1>2. QED
  BY <1>1 DEF Min

\* Whatever the data, the settings read from it are settings.
LEMMA ParseType ==
    ASSUME NEW data \in Seq(Byte)
    PROVE  ParseUSRVCOM(data) \in ConfigType
<1> DEFINE starts == {i \in 1 .. Len(data) - USRVCOMPacketLen + 1 : HeaderAt(data, i)}
           packet == SubSeq(data, Min(starts), Min(starts) + USRVCOMPacketLen - 1)
<1>1. CASE starts = {}
  <2>1. ParseUSRVCOM(data) = NoConfig
    BY <1>1 DEF ParseUSRVCOM
  <2>2. QED
    BY <2>1 DEF NoConfig, ConfigType
<1>2. CASE starts # {}
  <2>1. PICK k \in 1 .. Len(data) - 7 : k = Min(starts)
    <3>1. starts \subseteq Nat /\ starts \subseteq 1 .. Len(data) - 7
      BY DEF USRVCOMPacketLen
    <3> HIDE DEF starts
    <3>2. Min(starts) \in starts
      BY <1>2, <3>1, LeastOf
    <3>3. QED
      BY <3>1, <3>2
  <2>2. PICK w \in Byte, x \in Byte, y \in Byte, z \in Byte :
          w = packet[4] /\ x = packet[5] /\ y = packet[6] /\ z = packet[7]
    <3>1. packet = SubSeq(data, k, k + 7)
      BY <2>1 DEF USRVCOMPacketLen
    <3>2. \A i \in 1 .. 8 : SubSeq(data, k, k + 7)[i] = data[k + i - 1] /\ data[k + i - 1] \in Byte
      OBVIOUS
    <3> HIDE DEF packet
    <3>3. \A i \in 1 .. 8 : packet[i] \in Byte
      BY <3>1, <3>2
    <3>4. packet[4] \in Byte /\ packet[5] \in Byte /\ packet[6] \in Byte /\ packet[7] \in Byte
      BY <3>3
    <3>5. QED
      BY <3>4
  <2>3. ParseUSRVCOM(data) =
          [BaudRate |-> w * Weight[2] + x * Weight[3] + y,
           DataBits |-> 5 + (z % 4),
           Parity |-> IF Bit(z, 8) = 1 THEN 1 + ((z \div 16) % 4) ELSE 0,
           StopBits |-> 1 + Bit(z, 4)]
    BY <1>2, <2>2, Zenon DEF ParseUSRVCOM
  <2>4. /\ w * Weight[2] + x * Weight[3] + y \in Nat
        /\ 5 + (z % 4) \in 0 .. 8
        /\ (IF Bit(z, 8) = 1 THEN 1 + ((z \div 16) % 4) ELSE 0) \in 0 .. 4
        /\ 1 + Bit(z, 4) \in 0 .. 2
    BY DEF Weight, Bit, Byte
  <2>5. QED
    BY <2>3, <2>4 DEF ConfigType
<1>3. QED
  BY <1>1, <1>2

LEMMA BigEndianType ==
    ASSUME NEW n \in Nat, NEW width \in 1 .. 4
    PROVE  BigEndian(n, width) \in Seq(Byte) /\ Len(BigEndian(n, width)) = width
<1>1. \A i \in 1 .. width : Weight[4 - width + i] \in Nat \ {0}
  BY DEF Weight
<1>2. ASSUME NEW w \in Nat \ {0} PROVE (n \div w) % 256 \in Byte
  BY DEF Byte
<1>3. \A i \in 1 .. width : (n \div Weight[4 - width + i]) % 256 \in Byte
  BY <1>1, <1>2
<1>4. QED
  BY <1>3 DEF BigEndian

\* The packet of settings for the device is made of bytes.
LEMMA BuildType ==
    ASSUME NEW c \in ConfigType
    PROVE  BuildRFC2217Packet(c) \in Seq(Byte)
<1>1. /\ BigEndian(c.BaudRate, 4) \in Seq(Byte)
      /\ <<c.DataBits>> \in Seq(Byte) /\ <<c.Parity + 1>> \in Seq(Byte)
      /\ <<c.StopBits>> \in Seq(Byte)
  <2>1. c.BaudRate \in Nat /\ 4 \in 1 .. 4
    BY DEF ConfigType
  <2>2. c.DataBits \in Byte /\ c.Parity + 1 \in Byte /\ c.StopBits \in Byte
    BY DEF ConfigType, Byte
  <2>3. BigEndian(c.BaudRate, 4) \in Seq(Byte)
    BY <2>1, BigEndianType
  <2>4. QED
    BY <2>2, <2>3
<1>2. ASSUME NEW n \in 1 .. 4, NEW d \in Seq(Byte)
      PROVE  Subnegotiation([Command |-> n, Data |-> d]) \in Seq(Byte)
  <2>1. <<IAC, SB, ComPortOption, n>> \in Seq(Byte) /\ <<IAC, SE>> \in Seq(Byte)
    BY DEF IAC, SB, SE, ComPortOption, Byte
  <2>2. QED
    BY <2>1 DEF Subnegotiation
<1> DEFINE commands == ToRFC2217Commands(c)
           parts == [i \in 1 .. Len(commands) |-> Subnegotiation(commands[i])]
<1>3. Len(commands) = 4
  BY DEF ToRFC2217Commands
<1>4. ASSUME NEW i \in 1 .. 4 PROVE Subnegotiation(commands[i]) \in Seq(Byte)
  <2>1. PICK d \in Seq(Byte), n \in 1 .. 4 : commands[i] = [Command |-> n, Data |-> d]
    <3>1. /\ commands[1] = [Command |-> 1, Data |-> BigEndian(c.BaudRate, 4)]
          /\ commands[2] = [Command |-> 2, Data |-> <<c.DataBits>>]
          /\ commands[3] = [Command |-> 3, Data |-> <<c.Parity + 1>>]
          /\ commands[4] = [Command |-> 4, Data |-> <<c.StopBits>>]
      BY DEF ToRFC2217Commands, SetBaudrate, SetDatasize, SetParity, SetStopsize
    <3>2. i = 1 \/ i = 2 \/ i = 3 \/ i = 4
      OBVIOUS
    <3> HIDE DEF commands
    <3>3. QED
      BY <1>1, <3>1, <3>2
  <2>2. QED
    BY <1>2, <2>1
<1>5. parts \in Seq(Seq(Byte))
  <2> HIDE DEF commands
  <2>1. QED
    BY <1>3, <1>4
<1>6. FlattenSeq(parts) \in Seq(Byte)
  <2> HIDE DEF parts
  <2>1. QED
    BY <1>5, FlattenType
<1>7. QED
  BY <1>6 DEF BuildRFC2217Packet


(***************************************************************************)
(* A telnet peer's reading of a packet.                                    *)
(***************************************************************************)

TelnetPeer == [at : {"data", "iac", "sub", "subIac"}, arg : Seq(Byte), got : Seq(Seq(Byte))]

TelnetStart == [at |-> "data", arg |-> <<>>, got |-> <<>>]

LEMMA TelnetType ==
    ASSUME NEW s \in TelnetPeer, NEW b \in Byte
    PROVE  TelnetStep(s, b) \in TelnetPeer
<1>1. <<>> \in Seq(Byte) /\ Append(s.arg, b) \in Seq(Byte) /\ Append(s.got, s.arg) \in Seq(Seq(Byte))
  BY DEF TelnetPeer
<1>2. QED
  BY <1>1 DEF TelnetStep, TelnetPeer

\* The states of a telnet peer that reads data.
Telnet(st, data) ==
    /\ st \in [0 .. Len(data) -> TelnetPeer]
    /\ st[0] = TelnetStart
    /\ \A n \in 1 .. Len(data) : st[n] = TelnetStep(st[n - 1], data[n])

LEMMA TelnetRuns ==
    ASSUME NEW data \in Seq(Byte)
    PROVE  \E st : Telnet(st, data) /\ TelnetReads(data) = st[Len(data)].got
<1>1. PICK N \in Nat : N = Len(data)
  OBVIOUS
<1>2. TelnetStart \in TelnetPeer
  BY EmptySeq DEF TelnetStart, TelnetPeer
<1> DEFINE step == [n \in 1 .. N |-> [s \in TelnetPeer |-> TelnetStep(s, data[n])]]
<1>3. step \in [1 .. N -> [TelnetPeer -> TelnetPeer]]
  <2>1. \A n \in 1 .. N, s \in TelnetPeer : TelnetStep(s, data[n]) \in TelnetPeer
    BY <1>1, TelnetType
  <2>2. QED
    BY <2>1
<1>4. PICK f : Goes(f, N, TelnetPeer, TelnetStart, step)
  <2> HIDE DEF step
  <2>1. QED
    BY <1>2, <1>3, Recursion
<1>5. f \in [0 .. N -> TelnetPeer] /\ f[0] = TelnetStart
  BY <1>4 DEF Goes
<1>6. ASSUME NEW n \in 1 .. N PROVE f[n] = TelnetStep(f[n - 1], data[n])
  <2>1. f[n] = step[n][f[n - 1]]
    BY <1>4 DEF Goes
  <2>2. f[n - 1] \in TelnetPeer
    <3>1. n - 1 \in 0 .. N
      OBVIOUS
    <3>2. QED
      BY <1>5, <3>1
  <2>3. QED
    BY <2>1, <2>2
<1> HIDE DEF step
<1> DEFINE Value(g, n) == IF n = 0 THEN TelnetStart ELSE TelnetStep(g[n - 1], data[n])
           state == CHOOSE g : g = [n \in 0 .. N |-> Value(g, n)]
<1>7. f = [n \in 0 .. N |-> Value(f, n)]
  <2>1. ASSUME NEW n \in 0 .. N PROVE f[n] = Value(f, n)
    BY <1>5, <1>6
  <2>2. f = [n \in 0 .. N |-> f[n]]
    BY <1>5
  <2> HIDE DEF Value
  <2>3. QED
    BY <2>1, <2>2
<1>8. state = [n \in 0 .. N |-> Value(state, n)]
  <2> HIDE DEF Value
  <2>1. QED
    BY <1>7
<1>9. TelnetReads(data) = state[N].got
  BY <1>1 DEF TelnetReads, TelnetStart
<1> HIDE DEF state
<1>10. \A n \in 0 .. N : state[n] = Value(state, n)
  <2> HIDE DEF Value
  <2>1. QED
    BY <1>8
<1>11. \A n \in 0 .. N : n \in {k \in 0 .. N : state[k] = f[k]}
  <2> DEFINE P == {k \in 0 .. N : state[k] = f[k]}
  <2>1. 0 \in P
    BY <1>5, <1>10
  <2>2. ASSUME NEW k \in 1 .. N, k - 1 \in P PROVE k \in P
    <3>1. state[k] = TelnetStep(state[k - 1], data[k])
      BY <1>10
    <3>2. state[k - 1] = f[k - 1]
      BY <2>2
    <3> HIDE DEF Value
    <3>3. QED
      BY <1>6, <3>1, <3>2
  <2> HIDE DEF P
  <2>3. \A k \in 1 .. N : k - 1 \in P => k \in P
    BY <2>2
  <2>4. \A k \in 0 .. N : k \in P
    BY <2>1, <2>3, Induction
  <2>5. QED
    BY <2>4 DEF P
<1>12. state[N] = f[N]
  BY <1>11
<1>13. Telnet(f, data)
  BY <1>1, <1>5, <1>6 DEF Telnet
<1>14. QED
  BY <1>1, <1>9, <1>12, <1>13

\* data has part behind its first k bytes.
Holds(data, k, part) ==
    k + Len(part) <= Len(data) /\ \A i \in 1 .. Len(part) : data[k + i] = part[i]

CommandOf(n, d) == [Command |-> n, Data |-> d]

\* data has that command, with m bytes of data, behind its first k bytes.
HasCommand(data, k, n, d, m) ==
    /\ k + m + 6 <= Len(data)
    /\ data[k + 1] = 255 /\ data[k + 2] = 250 /\ data[k + 3] = 44 /\ data[k + 4] = n
    /\ \A i \in 1 .. m : data[k + 4 + i] = d[i]
    /\ data[k + m + 5] = 255 /\ data[k + m + 6] = 240

LEMMA CommandBytes ==
    ASSUME NEW data \in Seq(Byte), NEW k \in Nat, NEW n \in Byte, NEW d \in Seq(Byte),
           NEW m \in Nat, m = Len(d), Holds(data, k, Subnegotiation(CommandOf(n, d)))
    PROVE  HasCommand(data, k, n, d, m)
<1>1. PICK N \in Nat : N = Len(data)
  OBVIOUS
<1>2. PICK s \in Seq(Byte) : s = Subnegotiation(CommandOf(n, d))
  <2>1. <<255, 250, 44, n>> \in Seq(Byte) /\ <<255, 240>> \in Seq(Byte)
    BY DEF Byte
  <2>2. <<255, 250, 44, n>> \o d \o <<255, 240>> \in Seq(Byte)
    BY <2>1
  <2>3. Subnegotiation(CommandOf(n, d)) = <<255, 250, 44, n>> \o d \o <<255, 240>>
    BY DEF Subnegotiation, CommandOf, IAC, SB, SE, ComPortOption
  <2>4. QED
    BY <2>2, <2>3
<1>3. /\ Len(s) = m + 6
      /\ s[1] = 255 /\ s[2] = 250 /\ s[3] = 44 /\ s[4] = n
      /\ \A i \in 1 .. m : s[4 + i] = d[i]
      /\ s[m + 5] = 255 /\ s[m + 6] = 240
  BY <1>2 DEF Subnegotiation, CommandOf, IAC, SB, SE, ComPortOption
<1>4. k + (m + 6) <= N /\ \A i \in 1 .. m + 6 : data[k + i] = s[i]
  BY <1>1, <1>2, <1>3 DEF Holds
<1>5. /\ 1 \in 1 .. m + 6 /\ 2 \in 1 .. m + 6 /\ 3 \in 1 .. m + 6 /\ 4 \in 1 .. m + 6
      /\ m + 5 \in 1 .. m + 6 /\ m + 6 \in 1 .. m + 6
  OBVIOUS
<1>6. /\ data[k + 1] = 255 /\ data[k + 2] = 250 /\ data[k + 3] = 44 /\ data[k + 4] = n
      /\ data[k + (m + 5)] = 255 /\ data[k + (m + 6)] = 240
  BY <1>3, <1>4, <1>5
<1>7. ASSUME NEW i \in 1 .. m PROVE data[k + 4 + i] = d[i]
  <2>1. 4 + i \in 1 .. m + 6 /\ k + (4 + i) = k + 4 + i
    OBVIOUS
  <2>2. data[k + (4 + i)] = s[4 + i]
    BY <1>4, <2>1
  <2>3. QED
    BY <1>3, <2>1, <2>2
<1>8. k + (m + 5) = k + m + 5 /\ k + (m + 6) = k + m + 6
  OBVIOUS
<1>9. QED
  BY <1>1, <1>4, <1>6, <1>7, <1>8 DEF HasCommand


TelnetState(at, arg, got) == [at |-> at, arg |-> arg, got |-> got]

\* How a telnet peer takes its bytes.
LEMMA TelnetByte ==
    ASSUME NEW arg, NEW got
    PROVE  /\ TelnetStep(TelnetState("data", arg, got), 255) = TelnetState("iac", arg, got)
           /\ TelnetStep(TelnetState("iac", arg, got), 250) = TelnetState("sub", <<>>, got)
           /\ TelnetStep(TelnetState("sub", arg, got), 255) = TelnetState("subIac", arg, got)
           /\ TelnetStep(TelnetState("subIac", arg, got), 240) = TelnetState("data", arg, Append(got, arg))
<1>1. TelnetStep(TelnetState("data", arg, got), 255) = TelnetState("iac", arg, got)
  BY DEF TelnetStep, TelnetState, IAC
<1>2. TelnetStep(TelnetState("iac", arg, got), 250) = TelnetState("sub", <<>>, got)
  BY DEF TelnetStep, TelnetState, SB
<1>3. TelnetStep(TelnetState("sub", arg, got), 255) = TelnetState("subIac", arg, got)
  BY DEF TelnetStep, TelnetState, IAC
<1>4. TelnetStep(TelnetState("subIac", arg, got), 240) = TelnetState("data", arg, Append(got, arg))
  <2>1. PICK s : s = TelnetState("subIac", arg, got)
    OBVIOUS
  <2>2. s.at = "subIac" /\ s.arg = arg /\ s.got = got
    BY <2>1 DEF TelnetState
  <2>3. TelnetStep(s, 240) = [s EXCEPT !.at = "data", !.got = Append(@, s.arg)]
    BY <2>2 DEF TelnetStep, IAC, SE
  <2>4. QED
    BY <2>1, <2>3 DEF TelnetState
<1>5. QED
  BY <1>1, <1>2, <1>3, <1>4

LEMMA AppendOne ==
    ASSUME NEW T, NEW a \in T, NEW b \in T
    PROVE  Append(<<a>>, b) = <<a, b>>
<1>1. PICK s \in Seq(T) : s = Append(<<a>>, b)
  <2>1. <<a>> \in Seq(T)
    OBVIOUS
  <2>2. QED
    BY <2>1, AppendProperties
<1>2. Len(s) = 2 /\ s[1] = a /\ s[2] = b
  BY <1>1
<1>3. PICK t \in Seq(T) : t = <<a, b>>
  <2>1. <<a, b>> \in Seq(T)
    OBVIOUS
  <2>2. QED
    BY <2>1, Zenon
<1>4. Len(t) = 2 /\ t[1] = a /\ t[2] = b
  BY <1>3
<1>5. s = t
  <2>1. Len(s) = Len(t) /\ \A i \in 1 .. Len(s) : s[i] = t[i]
    BY <1>2, <1>4
  <2>2. QED
    BY <2>1, SeqEqual
<1>6. QED
  BY <1>1, <1>3, <1>5

LEMMA TelnetDatum ==
    ASSUME NEW arg, NEW got, NEW b, b # 255
    PROVE  TelnetStep(TelnetState("sub", arg, got), b) = TelnetState("sub", Append(arg, b), got)
  BY DEF TelnetStep, TelnetState, IAC

\* The telnet peer receives such a command as it is.
LEMMA TelnetCommand ==
    ASSUME NEW data \in Seq(Byte), NEW st, Telnet(st, data),
           NEW k \in Nat, NEW n \in Byte \ {255}, NEW d \in Seq(Byte \ {255}),
           NEW m \in Nat, m = Len(d),
           HasCommand(data, k, n, d, m),
           NEW arg, NEW got, st[k] = TelnetState("data", arg, got)
    PROVE  st[k + m + 6] = TelnetState("data", <<44, n>> \o d, Append(got, <<44, n>> \o d))
<1>1. PICK N \in Nat : N = Len(data)
  OBVIOUS
<1>2. d \in Seq(Byte) /\ n \in Byte /\ n # 255 /\ 44 \in Byte /\ 44 # 255
  BY DEF Byte
<1>3. /\ k + m + 6 <= N
      /\ data[k + 1] = 255 /\ data[k + 2] = 250 /\ data[k + 3] = 44 /\ data[k + 4] = n
      /\ \A i \in 1 .. m : data[k + 4 + i] = d[i]
      /\ data[k + m + 5] = 255 /\ data[k + m + 6] = 240
  BY <1>1 DEF HasCommand
<1>4. \A i \in 1 .. N : st[i] = TelnetStep(st[i - 1], data[i])
  BY <1>1 DEF Telnet
<1>5. ASSUME NEW i \in Nat, NEW j \in Nat, j = i + 1, k <= i, i < k + m + 6
      PROVE  st[j] = TelnetStep(st[i], data[j])
  <2>1. j \in 1 .. N /\ j - 1 = i
    BY <1>3, <1>5
  <2>2. QED
    BY <1>4, <2>1
<1>6. st[k + 1] = TelnetState("iac", arg, got)
  <2>1. st[k + 1] = TelnetStep(st[k], 255)
    <3>1. k \in Nat /\ k + 1 \in Nat /\ k + 1 = k + 1 /\ k <= k /\ k < k + m + 6
      OBVIOUS
    <3>2. st[k + 1] = TelnetStep(st[k], data[k + 1])
      BY <3>1, <1>5
    <3>3. data[k + 1] = 255
      BY <1>3
    <3>4. QED
      BY <3>2, <3>3
  <2>2. TelnetStep(TelnetState("data", arg, got), 255) = TelnetState("iac", arg, got)
    BY TelnetByte
  <2>3. QED
    BY <2>1, <2>2
<1>7. st[k + 2] = TelnetState("sub", <<>>, got)
  <2>1. st[k + 2] = TelnetStep(st[k + 1], 250)
    <3>1. k + 1 \in Nat /\ k + 2 \in Nat /\ k + 2 = k + 1 + 1 /\ k <= k + 1 /\ k + 1 < k + m + 6
      OBVIOUS
    <3>2. st[k + 2] = TelnetStep(st[k + 1], data[k + 2])
      BY <3>1, <1>5
    <3>3. data[k + 2] = 250
      BY <1>3
    <3>4. QED
      BY <3>2, <3>3
  <2>2. TelnetStep(TelnetState("iac", arg, got), 250) = TelnetState("sub", <<>>, got)
    BY TelnetByte
  <2>3. QED
    BY <1>6, <2>1, <2>2
<1>8. st[k + 3] = TelnetState("sub", <<44>>, got)
  <2>1. st[k + 3] = TelnetStep(st[k + 2], 44)
    <3>1. k + 2 \in Nat /\ k + 3 \in Nat /\ k + 3 = k + 2 + 1 /\ k <= k + 2 /\ k + 2 < k + m + 6
      OBVIOUS
    <3>2. st[k + 3] = TelnetStep(st[k + 2], data[k + 3])
      BY <3>1, <1>5
    <3>3. data[k + 3] = 44
      BY <1>3
    <3>4. QED
      BY <3>2, <3>3
  <2>2. TelnetStep(TelnetState("sub", <<>>, got), 44) = TelnetState("sub", Append(<<>>, 44), got)
    <3>1. PICK e : e = <<>>
      OBVIOUS
    <3>2. PICK c \in Byte : c = 44 /\ c # 255
      BY <1>2
    <3>3. TelnetStep(TelnetState("sub", e, got), c) = TelnetState("sub", Append(e, c), got)
      BY <3>2, TelnetDatum
    <3>4. QED
      BY <3>1, <3>2, <3>3, Zenon
  <2>3. Append(<<>>, 44) = <<44>>
    OBVIOUS
  <2>4. QED
    BY <1>7, <2>1, <2>2, <2>3
<1>9. st[k + 4] = TelnetState("sub", <<44, n>>, got)
  <2>1. st[k + 4] = TelnetStep(st[k + 3], n)
    <3>1. k + 3 \in Nat /\ k + 4 \in Nat /\ k + 4 = k + 3 + 1 /\ k <= k + 3 /\ k + 3 < k + m + 6
      OBVIOUS
    <3>2. st[k + 4] = TelnetStep(st[k + 3], data[k + 4])
      BY <3>1, <1>5
    <3>3. data[k + 4] = n
      BY <1>3
    <3>4. QED
      BY <3>2, <3>3
  <2>2. TelnetStep(TelnetState("sub", <<44>>, got), n) = TelnetState("sub", Append(<<44>>, n), got)
    BY <1>2, TelnetDatum
  <2>3. Append(<<44>>, n) = <<44, n>>
    <3>1. PICK c \in Byte : c = 44
      BY <1>2
    <3>2. Append(<<c>>, n) = <<c, n>>
      BY <1>2, AppendOne
    <3>3. QED
      BY <3>1, <3>2, Zenon
  <2>4. QED
    BY <1>8, <2>1, <2>2, <2>3
<1> DEFINE Arg(i) == <<44, n>> \o SubSeq(d, 1, i)
           P == {i \in 0 .. m : st[k + 4 + i] = TelnetState("sub", Arg(i), got)}
<1>10. 0 \in P
  <2>1. k + 4 + 0 = k + 4
    OBVIOUS
  <2>2. Arg(0) = <<44, n>>
    <3>1. SubSeq(d, 1, 0) = <<>>
      OBVIOUS
    <3>2. <<44, n>> \o <<>> = <<44, n>>
      OBVIOUS
    <3>3. QED
      BY <3>1, <3>2
  <2>3. 0 \in 0 .. m
    OBVIOUS
  <2> HIDE DEF Arg
  <2>4. QED
    BY <1>9, <2>1, <2>2, <2>3
<1>11. ASSUME NEW i \in 1 .. m, i - 1 \in P PROVE i \in P
  <2>1. k + 4 + (i - 1) \in Nat /\ k + 4 + i \in Nat /\ k + 4 + i = k + 4 + (i - 1) + 1
    OBVIOUS
  <2>2. st[k + 4 + i] = TelnetStep(st[k + 4 + (i - 1)], d[i])
    BY <1>3, <1>5, <2>1
  <2>3. d[i] # 255 /\ d[i] \in Byte
    OBVIOUS
  <2>4. Append(Arg(i - 1), d[i]) = Arg(i)
    <3>1. Append(SubSeq(d, 1, i - 1), d[i]) = SubSeq(d, 1, i)
      OBVIOUS
    <3>2. SubSeq(d, 1, i - 1) \in Seq(Byte) /\ <<44, n>> \in Seq(Byte)
      BY <1>2
    <3>3. Append(<<44, n>> \o SubSeq(d, 1, i - 1), d[i]) = <<44, n>> \o Append(SubSeq(d, 1, i - 1), d[i])
      BY <2>3, <3>2
    <3>4. QED
      BY <3>1, <3>3
  <2>5. st[k + 4 + (i - 1)] = TelnetState("sub", Arg(i - 1), got)
    BY <1>11
  <2>6. i \in 0 .. m
    OBVIOUS
  <2> HIDE DEF Arg
  <2>7. st[k + 4 + i] = TelnetState("sub", Append(Arg(i - 1), d[i]), got)
    BY <2>2, <2>3, <2>5, TelnetDatum, Zenon
  <2>8. QED
    BY <2>4, <2>6, <2>7
<1>12. m \in P
  <2> HIDE DEF P
  <2>1. \A i \in 1 .. m : i - 1 \in P => i \in P
    BY <1>11
  <2>2. \A i \in 0 .. m : i \in P
    BY <1>10, <2>1, Induction
  <2>3. QED
    BY <2>2
<1>13. st[k + 4 + m] = TelnetState("sub", <<44, n>> \o d, got)
  <2>1. SubSeq(d, 1, m) = d
    OBVIOUS
  <2>2. QED
    BY <1>12, <2>1
<1> HIDE DEF P, Arg
<1>14. st[k + m + 5] = TelnetState("subIac", <<44, n>> \o d, got)
  <2>1. k + 4 + m \in Nat /\ k + m + 5 \in Nat /\ k + m + 5 = k + 4 + m + 1
    OBVIOUS
  <2>2. st[k + m + 5] = TelnetStep(st[k + 4 + m], data[k + m + 5])
    BY <1>5, <2>1
  <2>3. QED
    <3>1. TelnetStep(TelnetState("sub", <<44, n>> \o d, got), 255) = TelnetState("subIac", <<44, n>> \o d, got)
      BY TelnetByte
    <3>2. QED
      BY <1>3, <1>13, <2>2, <3>1
<1>15. QED
  <2>1. k + m + 5 \in Nat /\ k + m + 6 \in Nat /\ k + m + 6 = k + m + 5 + 1
    OBVIOUS
  <2>2. st[k + m + 6] = TelnetStep(st[k + m + 5], 240)
    BY <1>3, <1>5, <2>1
  <2>3. QED
    <3>1. TelnetStep(TelnetState("subIac", <<44, n>> \o d, got), 240)
            = TelnetState("data", <<44, n>> \o d, Append(got, <<44, n>> \o d))
      BY TelnetByte
    <3>2. QED
      BY <1>14, <2>2, <3>1

(***************************************************************************)
(* The proxy's own reading of a packet.                                    *)
(***************************************************************************)

LEMMA CommandEndOf ==
    ASSUME NEW data \in Seq(Byte), NEW i \in Nat
    PROVE  /\ CommandEnd(data, i) \in Nat
           /\ CommandAt(data, i) => CommandEnd(data, i) \in i + 4 .. Len(data)
<1> DEFINE ends == {j \in i + 3 .. Len(data) - 1 : data[j] = IAC /\ data[j + 1] = SE} \cup {Len(data) + 1}
<1>1. ends \subseteq Nat /\ ends # {}
  OBVIOUS
<1>2. CommandEnd(data, i) = Min(ends)
  BY DEF CommandEnd
<1> HIDE DEF ends
<1>3. Min(ends) \in ends
  BY <1>1, LeastOf
<1>4. QED
  BY <1>1, <1>2, <1>3 DEF CommandAt

\* What is read from byte i on, given what is read behind it.
ReadsFrom(data, f, i) ==
    IF i > Len(data) - 2 THEN <<>>
    ELSE IF CommandAt(data, i)
    THEN <<[Command |-> data[i + 3], Data |-> SubSeq(data, i + 4, CommandEnd(data, i) - 1)]>>
             \o f[CommandEnd(data, i) + 2]
    ELSE f[i + 1]

LEMMA CommandsRead ==
    ASSUME NEW data \in Seq(Byte)
    PROVE  \E f : /\ \A i \in 1 .. Len(data) + 2 : f[i] = ReadsFrom(data, f, i)
                  /\ ParseRFC2217Commands(data) = f[1]
<1>1. PICK N \in Nat : N = Len(data)
  OBVIOUS
<1> DEFINE Is(k, f) == \A i \in N + 2 - k .. N + 2 : f[i] = ReadsFrom(data, f, i)
           P == {k \in 0 .. N + 1 : \E f : f = [i \in N + 2 - k .. N + 2 |-> f[i]] /\ Is(k, f)}
<1>2. 0 \in P
  <2>1. PICK f : f = [i \in N + 2 - 0 .. N + 2 |-> <<>>]
    OBVIOUS
  <2>2. ASSUME NEW i \in N + 2 - 0 .. N + 2 PROVE f[i] = ReadsFrom(data, f, i)
    <3>1. f[i] = <<>> /\ i > Len(data) - 2
      BY <1>1, <2>1
    <3>2. QED
      BY <3>1 DEF ReadsFrom
  <2>3. f = [i \in N + 2 - 0 .. N + 2 |-> f[i]]
    BY <2>1
  <2>4. 0 \in 0 .. N + 1
    OBVIOUS
  <2>5. QED
    BY <2>2, <2>3, <2>4
<1>3. ASSUME NEW k \in 1 .. N + 1, k - 1 \in P PROVE k \in P
  <2>1. PICK f : f = [i \in N + 2 - (k - 1) .. N + 2 |-> f[i]] /\ Is(k - 1, f)
    BY <1>3
  <2>2. PICK m \in Nat : m = N + 2 - k /\ m \in 1 .. N + 1 /\ N + 2 - (k - 1) = m + 1
    OBVIOUS
  <2>3. PICK v : v = ReadsFrom(data, f, m)
    OBVIOUS
  <2>4. PICK g : g = [i \in m .. N + 2 |-> IF i = m THEN v ELSE f[i]]
    OBVIOUS
  <2>5. g = [i \in m .. N + 2 |-> g[i]] /\ g[m] = v /\ \A i \in m + 1 .. N + 2 : g[i] = f[i]
    BY <2>2, <2>4
  <2>6. ASSUME NEW i \in m .. N + 2 PROVE ReadsFrom(data, g, i) = ReadsFrom(data, f, i)
    <3>1. CASE i > Len(data) - 2
      BY <3>1 DEF ReadsFrom
    <3>2. CASE ~(i > Len(data) - 2)
      <4>1. i + 1 \in m + 1 .. N + 2
        BY <1>1, <2>2, <3>2
      <4>2. g[i + 1] = f[i + 1]
        BY <2>5, <4>1
      <4>3. PICK e \in Nat : e = CommandEnd(data, i)
        BY <2>2, CommandEndOf
      <4>4. CommandAt(data, i) => e \in i + 4 .. N
        BY <1>1, <2>2, <4>3, CommandEndOf
      <4>5. CommandAt(data, i) => e + 2 \in m + 1 .. N + 2
        BY <2>2, <4>4
      <4>6. CommandAt(data, i) => g[e + 2] = f[e + 2]
        BY <2>5, <4>5
      <4>7. QED
        BY <3>2, <4>2, <4>3, <4>6 DEF ReadsFrom
    <3>3. QED
      BY <3>1, <3>2
  <2>7. ASSUME NEW i \in m .. N + 2 PROVE g[i] = ReadsFrom(data, g, i)
    <3>1. CASE i = m
      BY <2>3, <2>5, <2>6, <3>1
    <3>2. CASE i # m
      <4>1. i \in m + 1 .. N + 2
        BY <3>2
      <4>2. g[i] = f[i] /\ f[i] = ReadsFrom(data, f, i)
        BY <2>1, <2>2, <2>5, <4>1
      <4>3. QED
        BY <2>6, <4>2
    <3>3. QED
      BY <3>1, <3>2
  <2>8. g = [i \in N + 2 - k .. N + 2 |-> g[i]] /\ Is(k, g)
    BY <2>2, <2>5, <2>7
  <2> HIDE DEF Is
  <2>9. QED
    BY <2>8
<1>4. PICK f : f = [i \in 1 .. N + 2 |-> f[i]] /\ \A i \in 1 .. N + 2 : f[i] = ReadsFrom(data, f, i)
  <2>1. N + 1 \in P
    <3> HIDE DEF P
    <3>1. \A k \in 1 .. N + 1 : k - 1 \in P => k \in P
      BY <1>3
    <3>2. N + 1 \in Nat /\ N + 1 \in 0 .. N + 1
      OBVIOUS
    <3>3. \A k \in 0 .. N + 1 : k \in P
      BY <1>2, <3>1, <3>2, Induction
    <3>4. QED
      BY <3>2, <3>3
  <2>2. N + 2 - (N + 1) = 1
    OBVIOUS
  <2>3. QED
    BY <2>1, <2>2
<1> DEFINE from == CHOOSE g : g = [i \in 1 .. N + 2 |-> ReadsFrom(data, g, i)]
<1>5. ParseRFC2217Commands(data) = from[1]
  BY <1>1 DEF ParseRFC2217Commands, ReadsFrom
<1>6. f = [i \in 1 .. N + 2 |-> ReadsFrom(data, f, i)]
  BY <1>4
<1>7. from = [i \in 1 .. N + 2 |-> ReadsFrom(data, from, i)]
  BY <1>6
<1> HIDE DEF from
<1>8. \A i \in 1 .. N + 2 : from[i] = ReadsFrom(data, from, i)
  BY <1>7
<1>9. QED
  BY <1>1, <1>5, <1>8


\* The proxy finds that command behind the first k bytes.
Finds(data, k, n, d, m) ==
    /\ ~(k + 1 > Len(data) - 2) /\ CommandAt(data, k + 1)
    /\ data[k + 1 + 3] = n
    /\ SubSeq(data, k + 1 + 4, CommandEnd(data, k + 1) - 1) = d
    /\ CommandEnd(data, k + 1) + 2 = k + m + 7

LEMMA FoundCommand ==
    ASSUME NEW data \in Seq(Byte), NEW k \in Nat, NEW n \in Byte \ {255},
           NEW d \in Seq(Byte \ {255}), NEW m \in Nat, m = Len(d), HasCommand(data, k, n, d, m)
    PROVE  Finds(data, k, n, d, m)
<1>1. PICK N \in Nat : N = Len(data)
  OBVIOUS
<1>2. /\ k + m + 6 <= N
      /\ data[k + 1] = 255 /\ data[k + 2] = 250 /\ data[k + 3] = 44 /\ data[k + 4] = n
      /\ \A i \in 1 .. m : data[k + 4 + i] = d[i]
      /\ data[k + m + 5] = 255 /\ data[k + m + 6] = 240
  BY <1>1 DEF HasCommand
<1>3. SubSeq(data, k + 1, k + 1 + 2) = <<IAC, SB, ComPortOption>>
  <2>1. PICK a \in 1 .. N, b \in 1 .. N : a = k + 1 /\ b = k + 3
    BY <1>2
  <2>2. PICK s \in Seq(Byte) : s = SubSeq(data, a, b)
    <3>1. SubSeq(data, a, b) \in Seq(Byte)
      BY <1>1
    <3>2. QED
      BY <3>1, Zenon
  <2>3. Len(s) = 3 /\ s[1] = 255 /\ s[2] = 250 /\ s[3] = 44
    <3>1. b - a + 1 = 3 /\ a + 1 - 1 = k + 1 /\ a + 2 - 1 = k + 2 /\ a + 3 - 1 = k + 3
      BY <2>1
    <3>2. Len(s) = 3 /\ \A i \in 1 .. 3 : s[i] = data[a + i - 1]
      <4>1. a <= b /\ a \in 1 .. Len(data) /\ b \in 1 .. Len(data)
        BY <1>1, <2>1
      <4>2. Len(s) = b - a + 1 /\ \A i \in 1 .. b - a + 1 : s[i] = data[a + i - 1]
        BY <2>2, <4>1
      <4>3. QED
        BY <3>1, <4>2
    <3>3. s[1] = data[a + 1 - 1] /\ s[2] = data[a + 2 - 1] /\ s[3] = data[a + 3 - 1]
      BY <3>2
    <3>4. QED
      BY <1>2, <3>1, <3>2, <3>3
  <2>4. PICK t \in Seq(Byte) : t = <<255, 250, 44>>
    <3>1. <<255, 250, 44>> \in Seq(Byte)
      BY DEF Byte
    <3>2. QED
      BY <3>1
  <2>5. Len(t) = 3 /\ t[1] = 255 /\ t[2] = 250 /\ t[3] = 44
    BY <2>4
  <2>6. s = t
    <3>1. Len(s) = Len(t) /\ \A i \in 1 .. Len(s) : s[i] = t[i]
      BY <2>3, <2>5
    <3>2. QED
      BY <3>1, SeqEqual
  <2>7. k + 1 + 2 = k + 3
    OBVIOUS
  <2>8. QED
    BY <2>1, <2>2, <2>4, <2>6, <2>7 DEF IAC, SB, ComPortOption
<1>4. PICK e \in Nat : e = k + m + 5
  OBVIOUS
<1>5. CommandEnd(data, k + 1) = e
  <2> DEFINE ends == {j \in k + 1 + 3 .. Len(data) - 1 : data[j] = IAC /\ data[j + 1] = SE} \cup {Len(data) + 1}
  <2>1. ends \subseteq Nat /\ ends # {}
    OBVIOUS
  <2>2. e \in ends
    <3>1. e \in k + 1 + 3 .. N - 1 /\ e + 1 = k + m + 6
      BY <1>2, <1>4
    <3>2. QED
      BY <1>1, <1>2, <1>4, <3>1 DEF IAC, SE
  <2>3. ASSUME NEW j \in ends, j < e PROVE FALSE
    <3>1. j \in k + 4 .. k + m + 4 /\ data[j] = 255
      BY <1>1, <1>2, <1>4, <2>3 DEF IAC
    <3>2. CASE j = k + 4
      BY <1>2, <3>1, <3>2
    <3>3. CASE j # k + 4
      <4>1. PICK i \in 1 .. m : j = k + 4 + i
        <5>1. j - (k + 4) \in 1 .. m /\ j = k + 4 + (j - (k + 4))
          BY <3>1, <3>3
        <5>2. QED
          BY <5>1
      <4>2. data[j] = d[i] /\ d[i] # 255
        BY <1>2, <4>1
      <4>3. QED
        BY <3>1, <4>2
    <3>4. QED
      BY <3>2, <3>3
  <2>4. CommandEnd(data, k + 1) = Min(ends)
    BY DEF CommandEnd
  <2> HIDE DEF ends
  <2>5. Min(ends) \in ends /\ Min(ends) <= e
    BY <2>1, <2>2, LeastOf
  <2>6. Min(ends) \in Nat /\ ~(Min(ends) < e)
    BY <2>1, <2>3, <2>5
  <2>7. QED
    BY <2>4, <2>5, <2>6
<1>6. CommandAt(data, k + 1)
  <2>1. e \in k + 1 + 4 .. Len(data)
    BY <1>1, <1>2, <1>4
  <2>2. QED
    BY <1>3, <1>5, <2>1 DEF CommandAt
<1>7. SubSeq(data, k + 1 + 4, e - 1) = d
  <2>1. PICK a \in Nat, b \in Nat : a = k + 5 /\ b = k + m + 4
    OBVIOUS
  <2>2. PICK s \in Seq(Byte) : s = SubSeq(data, a, b)
    <3>1. a \in 1 .. N /\ b \in 0 .. N
      BY <1>2, <2>1
    <3>2. SubSeq(data, a, b) \in Seq(Byte)
      BY <1>1, <3>1
    <3>3. QED
      BY <3>2, Zenon
  <2>3. Len(s) = m /\ \A i \in 1 .. m : s[i] = data[a + i - 1]
    BY <1>1, <1>2, <2>1, <2>2
  <2>4. ASSUME NEW i \in 1 .. m PROVE s[i] = d[i]
    <3>1. a + i - 1 = k + 4 + i
      BY <2>1
    <3>2. s[i] = data[a + i - 1] /\ data[k + 4 + i] = d[i]
      BY <1>2, <2>3
    <3>3. QED
      BY <3>1, <3>2
  <2>5. s = d
    <3>1. Len(s) = Len(d) /\ \A i \in 1 .. Len(s) : s[i] = d[i]
      BY <2>3, <2>4
    <3>2. d \in Seq(Byte)
      OBVIOUS
    <3>3. QED
      BY <3>1, <3>2, SeqEqual
  <2>6. k + 1 + 4 = a /\ e - 1 = b
    BY <1>4, <2>1
  <2>7. QED
    BY <2>2, <2>5, <2>6
<1>8. ~(k + 1 > Len(data) - 2) /\ data[k + 1 + 3] = n /\ e + 2 = k + m + 7
  <2>1. k + 1 + 3 = k + 4 /\ e + 2 = k + m + 7
    BY <1>4
  <2>2. ~(k + 1 > Len(data) - 2)
    BY <1>1, <1>2
  <2>3. QED
    BY <1>2, <2>1, <2>2
<1>9. QED
  BY <1>5, <1>6, <1>7, <1>8 DEF Finds

(***************************************************************************)
(* The packet for the device.                                              *)
(***************************************************************************)

LEMMA HoldsConcat ==
    ASSUME NEW s \in Seq(Byte), NEW t \in Seq(Byte), NEW k \in Nat, NEW p \in Seq(Byte)
    PROVE  /\ Len(s \o t) = Len(s) + Len(t)
           /\ Holds(s \o t, Len(s), t)
           /\ Holds(s, k, p) => Holds(s \o t, k, p)
<1>1. PICK m \in Nat, n \in Nat, l \in Nat : m = Len(s) /\ n = Len(t) /\ l = Len(p)
  OBVIOUS
<1>2. PICK u \in Seq(Byte) : u = s \o t
  BY ConcatProperties
<1>3. /\ Len(u) = m + n
      /\ \A i \in 1 .. m + n : u[i] = IF i <= m THEN s[i] ELSE t[i - m]
  BY <1>1, <1>2, ConcatProperties
<1>4. ASSUME NEW i \in 1 .. n PROVE u[m + i] = t[i]
  <2>1. m + i \in 1 .. m + n /\ ~(m + i <= m) /\ m + i - m = i
    OBVIOUS
  <2>2. QED
    BY <1>3, <2>1
<1>5. Holds(u, m, t)
  BY <1>1, <1>3, <1>4 DEF Holds
<1>6. ASSUME Holds(s, k, p) PROVE Holds(u, k, p)
  <2>1. k + l <= m /\ \A i \in 1 .. l : s[k + i] = p[i]
    BY <1>1, <1>6 DEF Holds
  <2>2. ASSUME NEW i \in 1 .. l PROVE u[k + i] = p[i]
    <3>1. k + i \in 1 .. m + n /\ k + i <= m
      BY <2>1
    <3>2. QED
      BY <1>3, <2>1, <3>1
  <2>3. k + l <= m + n
    BY <2>1
  <2>4. QED
    BY <1>1, <1>3, <2>2, <2>3 DEF Holds
<1>7. QED
  BY <1>1, <1>2, <1>3, <1>5, <1>6


LEMMA Behind ==
    ASSUME NEW s \in Seq(Byte), NEW t \in Seq(Byte)
    PROVE  Len(s \o t) = Len(s) + Len(t) /\ Holds(s \o t, Len(s), t)
  BY HoldsConcat, Zenon

LEMMA Stays ==
    ASSUME NEW s \in Seq(Byte), NEW t \in Seq(Byte), NEW u, u = s \o t,
           NEW k \in Nat, NEW p \in Seq(Byte), Holds(s, k, p)
    PROVE  Holds(u, k, p)
  BY HoldsConcat, Zenon

\* f has what the first sequences of seqs make, one behind the other.
Flattens(f, n, T, seqs) ==
    /\ f \in [0 .. n -> Seq(T)]
    /\ f[0] = <<>> /\ \A i \in 1 .. n : f[i] = f[i - 1] \o seqs[i]
    /\ FlattenSeq(seqs) = f[n]

LEMMA FlattensSome ==
    ASSUME NEW T, NEW seqs \in Seq(Seq(T)), NEW n \in Nat, n = Len(seqs)
    PROVE  \E f : Flattens(f, n, T, seqs)
<1>1. \E f \in [0 .. n -> Seq(T)] :
              /\ f[0] = <<>> /\ \A i \in 1 .. n : f[i] = f[i - 1] \o seqs[i]
              /\ FlattenSeq(seqs) = f[n]
  BY Flattened, Zenon
<1>2. QED
  BY <1>1 DEF Flattens

LEMMA FlattenFour ==
    ASSUME NEW T, NEW seqs \in Seq(Seq(T)), Len(seqs) = 4
    PROVE  FlattenSeq(seqs) = (((<<>> \o seqs[1]) \o seqs[2]) \o seqs[3]) \o seqs[4]
<1>1. PICK n \in Nat : n = Len(seqs)
  OBVIOUS
<1>2. \E f : Flattens(f, n, T, seqs)
  BY <1>1, FlattensSome
<1>3. PICK f \in [0 .. 4 -> Seq(T)] :
         /\ f[0] = <<>> /\ \A i \in 1 .. 4 : f[i] = f[i - 1] \o seqs[i]
         /\ FlattenSeq(seqs) = f[4]
  BY <1>1, <1>2 DEF Flattens
<1>4. /\ 1 \in 1 .. 4 /\ 2 \in 1 .. 4 /\ 3 \in 1 .. 4 /\ 4 \in 1 .. 4
      /\ 1 - 1 = 0 /\ 2 - 1 = 1 /\ 3 - 1 = 2 /\ 4 - 1 = 3
  OBVIOUS
<1>5. /\ f[1] = f[1 - 1] \o seqs[1] /\ f[2] = f[2 - 1] \o seqs[2]
      /\ f[3] = f[3 - 1] \o seqs[3] /\ f[4] = f[4 - 1] \o seqs[4]
  BY <1>3, <1>4, Zenon
<1>6. /\ f[1] = <<>> \o seqs[1] /\ f[2] = f[1] \o seqs[2]
      /\ f[3] = f[2] \o seqs[3] /\ f[4] = f[3] \o seqs[4]
  BY <1>3, <1>4, <1>5, Zenon
<1>7. QED
  BY <1>3, <1>6, Zenon

\* The packet is the four commands, one behind the other.
LEMMA PacketOf ==
    ASSUME NEW d1 \in Seq(Byte), Len(d1) = 4, NEW d2 \in Seq(Byte), Len(d2) = 1,
           NEW d3 \in Seq(Byte), Len(d3) = 1, NEW d4 \in Seq(Byte), Len(d4) = 1,
           NEW c, ToRFC2217Commands(c) =
             <<CommandOf(1, d1), CommandOf(2, d2), CommandOf(3, d3), CommandOf(4, d4)>>,
           NEW p, p = BuildRFC2217Packet(c)
    PROVE  /\ p \in Seq(Byte) /\ Len(p) = 31
           /\ HasCommand(p, 0, 1, d1, 4) /\ HasCommand(p, 10, 2, d2, 1)
           /\ HasCommand(p, 17, 3, d3, 1) /\ HasCommand(p, 24, 4, d4, 1)
<1>1. ASSUME NEW n \in 1 .. 4, NEW d \in Seq(Byte)
      PROVE  /\ Subnegotiation(CommandOf(n, d)) \in Seq(Byte)
             /\ Len(Subnegotiation(CommandOf(n, d))) = Len(d) + 6
  <2>1. <<255, 250, 44, n>> \in Seq(Byte) /\ <<255, 240>> \in Seq(Byte)
    BY DEF Byte
  <2>2. Subnegotiation(CommandOf(n, d)) = <<255, 250, 44, n>> \o d \o <<255, 240>>
    BY DEF Subnegotiation, CommandOf, IAC, SB, SE, ComPortOption
  <2>3. QED
    BY <2>1, <2>2
<1>2. PICK s1 \in Seq(Byte) : s1 = Subnegotiation(CommandOf(1, d1)) /\ Len(s1) = 10
  <2>1. 1 \in 1 .. 4
    OBVIOUS
  <2>2. /\ Subnegotiation(CommandOf(1, d1)) \in Seq(Byte)
        /\ Len(Subnegotiation(CommandOf(1, d1))) = Len(d1) + 6
    BY <1>1, <2>1, Zenon
  <2>3. Len(Subnegotiation(CommandOf(1, d1))) = 10
    BY <2>2
  <2>4. QED
    BY <2>2, <2>3, Zenon
<1>3. PICK s2 \in Seq(Byte) : s2 = Subnegotiation(CommandOf(2, d2)) /\ Len(s2) = 7
  <2>1. 2 \in 1 .. 4
    OBVIOUS
  <2>2. /\ Subnegotiation(CommandOf(2, d2)) \in Seq(Byte)
        /\ Len(Subnegotiation(CommandOf(2, d2))) = Len(d2) + 6
    BY <1>1, <2>1, Zenon
  <2>3. Len(Subnegotiation(CommandOf(2, d2))) = 7
    BY <2>2
  <2>4. QED
    BY <2>2, <2>3, Zenon
<1>4. PICK s3 \in Seq(Byte) : s3 = Subnegotiation(CommandOf(3, d3)) /\ Len(s3) = 7
  <2>1. 3 \in 1 .. 4
    OBVIOUS
  <2>2. /\ Subnegotiation(CommandOf(3, d3)) \in Seq(Byte)
        /\ Len(Subnegotiation(CommandOf(3, d3))) = Len(d3) + 6
    BY <1>1, <2>1, Zenon
  <2>3. Len(Subnegotiation(CommandOf(3, d3))) = 7
    BY <2>2
  <2>4. QED
    BY <2>2, <2>3, Zenon
<1>5. PICK s4 \in Seq(Byte) : s4 = Subnegotiation(CommandOf(4, d4)) /\ Len(s4) = 7
  <2>1. 4 \in 1 .. 4
    OBVIOUS
  <2>2. /\ Subnegotiation(CommandOf(4, d4)) \in Seq(Byte)
        /\ Len(Subnegotiation(CommandOf(4, d4))) = Len(d4) + 6
    BY <1>1, <2>1, Zenon
  <2>3. Len(Subnegotiation(CommandOf(4, d4))) = 7
    BY <2>2
  <2>4. QED
    BY <2>2, <2>3, Zenon
<1> DEFINE commands == ToRFC2217Commands(c)
           parts == [i \in 1 .. Len(commands) |-> Subnegotiation(commands[i])]
<1>6. /\ parts \in Seq(Seq(Byte)) /\ Len(parts) = 4
      /\ parts[1] = s1 /\ parts[2] = s2 /\ parts[3] = s3 /\ parts[4] = s4
  <2>1. /\ Len(commands) = 4
        /\ commands[1] = CommandOf(1, d1) /\ commands[2] = CommandOf(2, d2)
        /\ commands[3] = CommandOf(3, d3) /\ commands[4] = CommandOf(4, d4)
    OBVIOUS
  <2> HIDE DEF commands
  <2>2. parts = [i \in 1 .. 4 |-> Subnegotiation(commands[i])]
    BY <2>1
  <2>3. parts[1] = s1 /\ parts[2] = s2 /\ parts[3] = s3 /\ parts[4] = s4
    BY <1>2, <1>3, <1>4, <1>5, <2>1, <2>2
  <2> HIDE DEF parts
  <2>4. \A i \in 1 .. 4 : parts[i] \in Seq(Byte)
    <3>1. \A i \in 1 .. 4 : i = 1 \/ i = 2 \/ i = 3 \/ i = 4
      OBVIOUS
    <3>2. QED
      BY <2>3, <3>1
  <2>5. parts = [i \in 1 .. 4 |-> parts[i]]
    BY <2>2
  <2>6. parts \in Seq(Seq(Byte)) /\ Len(parts) = 4
    BY <2>4, <2>5
  <2>7. QED
    BY <2>3, <2>6
<1>7. p = FlattenSeq(parts)
  BY DEF BuildRFC2217Packet
<1> HIDE DEF parts
<1>8. PICK u0 \in Seq(Byte), u1 \in Seq(Byte), u2 \in Seq(Byte), u3 \in Seq(Byte), u4 \in Seq(Byte) :
         u0 = <<>> /\ u1 = u0 \o s1 /\ u2 = u1 \o s2 /\ u3 = u2 \o s3 /\ u4 = u3 \o s4
  <2>1. PICK u0 \in Seq(Byte) : u0 = <<>>
    BY EmptySeq
  <2>2. PICK u1 \in Seq(Byte) : u1 = u0 \o s1
    BY ConcatProperties
  <2>3. PICK u2 \in Seq(Byte) : u2 = u1 \o s2
    BY ConcatProperties
  <2>4. PICK u3 \in Seq(Byte) : u3 = u2 \o s3
    BY ConcatProperties
  <2>5. PICK u4 \in Seq(Byte) : u4 = u3 \o s4
    BY ConcatProperties
  <2>6. QED
    BY <2>1, <2>2, <2>3, <2>4, <2>5, Zenon
<1>9. p = u4
  <2>1. FlattenSeq(parts) = (((<<>> \o parts[1]) \o parts[2]) \o parts[3]) \o parts[4]
    BY <1>6, FlattenFour
  <2>2. QED
    BY <1>6, <1>7, <1>8, <2>1
<1>10. Len(u0) = 0 /\ u1 = u0 \o s1 /\ u2 = u1 \o s2 /\ u3 = u2 \o s3 /\ u4 = u3 \o s4 /\ p = u4
  <2>1. Len(u0) = 0
    BY <1>8
  <2>2. QED
    BY <1>8, <1>9, <2>1
<1>11. /\ 0 \in Nat /\ 7 \in Nat /\ 10 \in Nat /\ 17 \in Nat /\ 24 \in Nat
       /\ 10 = 0 + 10 /\ 17 = 10 + 7 /\ 24 = 17 + 7 /\ 31 = 24 + 7
  OBVIOUS
<1>12. Len(u1) = 10 /\ Holds(u1, 0, s1)
  <2>1. Len(u0 \o s1) = Len(u0) + Len(s1) /\ Holds(u0 \o s1, Len(u0), s1)
    BY <1>10, Behind, Zenon
  <2>2. QED
    BY <1>2, <1>10, <1>11, <2>1
<1>13. Len(u2) = 17 /\ Holds(u2, 10, s2)
  <2>1. Len(u1 \o s2) = Len(u1) + Len(s2) /\ Holds(u1 \o s2, Len(u1), s2)
    BY <1>10, Behind, Zenon
  <2>2. QED
    BY <1>3, <1>12, <1>10, <1>11, <2>1
<1>14. Len(u3) = 24 /\ Holds(u3, 17, s3)
  <2>1. Len(u2 \o s3) = Len(u2) + Len(s3) /\ Holds(u2 \o s3, Len(u2), s3)
    BY <1>10, Behind, Zenon
  <2>2. QED
    BY <1>4, <1>13, <1>10, <1>11, <2>1
<1>15. Len(u4) = 31 /\ Holds(u4, 24, s4)
  <2>1. Len(u3 \o s4) = Len(u3) + Len(s4) /\ Holds(u3 \o s4, Len(u3), s4)
    BY <1>10, Behind, Zenon
  <2>2. QED
    BY <1>5, <1>14, <1>10, <1>11, <2>1
<1>16. Holds(u4, 17, s3)
  BY <1>10, <1>11, <1>14, Stays, Zenon
<1>17. Holds(u4, 10, s2)
  <2>1. Holds(u3, 10, s2)
    BY <1>10, <1>11, <1>13, Stays, Zenon
  <2>2. QED
    BY <1>10, <1>11, <2>1, Stays, Zenon
<1>18. Holds(u4, 0, s1)
  <2>1. Holds(u2, 0, s1)
    BY <1>10, <1>11, <1>12, Stays, Zenon
  <2>2. Holds(u3, 0, s1)
    BY <1>10, <1>11, <2>1, Stays, Zenon
  <2>3. QED
    BY <1>10, <1>11, <2>2, Stays, ZenonT(40)
<1>19. p \in Seq(Byte) /\ Len(p) = 31
  BY <1>10, <1>15
<1>20. 1 \in Byte /\ 2 \in Byte /\ 3 \in Byte /\ 4 \in Byte
  BY DEF Byte
<1>21. HasCommand(p, 0, 1, d1, 4)
  BY <1>2, <1>10, <1>11, <1>18, <1>20, CommandBytes
<1>22. HasCommand(p, 10, 2, d2, 1)
  BY <1>3, <1>10, <1>11, <1>17, <1>20, CommandBytes
<1>23. HasCommand(p, 17, 3, d3, 1)
  BY <1>4, <1>10, <1>11, <1>16, <1>20, CommandBytes
<1>24. HasCommand(p, 24, 4, d4, 1)
  BY <1>5, <1>10, <1>11, <1>15, <1>20, CommandBytes
<1>25. QED
  BY <1>19, <1>21, <1>22, <1>23, <1>24


\* data has that command, which holds no byte 255, between k and j.
CommandIn(data, k, n, d, j) ==
    /\ data \in Seq(Byte) /\ k \in Nat /\ n \in Byte \ {255} /\ d \in Seq(Byte \ {255})
    /\ HasCommand(data, k, n, d, Len(d)) /\ j = k + Len(d) + 6

LEMMA TelnetTakes ==
    ASSUME NEW data, NEW st, Telnet(st, data), NEW k, NEW n, NEW d, NEW j, CommandIn(data, k, n, d, j),
           NEW arg, NEW got, st[k] = TelnetState("data", arg, got)
    PROVE  st[j] = TelnetState("data", <<44, n>> \o d, Append(got, <<44, n>> \o d))
<1>1. PICK m \in Nat : m = Len(d)
  BY DEF CommandIn
<1>2. /\ data \in Seq(Byte) /\ k \in Nat /\ n \in Byte \ {255} /\ d \in Seq(Byte \ {255})
      /\ HasCommand(data, k, n, d, m) /\ j = k + m + 6
  BY <1>1 DEF CommandIn
<1>3. st[k + m + 6] = TelnetState("data", <<44, n>> \o d, Append(got, <<44, n>> \o d))
  BY <1>1, <1>2, TelnetCommand
<1>4. QED
  BY <1>2, <1>3, Zenon

LEMMA ProxyTakes ==
    ASSUME NEW data, NEW f, NEW k, NEW n, NEW d, NEW j, CommandIn(data, k, n, d, j)
    PROVE  ReadsFrom(data, f, k + 1) = <<CommandOf(n, d)>> \o f[j + 1]
<1>1. PICK m \in Nat : m = Len(d)
  BY DEF CommandIn
<1>2. /\ data \in Seq(Byte) /\ k \in Nat /\ n \in Byte \ {255} /\ d \in Seq(Byte \ {255})
      /\ HasCommand(data, k, n, d, m) /\ j = k + m + 6
  BY <1>1 DEF CommandIn
<1>3. Finds(data, k, n, d, m)
  BY <1>1, <1>2, FoundCommand
<1>4. k + m + 7 = j + 1
  BY <1>2
<1>5. QED
  BY <1>3, <1>4 DEF Finds, ReadsFrom, CommandOf

LEMMA Prepended ==
    ASSUME NEW T, NEW a \in T, NEW s \in Seq(T), NEW u, u = <<a>> \o s
    PROVE  /\ u \in Seq(T) /\ Len(u) = Len(s) + 1
           /\ u[1] = a /\ \A i \in 1 .. Len(s) : u[i + 1] = s[i]
<1>1. <<a>> \in Seq(T)
  OBVIOUS
<1>2. QED
  BY <1>1

LEMMA FourAppended ==
    ASSUME NEW T, NEW a \in T, NEW b \in T, NEW c \in T, NEW d \in T
    PROVE  Append(Append(Append(Append(<<>>, a), b), c), d) = <<a, b, c, d>>
<1>1. PICK s1 \in Seq(T) : s1 = Append(<<>>, a)
  BY EmptySeq, AppendProperties
<1>2. Len(s1) = 1 /\ s1[1] = a
  BY <1>1, EmptySeq
<1>3. PICK s2 \in Seq(T) : s2 = Append(s1, b)
  BY AppendProperties
<1>4. Len(s2) = 2 /\ s2[1] = a /\ s2[2] = b
  <2>1. /\ Len(s2) = Len(s1) + 1 /\ s2[Len(s1) + 1] = b
        /\ \A i \in 1 .. Len(s1) : s2[i] = s1[i]
    BY <1>3, AppendProperties
  <2>2. 1 \in 1 .. Len(s1)
    BY <1>2
  <2>3. QED
    BY <1>2, <2>1, <2>2
<1>5. PICK s3 \in Seq(T) : s3 = Append(s2, c)
  BY AppendProperties
<1>6. Len(s3) = 3 /\ s3[1] = a /\ s3[2] = b /\ s3[3] = c
  <2>1. /\ Len(s3) = Len(s2) + 1 /\ s3[Len(s2) + 1] = c
        /\ \A i \in 1 .. Len(s2) : s3[i] = s2[i]
    BY <1>5, AppendProperties
  <2>2. 1 \in 1 .. Len(s2) /\ 2 \in 1 .. Len(s2)
    BY <1>4
  <2>3. QED
    BY <1>4, <2>1, <2>2
<1>7. PICK s4 \in Seq(T) : s4 = Append(s3, d)
  BY AppendProperties
<1>8. Len(s4) = 4 /\ s4[1] = a /\ s4[2] = b /\ s4[3] = c /\ s4[4] = d
  <2>1. /\ Len(s4) = Len(s3) + 1 /\ s4[Len(s3) + 1] = d
        /\ \A i \in 1 .. Len(s3) : s4[i] = s3[i]
    BY <1>7, AppendProperties
  <2>2. 1 \in 1 .. Len(s3) /\ 2 \in 1 .. Len(s3) /\ 3 \in 1 .. Len(s3)
    BY <1>6
  <2>3. QED
    BY <1>6, <2>1, <2>2
<1>9. PICK t \in Seq(T) : t = <<a, b, c, d>>
  <2>1. <<a, b, c, d>> \in Seq(T)
    OBVIOUS
  <2>2. QED
    BY <2>1, Zenon
<1>10. Len(t) = 4 /\ t[1] = a /\ t[2] = b /\ t[3] = c /\ t[4] = d
  BY <1>9
<1>11. s4 = t
  <2>1. Len(s4) = Len(t) /\ \A i \in 1 .. Len(s4) : s4[i] = t[i]
    BY <1>8, <1>10
  <2>2. QED
    BY <2>1, SeqEqual
<1>12. QED
  BY <1>1, <1>3, <1>5, <1>7, <1>9, <1>11, Zenon

LEMMA FourConcat ==
    ASSUME NEW T, NEW a \in T, NEW b \in T, NEW c \in T, NEW d \in T
    PROVE  <<a>> \o (<<b>> \o (<<c>> \o (<<d>> \o <<>>))) = <<a, b, c, d>>
<1>1. PICK s0 \in Seq(T) : s0 = <<>> /\ Len(s0) = 0
  BY EmptySeq
<1>2. PICK s1 \in Seq(T) : s1 = <<d>> \o s0
  BY Prepended
<1>3. Len(s1) = 1 /\ s1[1] = d
  BY <1>1, <1>2, Prepended
<1>4. PICK s2 \in Seq(T) : s2 = <<c>> \o s1
  BY Prepended
<1>5. Len(s2) = 2 /\ s2[1] = c /\ s2[2] = d
  <2>1. Len(s2) = Len(s1) + 1 /\ s2[1] = c /\ \A i \in 1 .. Len(s1) : s2[i + 1] = s1[i]
    BY <1>4, Prepended
  <2>2. s2[1 + 1] = s1[1]
    BY <1>3, <2>1
  <2>3. QED
    BY <1>3, <2>1, <2>2
<1>6. PICK s3 \in Seq(T) : s3 = <<b>> \o s2
  BY Prepended
<1>7. Len(s3) = 3 /\ s3[1] = b /\ s3[2] = c /\ s3[3] = d
  <2>1. Len(s3) = Len(s2) + 1 /\ s3[1] = b /\ \A i \in 1 .. Len(s2) : s3[i + 1] = s2[i]
    BY <1>6, Prepended
  <2>2. s3[1 + 1] = s2[1] /\ s3[2 + 1] = s2[2]
    BY <1>5, <2>1
  <2>3. QED
    BY <1>5, <2>1, <2>2
<1>8. PICK s4 \in Seq(T) : s4 = <<a>> \o s3
  BY Prepended
<1>9. Len(s4) = 4 /\ s4[1] = a /\ s4[2] = b /\ s4[3] = c /\ s4[4] = d
  <2>1. Len(s4) = Len(s3) + 1 /\ s4[1] = a /\ \A i \in 1 .. Len(s3) : s4[i + 1] = s3[i]
    BY <1>8, Prepended
  <2>2. s4[1 + 1] = s3[1] /\ s4[2 + 1] = s3[2] /\ s4[3 + 1] = s3[3]
    BY <1>7, <2>1
  <2>3. QED
    BY <1>7, <2>1, <2>2
<1>10. PICK t \in Seq(T) : t = <<a, b, c, d>>
  <2>1. <<a, b, c, d>> \in Seq(T)
    OBVIOUS
  <2>2. QED
    BY <2>1, Zenon
<1>11. Len(t) = 4 /\ t[1] = a /\ t[2] = b /\ t[3] = c /\ t[4] = d
  BY <1>10
<1>12. s4 = t
  <2>1. Len(s4) = Len(t) /\ \A i \in 1 .. Len(s4) : s4[i] = t[i]
    BY <1>9, <1>11
  <2>2. QED
    BY <2>1, SeqEqual
<1>13. QED
  BY <1>1, <1>2, <1>4, <1>6, <1>8, <1>10, <1>12, Zenon

\* What a telnet peer makes of the four commands.
Received(d1, d2, d3, d4) ==
    << <<44, 1>> \o d1, <<44, 2>> \o d2, <<44, 3>> \o d3, <<44, 4>> \o d4 >>

\* A telnet peer, and the proxy, read four commands that make up the packet.
LEMMA TelnetReadsFour ==
    ASSUME NEW p \in Seq(Byte), NEW d1, NEW d2, NEW d3, NEW d4, NEW k2, NEW k3, NEW k4, NEW k5,
           CommandIn(p, 0, 1, d1, k2), CommandIn(p, k2, 2, d2, k3),
           CommandIn(p, k3, 3, d3, k4), CommandIn(p, k4, 4, d4, k5), k5 = Len(p)
    PROVE  TelnetReads(p) = Received(d1, d2, d3, d4)
<1>1. PICK st : Telnet(st, p) /\ TelnetReads(p) = st[Len(p)].got
  BY TelnetRuns
<1>2. st[0] = TelnetState("data", <<>>, <<>>)
  BY <1>1 DEF Telnet, TelnetStart, TelnetState
<1> DEFINE x1 == <<44, 1>> \o d1
           x2 == <<44, 2>> \o d2
           x3 == <<44, 3>> \o d3
           x4 == <<44, 4>> \o d4
           g1 == Append(<<>>, x1)
           g2 == Append(g1, x2)
           g3 == Append(g2, x3)
           g4 == Append(g3, x4)
<1>3. st[k2] = TelnetState("data", x1, g1)
  <2>1. PICK k1, e : k1 = 0 /\ e = <<>>
    OBVIOUS
  <2>2. CommandIn(p, k1, 1, d1, k2) /\ st[k1] = TelnetState("data", e, e)
    BY <1>2, <2>1, Zenon
  <2>3. st[k2] = TelnetState("data", x1, Append(e, x1))
    BY <1>1, <2>2, TelnetTakes
  <2>4. QED
    BY <2>1, <2>3, Zenon
<1>4. st[k3] = TelnetState("data", x2, g2)
  <2> HIDE DEF x1, g1
  <2>1. QED
    BY <1>1, <1>3, TelnetTakes
<1>5. st[k4] = TelnetState("data", x3, g3)
  <2> HIDE DEF x2, g2
  <2>1. QED
    BY <1>1, <1>4, TelnetTakes
<1>6. st[k5] = TelnetState("data", x4, g4)
  <2> HIDE DEF x3, g3
  <2>1. QED
    BY <1>1, <1>5, TelnetTakes
<1>7. TelnetReads(p) = g4
  <2> HIDE DEF x4, g4
  <2>1. QED
    BY <1>1, <1>6 DEF TelnetState
<1>8. g4 = <<x1, x2, x3, x4>>
  <2>1. ASSUME NEW n \in 1 .. 4, NEW d \in Seq(Byte \ {255}) PROVE <<44, n>> \o d \in Seq(Byte)
    <3>1. <<44, n>> \in Seq(Byte) /\ d \in Seq(Byte)
      BY DEF Byte
    <3>2. QED
      BY <3>1, ConcatProperties
  <2>2. /\ d1 \in Seq(Byte \ {255}) /\ d2 \in Seq(Byte \ {255})
        /\ d3 \in Seq(Byte \ {255}) /\ d4 \in Seq(Byte \ {255})
    BY DEF CommandIn
  <2>3. 1 \in 1 .. 4 /\ 2 \in 1 .. 4 /\ 3 \in 1 .. 4 /\ 4 \in 1 .. 4
    OBVIOUS
  <2>4. x1 \in Seq(Byte) /\ x2 \in Seq(Byte) /\ x3 \in Seq(Byte) /\ x4 \in Seq(Byte)
    BY <2>1, <2>2, <2>3, Zenon
  <2> HIDE DEF x1, x2, x3, x4
  <2>5. Append(Append(Append(Append(<<>>, x1), x2), x3), x4) = <<x1, x2, x3, x4>>
    BY <2>4, FourAppended
  <2>6. QED
    BY <2>5, Zenon
<1>9. QED
  BY <1>7, <1>8 DEF Received

LEMMA ProxyReadsFour ==
    ASSUME NEW p \in Seq(Byte), NEW d1, NEW d2, NEW d3, NEW d4, NEW k2, NEW k3, NEW k4, NEW k5,
           CommandIn(p, 0, 1, d1, k2), CommandIn(p, k2, 2, d2, k3),
           CommandIn(p, k3, 3, d3, k4), CommandIn(p, k4, 4, d4, k5), k5 = Len(p)
    PROVE  ParseRFC2217Commands(p) = <<CommandOf(1, d1), CommandOf(2, d2), CommandOf(3, d3), CommandOf(4, d4)>>
<1>1. PICK f : /\ \A i \in 1 .. Len(p) + 2 : f[i] = ReadsFrom(p, f, i)
               /\ ParseRFC2217Commands(p) = f[1]
  BY CommandsRead
<1>2. /\ 0 + 1 \in 1 .. Len(p) + 2 /\ k2 + 1 \in 1 .. Len(p) + 2 /\ k3 + 1 \in 1 .. Len(p) + 2
      /\ k4 + 1 \in 1 .. Len(p) + 2 /\ k5 + 1 \in 1 .. Len(p) + 2
      /\ 0 + 1 = 1 /\ k5 + 1 > Len(p) - 2
  <2>1. /\ k2 \in Nat /\ k3 \in Nat /\ k4 \in Nat /\ k5 \in Nat
        /\ k2 <= k3 /\ k3 <= k4 /\ k4 <= k5
    BY DEF CommandIn
  <2>2. QED
    BY <2>1
<1>3. /\ f[0 + 1] = ReadsFrom(p, f, 0 + 1) /\ f[k2 + 1] = ReadsFrom(p, f, k2 + 1)
      /\ f[k3 + 1] = ReadsFrom(p, f, k3 + 1) /\ f[k4 + 1] = ReadsFrom(p, f, k4 + 1)
      /\ f[k5 + 1] = ReadsFrom(p, f, k5 + 1)
  BY <1>1, <1>2, Zenon
<1>4. ReadsFrom(p, f, 0 + 1) = <<CommandOf(1, d1)>> \o f[k2 + 1]
  <2>1. PICK k1 : k1 = 0
    OBVIOUS
  <2>2. CommandIn(p, k1, 1, d1, k2)
    BY <2>1, Zenon
  <2>3. ReadsFrom(p, f, k1 + 1) = <<CommandOf(1, d1)>> \o f[k2 + 1]
    BY <2>2, ProxyTakes
  <2>4. QED
    BY <2>1, <2>3, Zenon
<1>5. ReadsFrom(p, f, k2 + 1) = <<CommandOf(2, d2)>> \o f[k3 + 1]
  BY ProxyTakes
<1>6. ReadsFrom(p, f, k3 + 1) = <<CommandOf(3, d3)>> \o f[k4 + 1]
  BY ProxyTakes
<1>7. ReadsFrom(p, f, k4 + 1) = <<CommandOf(4, d4)>> \o f[k5 + 1]
  BY ProxyTakes
<1>8. f[k5 + 1] = <<>>
  BY <1>2, <1>3 DEF ReadsFrom
<1> DEFINE c1 == CommandOf(1, d1)
           c2 == CommandOf(2, d2)
           c3 == CommandOf(3, d3)
           c4 == CommandOf(4, d4)
<1>9. /\ f[0 + 1] = <<c1>> \o f[k2 + 1] /\ f[k2 + 1] = <<c2>> \o f[k3 + 1]
       /\ f[k3 + 1] = <<c3>> \o f[k4 + 1] /\ f[k4 + 1] = <<c4>> \o f[k5 + 1]
  BY <1>3, <1>4, <1>5, <1>6, <1>7, Zenon
<1> HIDE DEF c1, c2, c3, c4
<1>10. f[0 + 1] = <<c1>> \o (<<c2>> \o (<<c3>> \o (<<c4>> \o <<>>)))
  BY <1>8, <1>9, Zenon
<1>11. f[0 + 1] = <<c1, c2, c3, c4>>
  <2>1. PICK T : c1 \in T /\ c2 \in T /\ c3 \in T /\ c4 \in T
    <3>1. c1 \in {c1, c2, c3, c4} /\ c2 \in {c1, c2, c3, c4} /\ c3 \in {c1, c2, c3, c4} /\ c4 \in {c1, c2, c3, c4}
      OBVIOUS
    <3>2. QED
      BY <3>1, Zenon
  <2>2. <<c1>> \o (<<c2>> \o (<<c3>> \o (<<c4>> \o <<>>))) = <<c1, c2, c3, c4>>
    BY <2>1, FourConcat, Zenon
  <2>3. QED
    BY <1>10, <2>2, Zenon
<1>12. QED
  BY <1>1, <1>2, <1>11 DEF c1, c2, c3, c4


\* The commands for settings c carry these data.
Converted(c, d1, d2, d3, d4) ==
    ToRFC2217Commands(c) = <<CommandOf(1, d1), CommandOf(2, d2), CommandOf(3, d3), CommandOf(4, d4)>>

LEMMA PacketRead ==
    ASSUME NEW d1 \in Seq(Byte \ {255}), Len(d1) = 4, NEW d2 \in Seq(Byte \ {255}), Len(d2) = 1,
           NEW d3 \in Seq(Byte \ {255}), Len(d3) = 1, NEW d4 \in Seq(Byte \ {255}), Len(d4) = 1,
           NEW c, Converted(c, d1, d2, d3, d4), NEW p, p = BuildRFC2217Packet(c)
    PROVE  /\ TelnetReads(p) = Received(d1, d2, d3, d4)
           /\ ParseRFC2217Commands(p) = ToRFC2217Commands(c)
<1>1. ToRFC2217Commands(c) = <<CommandOf(1, d1), CommandOf(2, d2), CommandOf(3, d3), CommandOf(4, d4)>>
  BY DEF Converted
<1>2. d1 \in Seq(Byte) /\ d2 \in Seq(Byte) /\ d3 \in Seq(Byte) /\ d4 \in Seq(Byte)
  <2>1. ASSUME NEW d \in Seq(Byte \ {255}) PROVE d \in Seq(Byte)
    OBVIOUS
  <2>2. QED
    BY <2>1, Zenon
<1>3. /\ p \in Seq(Byte) /\ Len(p) = 31
      /\ HasCommand(p, 0, 1, d1, 4) /\ HasCommand(p, 10, 2, d2, 1)
      /\ HasCommand(p, 17, 3, d3, 1) /\ HasCommand(p, 24, 4, d4, 1)
  BY <1>2, <1>1, PacketOf
<1>4. /\ 1 \in Byte \ {255} /\ 2 \in Byte \ {255} /\ 3 \in Byte \ {255} /\ 4 \in Byte \ {255}
  BY DEF Byte
<1>5. CommandIn(p, 0, 1, d1, 10)
  BY <1>3, <1>4 DEF CommandIn
<1>6. CommandIn(p, 10, 2, d2, 17)
  BY <1>3, <1>4 DEF CommandIn
<1>7. CommandIn(p, 17, 3, d3, 24)
  BY <1>3, <1>4 DEF CommandIn
<1>8. CommandIn(p, 24, 4, d4, 31)
  BY <1>3, <1>4 DEF CommandIn
<1>9. PICK k2, k3, k4, k5 : k2 = 10 /\ k3 = 17 /\ k4 = 24 /\ k5 = 31
  OBVIOUS
<1>10. /\ CommandIn(p, 0, 1, d1, k2) /\ CommandIn(p, k2, 2, d2, k3)
      /\ CommandIn(p, k3, 3, d3, k4) /\ CommandIn(p, k4, 4, d4, k5) /\ k5 = Len(p)
  BY <1>3, <1>5, <1>6, <1>7, <1>8, <1>9, Zenon
<1>11. p \in Seq(Byte)
  BY <1>3
<1>12. TelnetReads(p) = Received(d1, d2, d3, d4)
  BY <1>10, <1>11, TelnetReadsFour
<1>13. ParseRFC2217Commands(p) = <<CommandOf(1, d1), CommandOf(2, d2), CommandOf(3, d3), CommandOf(4, d4)>>
  BY <1>10, <1>11, ProxyReadsFour
<1>14. QED
  BY <1>1, <1>12, <1>13, Zenon

(***************************************************************************)
(* A client's packet, parsed, converted and read.                          *)
(***************************************************************************)

LEMMA ParityIndexOf ==
    ASSUME NEW s \in Setting
    PROVE  ParityIndex(s) \in 1 .. 5 /\ (s.parity = "N" <=> ParityIndex(s) = 1)
<1>1. s.parity \in {"N", "O", "E", "M", "S"}
  BY DEF Setting
<1>2. /\ Parities[1] = "N" /\ Parities[2] = "O" /\ Parities[3] = "E" /\ Parities[4] = "M"
      /\ Parities[5] = "S"
  BY DEF Parities
<1>3. \E k \in 1 .. 5 : Parities[k] = s.parity
  <2>1. 1 \in 1 .. 5 /\ 2 \in 1 .. 5 /\ 3 \in 1 .. 5 /\ 4 \in 1 .. 5 /\ 5 \in 1 .. 5
    OBVIOUS
  <2>2. QED
    BY <1>1, <1>2, <2>1
<1>4. PICK k \in 1 .. 5 : k = ParityIndex(s) /\ Parities[k] = s.parity
  BY <1>3 DEF ParityIndex
<1>5. k = 1 \/ k = 2 \/ k = 3 \/ k = 4 \/ k = 5
  OBVIOUS
<1>6. QED
  BY <1>2, <1>4, <1>5

\* The proxy reads a client's packet as the client meant it.
LEMMA ParsedAsMeant ==
    ASSUME NEW s \in Setting
    PROVE  ParseUSRVCOM(VcomPacket(s)) =
             [BaudRate |-> s.baud, DataBits |-> s.size, Parity |-> ParityIndex(s) - 1, StopBits |-> s.stop]
<1>1. PICK b \in 0 .. Weight[1] - 1, size \in 5 .. 8, stop \in 1 .. 2, k \in 1 .. 5 :
         b = s.baud /\ size = s.size /\ stop = s.stop /\ k = ParityIndex(s)
  <2>1. s.baud \in 0 .. Weight[1] - 1 /\ s.size \in 5 .. 8 /\ s.stop \in 1 .. 2
    BY DEF Setting
  <2>2. ParityIndex(s) \in 1 .. 5
    BY ParityIndexOf
  <2>3. QED
    BY <2>1, <2>2
<1>2. PICK w \in Byte, x \in Byte, y \in Byte :
         w = (b \div 65536) % 256 /\ x = (b \div 256) % 256 /\ y = (b \div 1) % 256
  <2>1. b \in Nat
    BY SMT DEF Weight
  <2>2. /\ (b \div 65536) % 256 \in Byte /\ (b \div 256) % 256 \in Byte
        /\ (b \div 1) % 256 \in Byte
    BY <2>1 DEF Byte
  <2>3. QED
    BY <2>2
<1>3. PICK q \in {0, 8, 24, 40, 56} : /\ q = IF s.parity = "N" THEN 0 ELSE 8 + 16 * (k - 2)
                                      /\ k = 1 => q = 0
                                      /\ k # 1 => q = 8 + 16 * (k - 2)
  <2>1. s.parity = "N" <=> k = 1
    BY <1>1, ParityIndexOf
  <2>2. k = 1 \/ k = 2 \/ k = 3 \/ k = 4 \/ k = 5
    OBVIOUS
  <2>3. QED
    BY <2>1, <2>2
<1>4. PICK z \in Byte : z = (size - 5) + 4 * (stop - 1) + q
  BY DEF Byte
<1>5. PICK e \in Byte : e = (w + x + y + z) % 256
  BY DEF Byte
<1>6. BigEndian(s.baud, 3) = <<w, x, y>>
  <2>1. PICK t \in Seq(Byte) : t = BigEndian(b, 3) /\ Len(t) = 3
    <3>1. b \in Nat /\ 3 \in 1 .. 4
      BY SMT DEF Weight
    <3>2. QED
      BY <3>1, BigEndianType
  <2>2. t[1] = w /\ t[2] = x /\ t[3] = y
    BY <1>2, <2>1, SMT DEF BigEndian, Weight
  <2>3. PICK u \in Seq(Byte) : u = <<w, x, y>>
    <3>1. <<w, x, y>> \in Seq(Byte)
      OBVIOUS
    <3>2. QED
      BY <3>1, Zenon
  <2>4. Len(u) = 3 /\ u[1] = w /\ u[2] = x /\ u[3] = y
    BY <2>3
  <2>5. t = u
    <3>1. Len(t) = Len(u) /\ \A i \in 1 .. Len(t) : t[i] = u[i]
      BY <2>1, <2>2, <2>4
    <3>2. QED
      BY <3>1, SeqEqual
  <2>6. QED
    BY <1>1, <2>1, <2>3, <2>5
<1>7. PICK content \in Seq(Byte) : /\ content = <<w, x, y>> \o <<z>> /\ Len(content) = 4
                                   /\ content[1] = w /\ content[2] = x /\ content[3] = y /\ content[4] = z
  <2>1. <<w, x, y>> \in Seq(Byte) /\ <<z>> \in Seq(Byte)
    OBVIOUS
  <2>2. PICK content \in Seq(Byte) : content = <<w, x, y>> \o <<z>>
    BY <2>1, ConcatProperties
  <2>3. /\ Len(content) = 4
        /\ content[1] = w /\ content[2] = x /\ content[3] = y /\ content[4] = z
    BY <2>2
  <2>4. QED
    BY <2>2, <2>3, Zenon
<1>8. VcomPacket(s) = USRVCOMHeader \o content \o <<e>>
  <2>1. q = IF s.parity = "N" THEN 0 ELSE 8 + 16 * (ParityIndex(s) - 2)
    BY <1>1, <1>3
  <2>2. BigEndian(s.baud, 3) \o <<(s.size - 5) + 4 * (s.stop - 1) + q>> = content
    BY <1>1, <1>4, <1>6, <1>7
  <2>3. (content[1] + content[2] + content[3] + content[4]) % 256 = e
    BY <1>5, <1>7
  <2>4. QED
    BY <2>1, <2>2, <2>3, Zenon DEF VcomPacket
<1>9. PICK v \in Seq(Byte) : /\ v = VcomPacket(s) /\ Len(v) = 8
                             /\ v[1] = 85 /\ v[2] = 170 /\ v[3] = 85
                             /\ v[4] = w /\ v[5] = x /\ v[6] = y /\ v[7] = z /\ v[8] = e
  <2>1. USRVCOMHeader \in Seq(Byte) /\ <<e>> \in Seq(Byte) /\ USRVCOMHeader = <<85, 170, 85>>
    BY DEF USRVCOMHeader, Byte
  <2>2. QED
    <3>1. PICK u \in Seq(Byte) : u = USRVCOMHeader \o content
      BY <2>1, ConcatProperties
    <3>2. /\ Len(u) = 7 /\ u[1] = 85 /\ u[2] = 170 /\ u[3] = 85
          /\ u[4] = w /\ u[5] = x /\ u[6] = y /\ u[7] = z
      BY <1>7, <2>1, <3>1
    <3>3. PICK v \in Seq(Byte) : v = u \o <<e>>
      BY <2>1, ConcatProperties
    <3>4. /\ Len(v) = 8 /\ v[1] = 85 /\ v[2] = 170 /\ v[3] = 85
          /\ v[4] = w /\ v[5] = x /\ v[6] = y /\ v[7] = z /\ v[8] = e
      <4>1. <<e>> \in Seq(Byte) /\ Len(<<e>>) = 1 /\ <<e>>[1] = e
        OBVIOUS
      <4>2. /\ Len(v) = Len(u) + Len(<<e>>)
            /\ \A i \in 1 .. Len(u) + Len(<<e>>) : v[i] = IF i <= Len(u) THEN u[i] ELSE <<e>>[i - Len(u)]
        BY <3>3, <4>1, ConcatProperties
      <4>3. Len(v) = 8 /\ \A i \in 1 .. 8 : v[i] = IF i <= 7 THEN u[i] ELSE <<e>>[i - 7]
        BY <3>2, <4>1, <4>2
      <4>4. \A i \in 1 .. 7 : v[i] = u[i]
        BY <4>3
      <4>5. v[8] = e
        BY <4>1, <4>3
      <4>6. QED
        BY <3>2, <4>3, <4>4, <4>5
    <3>5. v = VcomPacket(s)
      BY <1>8, <3>1, <3>3, Zenon
    <3>6. QED
      BY <3>4, <3>5, Zenon
<1>10. ParseUSRVCOM(v) =
         [BaudRate |-> w * Weight[2] + x * Weight[3] + y,
          DataBits |-> 5 + (z % 4),
          Parity |-> IF Bit(z, 8) = 1 THEN 1 + ((z \div 16) % 4) ELSE 0,
          StopBits |-> 1 + Bit(z, 4)]
  <2> DEFINE starts == {i \in 1 .. Len(v) - USRVCOMPacketLen + 1 : HeaderAt(v, i)}
             packet == SubSeq(v, Min(starts), Min(starts) + USRVCOMPacketLen - 1)
  <2>1. HeaderAt(v, 1)
    <3>1. PICK t \in Seq(Byte) : t = SubSeq(v, 1, 3)
      <4>1. 1 \in 1 .. Len(v) /\ 3 \in 1 .. Len(v)
        BY <1>9
      <4>2. SubSeq(v, 1, 3) \in Seq(Byte)
        BY <4>1
      <4>3. QED
        BY <4>2, Zenon
    <3>2. Len(t) = 3 /\ t[1] = 85 /\ t[2] = 170 /\ t[3] = 85
      BY <1>9, <3>1
    <3>3. PICK u \in Seq(Byte) : u = <<85, 170, 85>>
      <4>1. <<85, 170, 85>> \in Seq(Byte)
        BY DEF Byte
      <4>2. QED
        BY <4>1, Zenon
    <3>4. Len(u) = 3 /\ u[1] = 85 /\ u[2] = 170 /\ u[3] = 85
      BY <3>3
    <3>5. t = u
      <4>1. Len(t) = Len(u) /\ \A i \in 1 .. Len(t) : t[i] = u[i]
        BY <3>2, <3>4
      <4>2. QED
        BY <4>1, SeqEqual
    <3>6. 1 + 2 = 3
      OBVIOUS
    <3>7. QED
      BY <3>1, <3>3, <3>5, <3>6 DEF HeaderAt, USRVCOMHeader
  <2>2. starts = {1}
    <3>1. Len(v) - USRVCOMPacketLen + 1 = 1
      BY <1>9 DEF USRVCOMPacketLen
    <3>2. QED
      BY <2>1, <3>1
  <2>3. Min(starts) = 1
    <3>1. Min({1}) \in {1}
      <4>1. {1} \subseteq Nat /\ {1} # {}
        OBVIOUS
      <4>2. QED
        BY <4>1, LeastOf, Zenon
    <3>2. QED
      BY <2>2, <3>1
  <2>4. packet = SubSeq(v, 1, 8)
    <3>1. Min(starts) + USRVCOMPacketLen - 1 = 8
      <4> HIDE DEF starts
      <4>1. QED
        BY <2>3 DEF USRVCOMPacketLen
    <3> HIDE DEF starts
    <3>2. QED
      BY <2>3, <3>1
  <2>5. packet[4] = w /\ packet[5] = x /\ packet[6] = y /\ packet[7] = z
    <3>1. \A i \in 1 .. 8 : SubSeq(v, 1, 8)[i] = v[i]
      BY <1>9
    <3> HIDE DEF packet
    <3>2. packet[4] = v[4] /\ packet[5] = v[5] /\ packet[6] = v[6] /\ packet[7] = v[7]
      BY <2>4, <3>1
    <3>3. QED
      BY <1>9, <3>2
  <2>6. starts # {}
    BY <2>2
  <2>7. QED
    BY <2>5, <2>6, Zenon DEF ParseUSRVCOM
<1>11. w * Weight[2] + x * Weight[3] + y = b
  BY <1>2, SMT DEF Weight
<1>12. 5 + (z % 4) = size /\ 1 + Bit(z, 4) = stop
  <2>1. size = 5 \/ size = 6 \/ size = 7 \/ size = 8
    OBVIOUS
  <2>2. stop = 1 \/ stop = 2
    OBVIOUS
  <2>3. QED
    BY <1>4, <2>1, <2>2 DEF Bit
<1>13. (IF Bit(z, 8) = 1 THEN 1 + ((z \div 16) % 4) ELSE 0) = k - 1
  <2>1. k = 1 \/ k = 2 \/ k = 3 \/ k = 4 \/ k = 5
    OBVIOUS
  <2>2. (size - 5) + 4 * (stop - 1) \in 0 .. 7
    OBVIOUS
  <2>3. PICK a \in 0 .. 7 : z = a + q
    BY <1>4, <2>2
  <2>4. CASE k = 1
    BY <1>3, <2>3, <2>4 DEF Bit
  <2>5. CASE k = 2
    BY <1>3, <2>3, <2>5 DEF Bit
  <2>6. CASE k = 3
    BY <1>3, <2>3, <2>6 DEF Bit
  <2>7. CASE k = 4
    BY <1>3, <2>3, <2>7 DEF Bit
  <2>8. CASE k = 5
    BY <1>3, <2>3, <2>8 DEF Bit
  <2>9. QED
    BY <2>1, <2>4, <2>5, <2>6, <2>7, <2>8
<1>14. QED
  BY <1>1, <1>9, <1>10, <1>11, <1>12, <1>13, Zenon


LEMMA BytesOf ==
    ASSUME NEW b \in 0 .. Weight[1] - 1
    PROVE  \A i \in 1 .. 4 : BigEndian(b, 4)[i] = IF i = 1 THEN 0 ELSE BigEndian(b, 3)[i - 1]
  BY SMT DEF BigEndian, Weight

\* What a client asks for is what the device is set to and what the log shows,
\* for every setting with no byte 255 in its baud rate.
THEOREM ConversionsFaithful == \A s \in Setting : Faithful(s)
<1> SUFFICES ASSUME NEW s \in Setting, \A i \in 1 .. 3 : BigEndian(s.baud, 3)[i] # IAC
             PROVE  /\ TelnetReads(BuildRFC2217Packet(ParseUSRVCOM(VcomPacket(s)))) = Sets(s)
                    /\ ParseRFC2217Commands(BuildRFC2217Packet(ParseUSRVCOM(VcomPacket(s))))
                         = ToRFC2217Commands(ParseUSRVCOM(VcomPacket(s)))
  BY DEF Faithful
<1>1. PICK c : c = ParseUSRVCOM(VcomPacket(s))
  OBVIOUS
<1>2. PICK p : p = BuildRFC2217Packet(c)
  OBVIOUS
<1>3. PICK size \in 5 .. 8, stop \in {1, 2}, k \in 1 .. 5 :
         size = s.size /\ stop = s.stop /\ k = ParityIndex(s)
  <2>1. s.size \in 5 .. 8 /\ s.stop \in {1, 2} /\ ParityIndex(s) \in 1 .. 5
    BY ParityIndexOf DEF Setting
  <2>2. QED
    BY <2>1, Zenon
<1>4. c.BaudRate = s.baud /\ c.DataBits = size /\ c.Parity + 1 = k /\ c.StopBits = stop
  <2>1. c = [BaudRate |-> s.baud, DataBits |-> s.size, Parity |-> ParityIndex(s) - 1, StopBits |-> s.stop]
    BY <1>1, ParsedAsMeant, Zenon
  <2>2. c.BaudRate = s.baud /\ c.DataBits = size /\ c.Parity = k - 1 /\ c.StopBits = stop
    BY <1>3, <2>1
  <2>3. QED
    BY <2>2
<1>5. PICK d1 \in Seq(Byte \ {255}) : d1 = BigEndian(s.baud, 4) /\ Len(d1) = 4
  <2>1. s.baud \in 0 .. Weight[1] - 1 /\ s.baud \in Nat
    <3>1. s.baud \in 0 .. Weight[1] - 1
      BY DEF Setting
    <3>2. QED
      BY <3>1
  <2>2. PICK t \in Seq(Byte) : t = BigEndian(s.baud, 4) /\ Len(t) = 4
    BY <2>1, BigEndianType
  <2>3. ASSUME NEW i \in 1 .. 4 PROVE t[i] # 255
    <3>1. t[i] = IF i = 1 THEN 0 ELSE BigEndian(s.baud, 3)[i - 1]
      BY <2>1, <2>2, BytesOf
    <3>2. i # 1 => i - 1 \in 1 .. 3
      OBVIOUS
    <3>3. QED
      BY <3>1, <3>2 DEF IAC
  <2>4. t \in Seq(Byte \ {255})
    <3>1. \A i \in 1 .. Len(t) : t[i] \in Byte \ {255}
      BY <2>2, <2>3
    <3>2. t = [i \in 1 .. Len(t) |-> t[i]]
      OBVIOUS
    <3>3. QED
      BY <3>1, <3>2
  <2>5. QED
    BY <2>2, <2>4
<1>6. ASSUME NEW e \in 0 .. 8
      PROVE  <<e>> \in Seq(Byte \ {255}) /\ Len(<<e>>) = 1
  BY DEF Byte
<1>7. PICK d2 \in Seq(Byte \ {255}) : d2 = <<size>> /\ Len(d2) = 1
  <2>1. size \in 0 .. 8
    OBVIOUS
  <2>2. <<size>> \in Seq(Byte \ {255}) /\ Len(<<size>>) = 1
    BY <1>6, <2>1, Zenon
  <2>3. QED
    BY <2>2, Zenon
<1>8. PICK d3 \in Seq(Byte \ {255}) : d3 = <<k>> /\ Len(d3) = 1
  <2>1. k \in 0 .. 8
    OBVIOUS
  <2>2. <<k>> \in Seq(Byte \ {255}) /\ Len(<<k>>) = 1
    BY <1>6, <2>1, Zenon
  <2>3. QED
    BY <2>2, Zenon
<1>9. PICK d4 \in Seq(Byte \ {255}) : d4 = <<stop>> /\ Len(d4) = 1
  <2>1. stop \in 0 .. 8
    OBVIOUS
  <2>2. <<stop>> \in Seq(Byte \ {255}) /\ Len(<<stop>>) = 1
    BY <1>6, <2>1, Zenon
  <2>3. QED
    BY <2>2, Zenon
<1>10. Converted(c, d1, d2, d3, d4)
  BY <1>4, <1>5, <1>7, <1>8, <1>9, Zenon
     DEF Converted, ToRFC2217Commands, CommandOf, SetBaudrate, SetDatasize, SetParity, SetStopsize
<1>11. /\ TelnetReads(p) = Received(d1, d2, d3, d4)
       /\ ParseRFC2217Commands(p) = ToRFC2217Commands(c)
  <2>1. Len(d1) = 4 /\ Len(d2) = 1 /\ Len(d3) = 1 /\ Len(d4) = 1
    BY <1>5, <1>7, <1>8, <1>9
  <2>2. TelnetReads(p) = Received(d1, d2, d3, d4)
    BY <1>2, <1>10, <2>1, PacketRead
  <2>3. ParseRFC2217Commands(p) = ToRFC2217Commands(c)
    BY <1>2, <1>10, <2>1, PacketRead
  <2>4. QED
    BY <2>2, <2>3
<1>12. Received(d1, d2, d3, d4) = Sets(s)
  <2>1. ASSUME NEW a \in Nat, NEW e \in Nat PROVE <<44, a>> \o <<e>> = <<44, a, e>>
    <3>1. <<44, a>> \in Seq(Nat) /\ <<e>> \in Seq(Nat)
      OBVIOUS
    <3>2. PICK u \in Seq(Nat) : u = <<44, a>> \o <<e>>
      BY <3>1, ConcatProperties
    <3>3. Len(u) = 3 /\ u[1] = 44 /\ u[2] = a /\ u[3] = e
      BY <3>1, <3>2
    <3>4. PICK t \in Seq(Nat) : t = <<44, a, e>>
      <4>1. <<44, a, e>> \in Seq(Nat)
        OBVIOUS
      <4>2. QED
        BY <4>1, Zenon
    <3>5. Len(t) = 3 /\ t[1] = 44 /\ t[2] = a /\ t[3] = e
      BY <3>4
    <3>6. u = t
      <4>1. Len(u) = Len(t) /\ \A i \in 1 .. Len(u) : u[i] = t[i]
        BY <3>3, <3>5
      <4>2. QED
        BY <4>1, SeqEqual
    <3>7. QED
      BY <3>2, <3>4, <3>6, Zenon
  <2>2. size \in Nat /\ k \in Nat /\ stop \in Nat /\ 2 \in Nat /\ 3 \in Nat /\ 4 \in Nat
    OBVIOUS
  <2>3. /\ <<44, 2>> \o d2 = <<44, 2, size>> /\ <<44, 3>> \o d3 = <<44, 3, k>>
        /\ <<44, 4>> \o d4 = <<44, 4, stop>>
    BY <1>7, <1>8, <1>9, <2>1, <2>2, Zenon
  <2>4. QED
    BY <1>3, <1>5, <2>3, Zenon DEF Received, Sets
<1>13. QED
  BY <1>1, <1>2, <1>11, <1>12, Zenon
=============================================================================
