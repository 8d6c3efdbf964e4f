---------------------------- MODULE SkpStream_proofs ----------------------------
(***************************************************************************)
(* What one connection passes on is what its peer sent: RelayedWhole, for  *)
(* every number of packets, every size of theirs, of the heads, of the     *)
(* reads, of the arrays and of the channels, however the reads cut the     *)
(* stream up.                                                              *)
(***************************************************************************)
EXTENDS SkpStream, FiniteSetTheorems, SequenceTheorems, WellFoundedInduction, TLAPS

Byte == Nat \X Nat \X BOOLEAN

Slice == [array : Nat, from : Nat, len : Nat]

Stream == Sent[Packets]      \* all that the peer sends

Off(p) == Len(Sent[p])       \* where packet p ends in it

-----------------------------------------------------------------------------
(* Induction up to N for a set, and recursion up to N.                     *)

\* The library's induction takes an operator; its well-founded sets do not.
LEMMA Induction ==
  ASSUME NEW N \in Nat, NEW P, 0 \in P, \A n \in 0 .. N - 1 : n \in P => n + 1 \in P
  PROVE  \A n \in 0 .. N : n \in P
<1> SUFFICES ASSUME NEW m \in 0 .. N, m \notin P
             PROVE  FALSE
  OBVIOUS
<1> DEFINE Bad == {n \in 0 .. N : n \notin P}
           T   == {0 .. n : n \in Bad}
<1>1. T \subseteq FiniteSubsetsOf(Nat)
  <2>1. ASSUME NEW n \in Nat
        PROVE  0 .. n \in SUBSET Nat /\ IsFiniteSet(0 .. n)
    BY FS_Interval
  <2> QED BY <2>1 DEF FiniteSubsetsOf
<1>2. T # {}
  OBVIOUS
<1>3. IsWellFoundedOn(StrictSubsetOrdering(Nat), FiniteSubsetsOf(Nat))
  BY FS_StrictSubsetOrderingWellFounded
<1> HIDE DEF T
<1>4. \E x \in T : \A y \in T : ~(<<y, x>> \in StrictSubsetOrdering(Nat))
  BY <1>1, <1>2, <1>3, WFMin
<1> USE DEF T
<1>5. PICK n \in Bad : \A k \in Bad : <<0 .. k, 0 .. n>> \notin StrictSubsetOrdering(Nat)
  BY <1>4
<1>6. n # 0 /\ n \in 1 .. N
  OBVIOUS
<1>7. n - 1 \in Bad
  BY <1>6
<1>8. 0 .. n - 1 \subseteq 0 .. n /\ n \in 0 .. n /\ n \notin 0 .. n - 1
      /\ 0 .. n \in SUBSET Nat /\ 0 .. n - 1 \in SUBSET Nat
  BY <1>6
<1>9. <<0 .. n - 1, 0 .. n>> \in StrictSubsetOrdering(Nat)
  BY <1>8 DEF StrictSubsetOrdering
<1> QED BY <1>5, <1>7, <1>9

\* f begins with v0 and goes on by step.
Recursive(f, N, V, v0, step) ==
    f \in [0 .. N -> V] /\ f[0] = v0 /\ \A p \in 1 .. N : f[p] = step[p][f[p - 1]]

\* There is a function with a given first value and given steps.
LEMMA Recursion ==
  ASSUME NEW N \in Nat, NEW V, NEW v0 \in V, NEW step \in [1 .. N -> [V -> V]]
  PROVE  \E f : Recursive(f, N, V, v0, step)
<1> DEFINE Up(n) == {f \in [0 .. n -> V] :
                       f[0] = v0 /\ \A p \in 1 .. n : f[p] = step[p][f[p - 1]]}
           P == {n \in 0 .. N : Up(n) # {}}
<1>1. 0 \in P
  <2>1. [p \in 0 .. 0 |-> v0] \in Up(0)
    OBVIOUS
  <2> QED BY <2>1
<1>2. ASSUME NEW n \in 0 .. N - 1, n \in P
      PROVE  n + 1 \in P
  <2>1. PICK f : f \in Up(n)
    BY <1>2
  <2> DEFINE g == [p \in 0 .. n + 1 |-> IF p = n + 1 THEN step[n + 1][f[n]] ELSE f[p]]
  <2>2. n \in Nat /\ n + 1 \in 1 .. N
    OBVIOUS
  <2>3. f[n] \in V /\ step[n + 1] \in [V -> V]
    BY <2>1, <2>2
  <2>4. step[n + 1][f[n]] \in V
    BY <2>3
  <2>5. g \in [0 .. n + 1 -> V]
    BY <2>1, <2>2, <2>4
  <2>6. ASSUME NEW p \in 1 .. n + 1
        PROVE  g[p] = step[p][g[p - 1]]
    <3>1. CASE p = n + 1
      BY <2>2, <3>1
    <3>2. CASE p # n + 1
      <4>1. p \in 1 .. n /\ p \in 0 .. n + 1 /\ p - 1 \in 0 .. n + 1 /\ p - 1 # n + 1
        BY <2>2, <3>2
      <4>2. g[p] = f[p] /\ g[p - 1] = f[p - 1]
        BY <3>2, <4>1
      <4> QED BY <2>1, <4>1, <4>2
    <3> QED BY <3>1, <3>2
  <2>7. g[0] = v0
    BY <2>1, <2>2
  <2>8. g \in Up(n + 1)
    <3> HIDE DEF g
    <3> QED BY <2>5, <2>6, <2>7
  <2> HIDE DEF Up, g
  <2> QED BY <2>2, <2>8
<1> HIDE DEF P
<1>3. N \in P
  <2>1. \A n \in 0 .. N - 1 : n \in P => n + 1 \in P
    BY <1>2
  <2>2. \A n \in 0 .. N : n \in P
    BY <1>1, <2>1, Induction
  <2> QED BY <2>2
<1>4. PICK f : f \in Up(N)
  BY <1>3 DEF P
<1> QED BY <1>4 DEF Recursive

-----------------------------------------------------------------------------
(* The stream.                                                             *)

LEMMA Parameters ==
  /\ Packets \in Nat /\ Packets > 0
  /\ \A p \in 1 .. Packets : Size[p] \in Nat /\ Size[p] > 0
  /\ \A kind \in {"conn", "data"} : HeadSize[kind] \in Nat /\ HeadSize[kind] > 0
BY StreamAssumption

LEMMA FunctionIsSeq ==
  ASSUME NEW S, NEW n \in Nat, NEW f \in [1 .. n -> S]
  PROVE  f \in Seq(S) /\ Len(f) = n
<1>1. f \in Seq(S)
  BY SeqDef
<1>2. DOMAIN f = 1 .. Len(f) /\ DOMAIN f = 1 .. n /\ Len(f) \in Nat
  BY <1>1, LenProperties
<1> QED BY <1>1, <1>2

LEMMA PacketBytes ==
  ASSUME NEW p \in 1 .. Packets
  PROVE  /\ Bytes(p) \in Seq(Byte) /\ Len(Bytes(p)) = Size[p]
         /\ \A k \in 1 .. Size[p] : Bytes(p)[k] = <<p, k, FALSE>>
<1>1. ASSUME NEW k \in 1 .. Size[p]
      PROVE  <<p, k, FALSE>> \in Byte
  <2>1. p \in Nat /\ k \in Nat /\ FALSE \in BOOLEAN
    BY Parameters
  <2> QED BY <2>1 DEF Byte
<1>2. Bytes(p) \in [1 .. Size[p] -> Byte]
  BY <1>1 DEF Bytes
<1>3. Size[p] \in Nat
  BY Parameters
<1>4. Bytes(p) \in Seq(Byte) /\ Len(Bytes(p)) = Size[p]
  BY <1>2, <1>3, FunctionIsSeq
<1> QED BY <1>4 DEF Bytes

\* Packet by packet: what is sent, and where each packet ends.
LEMMA SentSteps ==
  /\ \A p \in 0 .. Packets : Sent[p] \in Seq(Byte) /\ Off(p) \in Nat
  /\ Sent[0] = <<>> /\ Off(0) = 0
  /\ \A p \in 1 .. Packets : Sent[p] = Sent[p - 1] \o Bytes(p) /\ Off(p) = Off(p - 1) + Size[p]
<1> DEFINE V == Seq(Byte)
           step == [p \in 1 .. Packets |-> [v \in V |-> v \o Bytes(p)]]
<1>1. <<>> \in V /\ Packets \in Nat
  BY EmptySeq, Parameters
<1>2. step \in [1 .. Packets -> [V -> V]]
  <2>1. \A p \in 1 .. Packets, v \in V : v \o Bytes(p) \in V
    BY PacketBytes, ConcatProperties
  <2> QED BY <2>1
<1> HIDE DEF V
<1>3. PICK f : Recursive(f, Packets, V, <<>>, step)
  <2> HIDE DEF step
  <2> QED BY <1>1, <1>2, Recursion
<1>4. \A p \in 1 .. Packets : f[p] = f[p - 1] \o Bytes(p)
  <2>1. \A p \in 1 .. Packets : p - 1 \in 0 .. Packets
    BY Parameters
  <2>2. \A p \in 1 .. Packets : f[p - 1] \in V
    BY <1>3, <2>1 DEF Recursive
  <2> QED BY <1>3, <2>2 DEF Recursive
<1>5. f = [p \in 0 .. Packets |-> IF p = 0 THEN <<>> ELSE f[p - 1] \o Bytes(p)]
  BY <1>1, <1>3, <1>4 DEF Recursive
<1>6. Sent = [p \in 0 .. Packets |-> IF p = 0 THEN <<>> ELSE Sent[p - 1] \o Bytes(p)]
  BY <1>5 DEF Sent
<1>7. Sent[0] = <<>> /\ \A p \in 1 .. Packets : Sent[p] = Sent[p - 1] \o Bytes(p)
  <2> DEFINE body(p) == IF p = 0 THEN <<>> ELSE Sent[p - 1] \o Bytes(p)
  <2>1. \A p \in 0 .. Packets : Sent[p] = body(p)
    BY <1>6
  <2>2. 0 \in 0 .. Packets /\ \A p \in 1 .. Packets : p \in 0 .. Packets /\ p # 0
    BY <1>1
  <2> QED BY <2>1, <2>2
<1>8. \A p \in 0 .. Packets : Sent[p] \in V
  <2> DEFINE P == {p \in 0 .. Packets : Sent[p] \in V}
  <2>1. 0 \in P
    BY <1>1, <1>7
  <2>2. \A n \in 0 .. Packets - 1 : n \in P => n + 1 \in P
    <3> SUFFICES ASSUME NEW n \in 0 .. Packets - 1, Sent[n] \in V
                 PROVE  n + 1 \in 0 .. Packets /\ Sent[n + 1] \in V
      OBVIOUS
    <3>1. PICK p \in 1 .. Packets : p = n + 1 /\ p - 1 = n
      BY <1>1
    <3>2. Sent[p] = Sent[n] \o Bytes(p)
      BY <1>7, <3>1
    <3>3. Bytes(p) \in V
      BY PacketBytes DEF V
    <3>4. Sent[p] \in V
      BY <3>2, <3>3, ConcatProperties DEF V
    <3> QED BY <1>1, <3>1, <3>4
  <2> HIDE DEF P
  <2>3. \A p \in 0 .. Packets : p \in P
    BY <1>1, <2>1, <2>2, Induction
  <2> QED BY <2>3 DEF P
<1>9. ASSUME NEW p \in 1 .. Packets
      PROVE  Off(p) = Off(p - 1) + Size[p]
  <2>1. Sent[p - 1] \in V
    BY <1>1, <1>8
  <2>2. Bytes(p) \in V /\ Len(Bytes(p)) = Size[p]
    BY PacketBytes DEF V
  <2>3. Len(Sent[p - 1] \o Bytes(p)) = Len(Sent[p - 1]) + Len(Bytes(p))
    BY <2>1, <2>2, ConcatProperties DEF V
  <2> QED BY <1>7, <2>2, <2>3 DEF Off
<1> QED BY <1>7, <1>8, <1>9, LenProperties, EmptySeq DEF V, Off

\* The k-th byte of packet p stands in the stream behind the packets before
\* it, and there are no other bytes.
LEMMA StreamBytes ==
  /\ Stream \in Seq(Byte) /\ Len(Stream) = Off(Packets)
  /\ \A p \in 1 .. Packets : \A k \in 1 .. Size[p] :
        Off(p - 1) + k \in 1 .. Len(Stream) /\ Stream[Off(p - 1) + k] = <<p, k, FALSE>>
  /\ \A i \in 1 .. Len(Stream) :
        \E p \in 1 .. Packets : \E k \in 1 .. Size[p] : i = Off(p - 1) + k
<1> DEFINE At(q, p, k) == Off(p - 1) + k \in 1 .. Off(q) /\ Sent[q][Off(p - 1) + k] = <<p, k, FALSE>>
           P == {q \in 0 .. Packets :
                   /\ \A p \in 1 .. q : \A k \in 1 .. Size[p] : At(q, p, k)
                   /\ \A i \in 1 .. Off(q) : \E p \in 1 .. q : \E k \in 1 .. Size[p] : i = Off(p - 1) + k}
<1>1. 0 \in P
  <2>1. Off(0) = 0 /\ 1 .. 0 = {} /\ 0 \in 0 .. Packets
    BY SentSteps, Parameters
  <2> HIDE DEF At
  <2> QED BY <2>1
<1>2. ASSUME NEW n \in 0 .. Packets - 1, n \in P
      PROVE  n + 1 \in P
  <2>1. PICK q \in 1 .. Packets : q = n + 1 /\ q - 1 = n
    BY Parameters
  <2>2. PICK o \in Nat : o = Off(n)
    BY <2>1, SentSteps, Parameters
  <2>3. Size[q] \in Nat /\ Off(q) = o + Size[q] /\ Sent[n] \in Seq(Byte) /\ Sent[q] = Sent[n] \o Bytes(q)
    <3>1. Off(q) = Off(q - 1) + Size[q] /\ Sent[q] = Sent[q - 1] \o Bytes(q)
      BY SentSteps
    <3>2. Sent[n] \in Seq(Byte) /\ Size[q] \in Nat
      BY <2>1, SentSteps, Parameters
    <3> QED BY <2>1, <2>2, <3>1, <3>2
  <2>4. \A i \in 1 .. o + Size[q] : Sent[q][i] = IF i <= o THEN Sent[n][i] ELSE Bytes(q)[i - o]
    <3>1. Bytes(q) \in Seq(Byte) /\ Len(Bytes(q)) = Size[q] /\ Len(Sent[n]) = o
      BY <2>2, PacketBytes DEF Off
    <3>2. PICK r, t \in Seq(Byte) : r = Sent[n] /\ t = Bytes(q) /\ Len(r) = o /\ Len(t) = Size[q]
      BY <2>3, <3>1
    <3>3. Sent[q] = r \o t /\ \A i \in 1 .. Len(r) + Len(t) : (r \o t)[i] = IF i <= Len(r) THEN r[i] ELSE t[i - Len(r)]
      BY <2>3, <3>2, ConcatProperties
    <3> QED BY <3>2, <3>3
  <2>5. ASSUME NEW p \in 1 .. q, NEW k \in 1 .. Size[p]
        PROVE  At(q, p, k)
    <3>1. CASE p = q
      <4>1. o + k \in 1 .. o + Size[q] /\ ~(o + k <= o) /\ o + k - o = k
        BY <2>3, <3>1
      <4>2. Sent[q][o + k] = Bytes(q)[k]
        BY <2>4, <4>1
      <4>3. Off(p - 1) = o
        BY <2>1, <2>2, <3>1
      <4> QED BY <2>3, <3>1, <4>1, <4>2, <4>3, PacketBytes
    <3>2. CASE p # q
      <4>1. p \in 1 .. n
        BY <2>1, <3>2
      <4>2. At(n, p, k)
        BY <1>2, <4>1
      <4>3. PICK j : j = Off(p - 1) + k
        OBVIOUS
      <4>4. j \in 1 .. o /\ Sent[n][j] = <<p, k, FALSE>>
        BY <2>2, <4>2, <4>3
      <4>5. j \in 1 .. o + Size[q] /\ j <= o
        BY <2>3, <4>4
      <4>6. j \in 1 .. Off(q) /\ Sent[q][j] = <<p, k, FALSE>>
        BY <2>3, <2>4, <4>4, <4>5
      <4> QED BY <4>3, <4>6
    <3> QED BY <3>1, <3>2
  <2>6. ASSUME NEW i \in 1 .. Off(q)
        PROVE  \E p \in 1 .. q : \E k \in 1 .. Size[p] : i = Off(p - 1) + k
    <3>1. CASE i <= o
      <4>1. i \in 1 .. Off(n)
        BY <2>2, <2>3, <3>1
      <4>2. PICK p \in 1 .. n : \E k \in 1 .. Size[p] : i = Off(p - 1) + k
        BY <1>2, <4>1
      <4>3. p \in 1 .. q
        BY <2>1
      <4> QED BY <4>2, <4>3
    <3>2. CASE ~(i <= o)
      <4>1. i - o \in 1 .. Size[q] /\ i = Off(q - 1) + (i - o) /\ q \in 1 .. q
        BY <2>1, <2>2, <2>3, <3>2
      <4> QED BY <4>1
    <3> QED BY <3>1, <3>2
  <2> HIDE DEF At
  <2> QED BY <2>1, <2>5, <2>6
<1> HIDE DEF P
<1>3. Packets \in P
  <2>1. \A n \in 0 .. Packets - 1 : n \in P => n + 1 \in P
    BY <1>2
  <2>2. \A n \in 0 .. Packets : n \in P
    BY <1>1, <2>1, Parameters, Induction
  <2> QED BY <2>2, Parameters
<1> QED BY <1>3, SentSteps, Parameters DEF P, Stream, Off

\* Packets end one behind another.
LEMMA OffGrows == \A p, q \in 0 .. Packets : p < q => Off(p) < Off(q)
<1> DEFINE P == {q \in 0 .. Packets : \A p \in 0 .. q : p < q => Off(p) < Off(q)}
<1>1. 0 \in P
  BY Parameters
<1>2. ASSUME NEW n \in 0 .. Packets - 1, n \in P
      PROVE  n + 1 \in P
  <2>1. PICK q \in 1 .. Packets : q = n + 1 /\ q - 1 = n
    BY Parameters
  <2>2. Off(q) = Off(n) + Size[q] /\ Size[q] \in Nat /\ Size[q] > 0
    BY <2>1, SentSteps, Parameters
  <2>3. ASSUME NEW p \in 0 .. q, p < q
        PROVE  Off(p) < Off(q)
    <3>1. p \in 0 .. n /\ p \in 0 .. Packets /\ n \in 0 .. Packets
      BY <2>1, <2>3, Parameters
    <3>2. Off(p) \in Nat /\ Off(n) \in Nat
      BY <3>1, SentSteps
    <3>3. CASE p = n
      BY <2>2, <3>2, <3>3
    <3>4. CASE p # n
      BY <1>2, <2>2, <3>1, <3>2, <3>4
    <3> QED BY <3>3, <3>4
  <2> QED BY <2>1, <2>3
<1> HIDE DEF P
<1>3. \A n \in 0 .. Packets - 1 : n \in P => n + 1 \in P
  BY <1>2
<1>4. \A n \in 0 .. Packets : n \in P
  BY <1>1, <1>3, Parameters, Induction
<1> QED BY <1>4, Parameters DEF P

\* What begins with the first byte of packet p stands behind packet p - 1.
LEMMA PacketAt ==
  ASSUME NEW d \in 0 .. Packets, NEW p \in 1 .. Packets, Off(d) < Len(Stream),
         Stream[Off(d) + 1][1] = p, Stream[Off(d) + 1][2] = 1
  PROVE  p = d + 1
<1>1. Off(d) \in Nat /\ Off(p - 1) \in Nat /\ p - 1 \in 0 .. Packets /\ Len(Stream) \in Nat
  BY SentSteps, StreamBytes, Parameters
<1>2. PICK i : i = Off(d) + 1
  OBVIOUS
<1>3. i \in 1 .. Len(Stream)
  BY <1>1, <1>2
<1>4. PICK q \in 1 .. Packets : \E k \in 1 .. Size[q] : i = Off(q - 1) + k
  BY <1>3, StreamBytes
<1>5. PICK k \in 1 .. Size[q] : i = Off(q - 1) + k
  BY <1>4
<1>6. Stream[i] = <<q, k, FALSE>>
  BY <1>5, StreamBytes
<1>7. q = p /\ k = 1
  BY <1>2, <1>6
<1>8. Off(p - 1) = Off(d)
  BY <1>1, <1>2, <1>5, <1>7
<1> QED BY <1>1, <1>8, OffGrows, Parameters

\* Packet d + 1 stands in the stream behind packet d.
LEMMA StreamPacket ==
  ASSUME NEW d \in 0 .. Packets, NEW p \in 1 .. Packets, p = d + 1
  PROVE  /\ Off(p) = Off(d) + Size[p] /\ Off(d) \in Nat /\ Off(p) <= Len(Stream)
         /\ \A k \in 1 .. Size[p] : Stream[Off(d) + k] = <<p, k, FALSE>>
<1>1. p - 1 = d /\ Size[p] \in Nat /\ Size[p] > 0
  BY Parameters
<1>2. Off(p) = Off(d) + Size[p] /\ Off(d) \in Nat /\ Off(p) \in Nat /\ Off(Packets) \in Nat
  BY <1>1, SentSteps, Parameters
<1>3. Len(Stream) = Off(Packets) /\ \A k \in 1 .. Size[p] : Stream[Off(d) + k] = <<p, k, FALSE>>
  BY <1>1, StreamBytes
<1>4. Off(p) <= Off(Packets)
  BY <1>2, OffGrows, Parameters
<1> QED BY <1>2, <1>3, <1>4

\* What is due, packet by packet.
LEMMA DueSteps ==
  /\ Due[0] = <<>> /\ \A p \in 0 .. Packets : Due[p] \in Seq(Byte)
  /\ \A p \in 1 .. Packets :
        Due[p] = IF Kind(p) = "conn" \/ p \in away THEN Due[p - 1] ELSE Due[p - 1] \o Passed(p)
  /\ \A p \in 1 .. Packets : Passed(p) \in Seq(Byte) /\ Len(Passed(p)) = Size[p]
<1> DEFINE V == Seq(Byte)
           step == [p \in 1 .. Packets |-> [v \in V |-> IF Kind(p) = "conn" \/ p \in away THEN v ELSE v \o Passed(p)]]
<1>1. <<>> \in V /\ Packets \in Nat
  BY EmptySeq, Parameters
<1>2. ASSUME NEW p \in 1 .. Packets
      PROVE  Passed(p) \in V /\ Len(Passed(p)) = Size[p]
  <2>1. ASSUME NEW k \in 1 .. Size[p]
        PROVE  <<p, k, peer = "client" /\ k \in AddrAt>> \in Byte
    <3>1. p \in Nat /\ k \in Nat /\ (peer = "client" /\ k \in AddrAt) \in BOOLEAN
      BY Parameters
    <3> QED BY <3>1, Zenon DEF Byte
  <2>2. Passed(p) \in [1 .. Size[p] -> Byte]
    BY <2>1 DEF Passed
  <2> QED BY <2>2, FunctionIsSeq, Parameters
<1>3. \A p \in 1 .. Packets, v \in V : v \o Passed(p) \in V
  BY <1>2, ConcatProperties
<1> HIDE DEF V
<1>4. step \in [1 .. Packets -> [V -> V]]
  BY <1>3
<1>5. PICK f : Recursive(f, Packets, V, <<>>, step)
  <2> HIDE DEF step
  <2> QED BY <1>1, <1>4, Recursion
<1>6. ASSUME NEW p \in 1 .. Packets
      PROVE  f[p - 1] \in V /\ f[p] = IF Kind(p) = "conn" \/ p \in away THEN f[p - 1] ELSE f[p - 1] \o Passed(p)
  <2>1. p - 1 \in 0 .. Packets
    BY Parameters
  <2>2. f[p - 1] \in V
    BY <1>5, <2>1 DEF Recursive
  <2> QED BY <1>5, <2>2 DEF Recursive
<1>7. f = [p \in 0 .. Packets |->
             IF p = 0 THEN <<>>
             ELSE IF Kind(p) = "conn" \/ p \in away THEN f[p - 1] ELSE f[p - 1] \o Passed(p)]
  <2> DEFINE atF(p) == IF p = 0 THEN <<>>
                         ELSE IF Kind(p) = "conn" \/ p \in away THEN f[p - 1] ELSE f[p - 1] \o Passed(p)
  <2>1. ASSUME NEW p \in 0 .. Packets
        PROVE  f[p] = atF(p)
    <3>1. CASE p = 0
      BY <1>5, <3>1 DEF Recursive
    <3>2. CASE p \in 1 .. Packets
      BY <1>6, <3>2
    <3> QED BY <1>1, <3>1, <3>2
  <2>2. f = [p \in 0 .. Packets |-> f[p]]
    BY <1>5 DEF Recursive
  <2> HIDE DEF atF
  <2>3. f = [p \in 0 .. Packets |-> atF(p)]
    BY <2>1, <2>2
  <2> QED BY <2>3 DEF atF
<1>8. Due = [p \in 0 .. Packets |->
               IF p = 0 THEN <<>>
               ELSE IF Kind(p) = "conn" \/ p \in away THEN Due[p - 1] ELSE Due[p - 1] \o Passed(p)]
  BY <1>7 DEF Due
<1> DEFINE body(p) == IF p = 0 THEN <<>>
                      ELSE IF Kind(p) = "conn" \/ p \in away THEN Due[p - 1] ELSE Due[p - 1] \o Passed(p)
<1>9. \A p \in 0 .. Packets : Due[p] = body(p)
  BY <1>8
<1>10. 0 \in 0 .. Packets /\ \A p \in 1 .. Packets : p \in 0 .. Packets /\ p # 0
  BY <1>1
<1>11. /\ Due[0] = <<>>
       /\ \A p \in 1 .. Packets :
            Due[p] = IF Kind(p) = "conn" \/ p \in away THEN Due[p - 1] ELSE Due[p - 1] \o Passed(p)
  BY <1>9, <1>10
<1>12. \A p \in 0 .. Packets : Due[p] \in V
  <2> DEFINE P == {p \in 0 .. Packets : Due[p] \in V}
  <2>1. 0 \in P
    BY <1>1, <1>11
  <2>2. \A n \in 0 .. Packets - 1 : n \in P => n + 1 \in P
    <3> SUFFICES ASSUME NEW n \in 0 .. Packets - 1, Due[n] \in V
                 PROVE  n + 1 \in 0 .. Packets /\ Due[n + 1] \in V
      OBVIOUS
    <3>1. PICK p \in 1 .. Packets : p = n + 1 /\ p - 1 = n
      BY <1>1
    <3>2. Due[p] = Due[n] \/ Due[p] = Due[n] \o Passed(p)
      BY <1>11, <3>1
    <3>3. Due[p] \in V
      BY <1>3, <3>2
    <3> QED BY <1>1, <3>1, <3>3
  <2> HIDE DEF P
  <2>3. \A p \in 0 .. Packets : p \in P
    BY <1>1, <2>1, <2>2, Induction
  <2> QED BY <2>3 DEF P
<1> QED BY <1>2, <1>11, <1>12 DEF V

LEMMA DueSame ==
  ASSUME peer' = peer, away' = away
  PROVE  Due' = Due /\ \A p : Passed(p)' = Passed(p)
BY DEF Due, Kind, Passed

-----------------------------------------------------------------------------
(* The invariant.                                                          *)

TypeInv ==
    /\ peer \in {"client", "server", "owned"} /\ read \in 0 .. Len(Stream)
    /\ heap \in Seq(Seq(Byte))
    /\ reader \in {"read", "check", "gone"} /\ loop \in {"loop", "mark", "forward", "ended"}
    /\ isConn \in BOOLEAN /\ IsConn \in BOOLEAN
    /\ datas \in Slice /\ data \in Slice /\ readChan \in Seq(Slice) /\ next \in Seq(Slice)

Within(s) == s.array \in 1 .. Len(heap) /\ s.from >= 1 /\ s.from + s.len - 1 <= Len(heap[s.array])

At(s, k) == heap[s.array][s.from + k - 1]      \* the k-th byte of a slice

(* A slice is packet p, marked or as it was sent, and stands before what   *)
(* SkpRead still writes to.                                                *)
Holds(s, p, marked) ==
    /\ s \in Slice /\ p \in 1 .. Packets
    /\ Within(s) /\ s.len = Size[p] /\ HeadSize[Kind(p)] <= Size[p]
    /\ s.array = datas.array => s.from + s.len <= datas.from
    /\ \A k \in 1 .. Size[p] : At(s, k) = <<p, k, marked /\ peer = "client" /\ k \in AddrAt>>

\* Packets up to d have left Datas, which has the bytes read behind them.
DatasInv(d) ==
    /\ Within(datas) /\ read = Off(d) + datas.len
    /\ \A k \in 1 .. datas.len : At(datas, k) = Stream[Off(d) + k]

InHand == IF loop \in {"mark", "forward"} THEN 1 ELSE 0

(* Packet idx[i] is what the i-th slice for the other socket holds, and    *)
(* idx[0] the last one it has written; what is due up to one of them is    *)
(* what is due up to the one before it, and it.                            *)
Follows(idx, i, w) ==
    /\ idx[i] <= w
    /\ Due[idx[i]] = Due[idx[i - 1]] \o Passed(idx[i])

(* Packets up to w have been handled, and those that are due are in the    *)
(* channel of the other socket or written; the next one may be in the run  *)
(* loop's hands, those up to d in ReadChan; but a run loop that ended      *)
(* leaves a gap.  No two of these slices overlap, since their bytes tell   *)
(* which packet they are of.                                               *)
FlowInv(idx, w, d) ==
    /\ idx \in [0 .. Len(next) -> 0 .. Packets]
    /\ out = Due[idx[0]] /\ Due[w] = Due[idx[Len(next)]]
    /\ \A i \in 1 .. Len(next) : Holds(next[i], idx[i], TRUE) /\ Follows(idx, i, w)
    /\ loop = "mark" => Holds(data, w + 1, FALSE) /\ Kind(w + 1) = "data"
    /\ loop = "forward" => Holds(data, w + 1, TRUE) /\ Kind(w + 1) = "data"
    /\ loop # "ended" => w + InHand + Len(readChan) = d
    /\ \A i \in 1 .. Len(readChan) : Holds(readChan[i], d - Len(readChan) + i, FALSE)
    /\ DatasInv(d)

SInv ==
    /\ TypeInv
    /\ \E w, d \in 0 .. Packets :
          \E idx \in [0 .. Len(next) -> 0 .. Packets] : FlowInv(idx, w, d)

-----------------------------------------------------------------------------
(* Slices.                                                                 *)

LEMMA KindIs == ASSUME NEW p PROVE Kind(p) \in {"conn", "data"}
BY DEF Kind

LEMMA ContentIs ==
  ASSUME TypeInv, NEW s \in Slice, Within(s)
  PROVE  /\ Content(s) \in Seq(Byte) /\ Len(Content(s)) = s.len
         /\ \A k \in 1 .. s.len : Content(s)[k] = At(s, k)
<1> DEFINE array == heap[s.array]
           last  == s.from + s.len - 1
<1>1. s.from \in Int /\ last \in Int /\ s.len \in Nat /\ s.from >= 1 /\ last <= Len(array)
  BY DEF Slice, Within
<1>2. array \in Seq(Byte)
  BY DEF TypeInv, Within
<1>3. \A i \in s.from .. last : array[i] \in Byte
  BY <1>1, <1>2
<1> HIDE DEF array
<1>4. /\ SubSeq(array, s.from, last) \in Seq(Byte)
      /\ Len(SubSeq(array, s.from, last)) = IF s.from <= last THEN last - s.from + 1 ELSE 0
      /\ \A k \in 1 .. last - s.from + 1 : SubSeq(array, s.from, last)[k] = array[s.from + k - 1]
  BY <1>1, <1>3, SubSeqProperties
<1>5. last - s.from + 1 = s.len
  BY <1>1
<1> HIDE DEF last
<1>6. s.from <= last <=> s.len > 0
  BY <1>1, <1>5
<1>7. Len(SubSeq(array, s.from, last)) = s.len
  BY <1>1, <1>4, <1>5, <1>6
<1> QED BY <1>4, <1>5, <1>7 DEF array, last, Content, At

\* SkpCheck finds the packet whose bytes stand at the beginning.
LEMMA CheckedBytes ==
  ASSUME TypeInv, NEW s \in Slice, Within(s), NEW kind \in {"conn", "data"}, NEW p \in 1 .. Packets,
         SkpCheck(Content(s), kind, p)
  PROVE  /\ Kind(p) = kind /\ HeadSize[kind] <= s.len /\ Size[p] <= s.len
         /\ HeadSize[kind] \in Nat /\ HeadSize[kind] > 0
         /\ \A k \in 1 .. HeadSize[kind] : At(s, k)[1] = p /\ At(s, k)[2] = k
<1>1. /\ Len(Content(s)) = s.len /\ s.len \in Nat
      /\ \A k \in 1 .. s.len : Content(s)[k] = At(s, k)
  BY ContentIs DEF Slice
<1>2. HeadSize[kind] \in Nat /\ HeadSize[kind] > 0
  BY Parameters
<1>3. Kind(p) = kind /\ HeadSize[kind] <= s.len /\ Size[p] <= s.len
  BY <1>1 DEF SkpCheck
<1>4. ASSUME NEW k \in 1 .. HeadSize[kind]
      PROVE  At(s, k)[1] = p /\ At(s, k)[2] = k
  <2>1. k \in 1 .. s.len
    BY <1>1, <1>2, <1>3
  <2>2. <<Content(s)[k][1], Content(s)[k][2]>> = <<p, k>>
    BY DEF SkpCheck
  <2> QED BY <1>1, <2>1, <2>2
<1> QED BY <1>2, <1>3, <1>4

\* What is whole in Datas is the packet behind those that left it.
LEMMA WholeIsNext ==
  ASSUME TypeInv, NEW d \in 0 .. Packets, DatasInv(d), NEW p \in 1 .. Packets, Whole(p)
  PROVE  p = d + 1 /\ HeadSize[Kind(p)] <= Size[p] /\ Size[p] <= datas.len
<1> DEFINE kind == Expected(isConn)
<1>1. /\ datas \in Slice /\ Within(datas) /\ kind \in {"conn", "data"}
      /\ read \in 0 .. Len(Stream) /\ Len(Stream) \in Nat
  BY StreamBytes, LenProperties DEF TypeInv, DatasInv, Expected
<1> DEFINE h == HeadSize[kind]
<1>2. /\ Kind(p) = kind /\ h <= datas.len /\ Size[p] <= datas.len /\ h \in Nat /\ h > 0
      /\ \A k \in 1 .. h : At(datas, k)[1] = p /\ At(datas, k)[2] = k
  BY <1>1, CheckedBytes DEF Whole
<1> HIDE DEF h, kind
<1>3. PICK o \in Nat : o = Off(d)
  BY SentSteps
<1>4. /\ datas.len \in Nat /\ o + datas.len <= Len(Stream)
      /\ \A k \in 1 .. datas.len : At(datas, k) = Stream[o + k]
  BY <1>1, <1>3 DEF DatasInv, Slice
<1>5. ASSUME NEW k \in 1 .. h
      PROVE  Stream[o + k][1] = p /\ Stream[o + k][2] = k /\ o + k \in 1 .. Len(Stream)
  <2>1. k \in 1 .. datas.len
    BY <1>2, <1>4
  <2>2. o + k \in 1 .. Len(Stream)
    BY <1>1, <1>3, <1>4, <2>1
  <2>3. At(datas, k) = Stream[o + k]
    BY <1>4, <2>1
  <2> QED BY <1>2, <2>2, <2>3
<1>6. p = d + 1
  <2>1. Stream[o + 1][1] = p /\ Stream[o + 1][2] = 1 /\ o < Len(Stream)
    <3>1. 1 \in 1 .. h
      BY <1>2
    <3>2. o + 1 \in 1 .. Len(Stream) /\ Stream[o + 1][1] = p /\ Stream[o + 1][2] = 1
      BY <1>5, <3>1
    <3> QED BY <1>1, <1>3, <3>2
  <2> QED BY <1>3, <2>1, PacketAt
<1>7. h <= Size[p]
  <2> SUFFICES ASSUME h > Size[p]
               PROVE  FALSE
    BY <1>2, Parameters
  <2>1. PICK k \in 1 .. h : k = Size[p] + 1
    BY <1>2, Parameters
  <2>2. PICK i \in 1 .. Len(Stream) : i = o + k
    BY <1>5
  <2>3. PICK q \in 1 .. Packets : \E j \in 1 .. Size[q] : i = Off(q - 1) + j
    BY StreamBytes
  <2>4. PICK j \in 1 .. Size[q] : i = Off(q - 1) + j
    BY <2>3
  <2>5. Stream[i] = <<q, j, FALSE>>
    BY <2>4, StreamBytes
  <2>6. q = p /\ j = k
    BY <1>5, <2>2, <2>5
  <2> QED BY <2>1, <2>4, <2>6, Parameters
<1> QED BY <1>2, <1>6, <1>7 DEF h

LEMMA SameHolds ==
  ASSUME heap' = heap, datas' = datas, peer' = peer
  PROVE  \A s, p, m : Holds(s, p, m)' <=> Holds(s, p, m)
BY DEF Holds, Within, At, Kind

\* What changes neither memory nor Datas changes no slice.
LEMMA SameDatas ==
  ASSUME heap' = heap, datas' = datas, read' = read
  PROVE  \A d : DatasInv(d)' <=> DatasInv(d)
BY DEF DatasInv, Within, At, Off

-----------------------------------------------------------------------------
(* The steps of the run loops.                                             *)

LEMMA QuietKeeps ==
  ASSUME SInv, ReadFails \/ ReadOn \/ UNCHANGED vars
  PROVE  SInv'
<1>1. /\ UNCHANGED <<peer, away, read, heap, datas, isConn, readChan, loop, data, IsConn, next, out>>
      /\ reader' \in {"read", "check", "gone"}
  BY DEF ReadFails, ReadOn, vars, SInv, TypeInv
<1>2. TypeInv'
  BY <1>1 DEF SInv, TypeInv
<1>3. PICK w, d \in 0 .. Packets, idx \in [0 .. Len(next) -> 0 .. Packets] : FlowInv(idx, w, d)
  BY DEF SInv
<1>4. FlowInv(idx, w, d)'
  BY <1>1, <1>3, DueSame, SameHolds, SameDatas DEF FlowInv, Follows, Kind, InHand
<1> QED BY <1>1, <1>2, <1>3, <1>4 DEF SInv

LEMMA EndLoopKeeps ==
  ASSUME SInv, EndLoop
  PROVE  SInv'
<1>1. /\ UNCHANGED <<peer, away, read, heap, datas, reader, isConn, readChan, data, IsConn, next, out>>
      /\ loop' = "ended"
  BY DEF EndLoop
<1>2. TypeInv'
  BY <1>1 DEF SInv, TypeInv
<1>3. PICK w, d \in 0 .. Packets, idx \in [0 .. Len(next) -> 0 .. Packets] : FlowInv(idx, w, d)
  BY DEF SInv
<1>4. FlowInv(idx, w, d)'
  BY <1>1, <1>3, DueSame, SameHolds, SameDatas DEF FlowInv, Follows, Kind, InHand
<1> QED BY <1>1, <1>2, <1>3, <1>4 DEF SInv

LEMMA SkpDataKeeps ==
  ASSUME SInv, SkpData
  PROVE  SInv'
<1>1. /\ UNCHANGED <<peer, away, read, heap, datas, reader, isConn, readChan, data, IsConn, out>>
      /\ loop = "forward" /\ loop' = "loop"
      /\ LET p == Content(data)[1][1] IN
         \/ p \in away /\ next' = next
         \/ p \notin away /\ next' = Append(next, data)
  BY DEF SkpData
<1>2. TypeInv /\ next \in Seq(Slice) /\ data \in Slice /\ Len(next) \in Nat /\ Len(readChan) \in Nat
  BY LenProperties DEF SInv, TypeInv
<1>3. PICK w, d \in 0 .. Packets, idx \in [0 .. Len(next) -> 0 .. Packets] : FlowInv(idx, w, d)
  BY DEF SInv
<1>4. PICK p : p = w + 1
  OBVIOUS
<1>5. Holds(data, p, TRUE) /\ Kind(p) = "data" /\ p + Len(readChan) = d /\ p \in 1 .. Packets
  BY <1>1, <1>3, <1>4 DEF FlowInv, InHand, Holds
<1>6. Content(data)[1][1] = p
  <2>1. /\ Within(data) /\ data.len = Size[p] /\ Size[p] \in Nat \ {0}
        /\ \A k \in 1 .. Size[p] : At(data, k) = <<p, k, TRUE /\ peer = "client" /\ k \in AddrAt>>
    BY <1>5, Parameters DEF Holds
  <2>2. 1 \in 1 .. Size[p]
    BY <2>1
  <2>3. Content(data)[1] = At(data, 1)
    BY <1>2, <2>1, <2>2, ContentIs
  <2>4. At(data, 1)[1] = p
    BY <2>1, <2>2
  <2> QED BY <2>3, <2>4
<1>7. /\ Due[p] = IF p \in away THEN Due[w] ELSE Due[w] \o Passed(p)
      /\ Due' = Due /\ (\A q : Passed(q)' = Passed(q)) /\ Due[w] = Due[idx[Len(next)]] /\ out = Due[idx[0]]
  <2>1. Due[p] = IF Kind(p) = "conn" \/ p \in away THEN Due[p - 1] ELSE Due[p - 1] \o Passed(p)
    BY <1>5, DueSteps
  <2>2. p - 1 = w /\ Kind(p) # "conn"
    BY <1>4, <1>5, Parameters
  <2> QED BY <1>1, <1>3, <2>1, <2>2, DueSame DEF FlowInv
<1>8. \A s, q, m : Holds(s, q, m)' <=> Holds(s, q, m)
  BY <1>1, SameHolds
<1>9. /\ \A i \in 1 .. Len(readChan) : Holds(readChan[i], d - Len(readChan) + i, FALSE)'
      /\ DatasInv(d)' /\ p + InHand' + Len(readChan') = d
  <2>1. DatasInv(d)' /\ \A i \in 1 .. Len(readChan) : Holds(readChan[i], d - Len(readChan) + i, FALSE)'
    BY <1>1, <1>3, <1>8, SameDatas DEF FlowInv
  <2>2. InHand' = 0 /\ readChan' = readChan
    BY <1>1 DEF InHand
  <2> QED BY <1>2, <1>5, <2>1, <2>2
<1>10. \A i \in 1 .. Len(next) : Holds(next[i], idx[i], TRUE) /\ idx[i] <= p
                                 /\ Due[idx[i]] = Due[idx[i - 1]] \o Passed(idx[i])
  <2> SUFFICES ASSUME NEW i \in 1 .. Len(next)
               PROVE  Holds(next[i], idx[i], TRUE) /\ idx[i] <= p
                      /\ Due[idx[i]] = Due[idx[i - 1]] \o Passed(idx[i])
    OBVIOUS
  <2>1. Holds(next[i], idx[i], TRUE) /\ idx[i] <= w /\ Due[idx[i]] = Due[idx[i - 1]] \o Passed(idx[i])
    BY <1>3 DEF FlowInv, Follows
  <2>2. idx[i] \in Nat /\ w \in Nat
    BY <1>2, <1>3, Parameters
  <2>3. idx[i] <= p
    BY <1>4, <2>1, <2>2
  <2> QED BY <2>1, <2>3
<1>11. CASE p \in away
  <2>1. next' = next
    BY <1>1, <1>6, <1>11
  <2>2. TypeInv'
    BY <1>1, <1>2, <2>1 DEF TypeInv
  <2>3. FlowInv(idx, p, d)'
    BY <1>1, <1>3, <1>7, <1>8, <1>9, <1>10, <1>11, <2>1 DEF FlowInv, Follows
  <2> QED BY <1>3, <1>5, <2>1, <2>2, <2>3 DEF SInv
<1>12. CASE p \notin away
  <2>1. next' = Append(next, data)
    BY <1>1, <1>6, <1>12
  <2>2. /\ next' \in Seq(Slice) /\ Len(next') = Len(next) + 1
        /\ next'[Len(next) + 1] = data /\ \A i \in 1 .. Len(next) : next'[i] = next[i]
    BY <1>2, <2>1, AppendProperties
  <2>3. TypeInv'
    BY <1>1, <1>2, <2>2 DEF TypeInv
  <2>4. PICK l \in Nat : l = Len(next) /\ Len(next') = l + 1
    BY <1>2, <2>2
  <2>5. PICK j : j = [i \in 0 .. l + 1 |-> IF i = l + 1 THEN p ELSE idx[i]]
    OBVIOUS
  <2>6. /\ j \in [0 .. l + 1 -> 0 .. Packets] /\ j[l + 1] = p
        /\ \A i \in 0 .. l : j[i] = idx[i]
    <3>1. p \in 0 .. Packets
      BY <1>5
    <3> QED BY <1>3, <2>4, <2>5, <3>1
  <2>7. j[0] = idx[0] /\ Due[p] = Due[j[l]] \o Passed(p)
    <3>1. 0 \in 0 .. l /\ l \in 0 .. l
      OBVIOUS
    <3>2. j[0] = idx[0] /\ j[l] = idx[Len(next)]
      BY <2>4, <2>6, <3>1
    <3>3. Due[p] = Due[idx[Len(next)]] \o Passed(p)
      BY <1>7, <1>12
    <3> QED BY <3>2, <3>3
  <2>8. ASSUME NEW i \in 1 .. l + 1
        PROVE  Holds(next'[i], j[i], TRUE) /\ j[i] <= p /\ Due[j[i]] = Due[j[i - 1]] \o Passed(j[i])
    <3>1. CASE i = l + 1
      <4>1. j[i] = p /\ i - 1 = l /\ next'[i] = data /\ p <= p
        BY <1>5, <2>2, <2>4, <2>6, <3>1
      <4> QED BY <1>5, <2>7, <4>1
    <3>2. CASE i # l + 1
      <4>1. i \in 1 .. l /\ i - 1 \in 0 .. l /\ i \in 0 .. l
        BY <3>2
      <4>2. j[i] = idx[i] /\ j[i - 1] = idx[i - 1] /\ next'[i] = next[i]
        BY <2>2, <2>4, <2>6, <4>1
      <4> QED BY <1>10, <2>4, <4>1, <4>2
    <3> QED BY <3>1, <3>2
  <2>9. \A i \in 1 .. Len(next') : Holds(next[i], j[i], TRUE)' /\ Follows(j, i, p)'
    BY <1>7, <1>8, <2>4, <2>8 DEF Follows
  <2>10. FlowInv(j, p, d)'
    BY <1>1, <1>7, <1>9, <2>4, <2>6, <2>7, <2>9 DEF FlowInv
  <2>11. j \in [0 .. Len(next') -> 0 .. Packets] /\ p \in 0 .. Packets
    BY <1>5, <2>4, <2>6
  <2> QED BY <2>3, <2>10, <2>11 DEF SInv
<1> QED BY <1>11, <1>12

LEMMA NextWritesKeeps ==
  ASSUME SInv, NextWrites
  PROVE  SInv'
<1>1. /\ UNCHANGED <<peer, away, read, heap, datas, reader, isConn, readChan, loop, data, IsConn>>
      /\ next # <<>> /\ out' = out \o Content(Head(next)) /\ next' = Tail(next)
  BY DEF NextWrites
<1>2. TypeInv /\ next \in Seq(Slice)
  BY DEF SInv, TypeInv
<1>3. /\ next' \in Seq(Slice) /\ Len(next') = Len(next) - 1 /\ Len(next) \in Nat \ {0}
      /\ Head(next) = next[1] /\ \A i \in 1 .. Len(next') : next'[i] = next[i + 1]
  BY <1>1, <1>2, HeadTailProperties, EmptySeq
<1>4. TypeInv'
  BY <1>1, <1>2, <1>3 DEF TypeInv
<1>5. PICK w, d \in 0 .. Packets, idx \in [0 .. Len(next) -> 0 .. Packets] : FlowInv(idx, w, d)
  BY DEF SInv
<1>6. PICK l \in Nat : Len(next) = l + 1 /\ Len(next') = l
  BY <1>3
<1>7. /\ out = Due[idx[0]] /\ Due[w] = Due[idx[l + 1]]
      /\ \A i \in 1 .. l + 1 : /\ Holds(next[i], idx[i], TRUE) /\ idx[i] <= w
                              /\ Due[idx[i]] = Due[idx[i - 1]] \o Passed(idx[i])
  BY <1>5, <1>6 DEF FlowInv, Follows
<1>8. PICK p : p = idx[1]
  OBVIOUS
<1>9. Holds(next[1], p, TRUE) /\ Due[p] = out \o Passed(p) /\ p \in 1 .. Packets
  <2>1. 1 \in 1 .. l + 1 /\ 1 - 1 = 0
    OBVIOUS
  <2>2. Holds(next[1], idx[1], TRUE) /\ Due[idx[1]] = Due[idx[1 - 1]] \o Passed(idx[1])
    BY <1>7, <2>1
  <2> QED BY <1>7, <1>8, <2>1, <2>2 DEF Holds
<1>10. Due' = Due /\ \A q : Passed(q)' = Passed(q)
  BY <1>1, DueSame
<1>11. out' = Due[p]
  <2> DEFINE s == next[1]
  <2>1. /\ s \in Slice /\ Within(s) /\ s.len = Size[p]
        /\ \A k \in 1 .. Size[p] : At(s, k) = <<p, k, TRUE /\ peer = "client" /\ k \in AddrAt>>
    BY <1>9 DEF Holds
  <2> HIDE DEF s
  <2>2. /\ Content(s) \in Seq(Byte) /\ Len(Content(s)) = s.len
        /\ \A k \in 1 .. s.len : Content(s)[k] = At(s, k)
    BY <1>2, <2>1, ContentIs
  <2>3. Passed(p) \in Seq(Byte) /\ Len(Passed(p)) = Size[p]
    BY <1>9, DueSteps
  <2>4. \A k \in 1 .. Size[p] : Content(s)[k] = Passed(p)[k]
    BY <2>1, <2>2 DEF Passed
  <2>5. Content(s) = Passed(p)
    BY <2>1, <2>2, <2>3, <2>4, SeqEqual
  <2> QED BY <1>1, <1>3, <1>9, <2>5 DEF s
<1>12. PICK j : j = [i \in 0 .. l |-> idx[i + 1]]
  OBVIOUS
<1>13. /\ j \in [0 .. l -> 0 .. Packets] /\ j[0] = p /\ j[l] = idx[l + 1]
       /\ \A i \in 0 .. l : j[i] = idx[i + 1]
  <2>1. \A i \in 0 .. l : i + 1 \in 0 .. Len(next)
    BY <1>6
  <2> QED BY <1>5, <1>8, <1>12, <2>1
<1>14. ASSUME NEW i \in 1 .. l
       PROVE  Holds(next'[i], j[i], TRUE) /\ j[i] <= w /\ Due[j[i]] = Due[j[i - 1]] \o Passed(j[i])
  <2>1. i + 1 \in 1 .. l + 1 /\ i \in 0 .. l /\ i - 1 \in 0 .. l /\ (i + 1) - 1 = i /\ (i - 1) + 1 = i
    OBVIOUS
  <2>2. j[i] = idx[i + 1] /\ j[i - 1] = idx[i] /\ next'[i] = next[i + 1]
    BY <1>3, <1>6, <1>13, <2>1
  <2>3. /\ Holds(next[i + 1], idx[i + 1], TRUE) /\ idx[i + 1] <= w
        /\ Due[idx[i + 1]] = Due[idx[(i + 1) - 1]] \o Passed(idx[i + 1])
    BY <1>7, <2>1
  <2> QED BY <2>1, <2>2, <2>3
<1>15. \A s, q, m : Holds(s, q, m)' <=> Holds(s, q, m)
  BY <1>1, SameHolds
<1>16. FlowInv(j, w, d)'
  <2>1. \A i \in 1 .. Len(next') : Holds(next[i], j[i], TRUE)' /\ Follows(j, i, w)'
    BY <1>6, <1>10, <1>14, <1>15 DEF Follows
  <2>2. \A i \in 1 .. Len(readChan) : Holds(readChan[i], d - Len(readChan) + i, FALSE)'
    BY <1>1, <1>5, <1>15 DEF FlowInv
  <2>3. /\ loop = "mark" => Holds(data, w + 1, FALSE)' /\ Kind(w + 1)' = "data"
        /\ loop = "forward" => Holds(data, w + 1, TRUE)' /\ Kind(w + 1)' = "data"
    BY <1>1, <1>5, <1>15 DEF FlowInv, Kind
  <2>4. DatasInv(d)' /\ (loop' # "ended" => w + InHand' + Len(readChan') = d)
    BY <1>1, <1>5, SameDatas DEF FlowInv, InHand
  <2>5. out' = Due'[j[0]] /\ Due'[w] = Due'[j[Len(next')]] /\ j \in [0 .. Len(next') -> 0 .. Packets]
    BY <1>6, <1>7, <1>10, <1>11, <1>13
  <2> QED BY <1>1, <2>1, <2>2, <2>3, <2>4, <2>5 DEF FlowInv
<1>17. j \in [0 .. Len(next') -> 0 .. Packets]
  BY <1>6, <1>13
<1> QED BY <1>4, <1>16, <1>17 DEF SInv

LEMMA TakePacketKeeps ==
  ASSUME SInv, TakePacket
  PROVE  SInv'
<1> DEFINE s == readChan[1]
           Found == \E p \in 1 .. Packets : SkpCheck(Content(Head(readChan)), Expected(IsConn), p)
<1>1. /\ UNCHANGED <<peer, away, read, heap, datas, reader, isConn, next, out>>
      /\ loop = "loop" /\ readChan # <<>> /\ readChan' = Tail(readChan) /\ data' = Head(readChan)
      /\ IF Found THEN loop' = (IF IsConn THEN "mark" ELSE "loop") /\ IsConn' = TRUE
                  ELSE loop' = "ended" /\ IsConn' = IsConn
  BY DEF TakePacket
<1>2. TypeInv /\ readChan \in Seq(Slice) /\ next \in Seq(Slice) /\ IsConn \in BOOLEAN
  BY DEF SInv, TypeInv
<1>3. /\ readChan' \in Seq(Slice) /\ Len(readChan') = Len(readChan) - 1 /\ Len(readChan) \in Nat \ {0}
      /\ Head(readChan) = s /\ s \in Slice /\ \A i \in 1 .. Len(readChan') : readChan'[i] = readChan[i + 1]
  BY <1>1, <1>2, HeadTailProperties, EmptySeq
<1>4. TypeInv'
  <2>1. loop' \in {"loop", "mark", "ended"} /\ IsConn' \in BOOLEAN
    BY <1>1, <1>2
  <2> QED BY <1>1, <1>2, <1>3, <2>1 DEF TypeInv
<1>5. PICK w, d \in 0 .. Packets, idx \in [0 .. Len(next) -> 0 .. Packets] : FlowInv(idx, w, d)
  BY DEF SInv
<1>6. PICK q : q = w + 1
  OBVIOUS
<1>7. /\ w + Len(readChan) = d /\ Len(next) \in Nat /\ DatasInv(d)
      /\ out = Due[idx[0]] /\ Due[w] = Due[idx[Len(next)]]
  BY <1>1, <1>2, <1>3, <1>5, LenProperties DEF FlowInv, InHand
<1>8. Holds(s, q, FALSE) /\ q \in 1 .. Packets
  <2>1. w \in Nat /\ d \in Nat /\ Len(readChan) \in Nat \ {0}
    BY <1>3, Parameters
  <2>2. 1 \in 1 .. Len(readChan) /\ d - Len(readChan) + 1 = q
    BY <1>6, <1>7, <2>1
  <2>3. Holds(readChan[1], d - Len(readChan) + 1, FALSE)
    BY <1>5, <2>2 DEF FlowInv
  <2> QED BY <2>2, <2>3 DEF Holds
<1> HIDE DEF s
<1>9. \A r, p, m : Holds(r, p, m)' <=> Holds(r, p, m)
  BY <1>1, SameHolds
<1>10. \A i \in 1 .. Len(readChan') : Holds(readChan[i], d - Len(readChan) + i, FALSE)'
  <2>1. ASSUME NEW i \in 1 .. Len(readChan')
        PROVE  Holds(readChan'[i], d - Len(readChan') + i, FALSE)
    <3>1. i + 1 \in 1 .. Len(readChan) /\ d - Len(readChan) + (i + 1) = d - Len(readChan') + i
      BY <1>3
    <3>2. Holds(readChan[i + 1], d - Len(readChan) + (i + 1), FALSE)
      BY <1>5, <3>1 DEF FlowInv
    <3> QED BY <1>3, <3>1, <3>2
  <2> QED BY <1>9, <2>1
<1>11. /\ \A i \in 1 .. Len(next') : Holds(next[i], idx[i], TRUE)' /\ Follows(idx, i, w)'
       /\ DatasInv(d)' /\ Due' = Due /\ next' = next
  BY <1>1, <1>5, <1>9, SameDatas, DueSame DEF FlowInv, Follows
<1>12. CASE ~Found
  <2>1. loop' = "ended"
    BY <1>1, <1>12
  <2>2. FlowInv(idx, w, d)'
    BY <1>1, <1>5, <1>7, <1>10, <1>11, <2>1 DEF FlowInv
  <2> QED BY <1>4, <1>5, <1>11, <2>2 DEF SInv
<1>13. ASSUME Found
       PROVE  Kind(q) = Expected(IsConn)
  <2>1. PICK p \in 1 .. Packets : SkpCheck(Content(s), Expected(IsConn), p)
    BY <1>3, <1>13
  <2>2. Within(s) /\ Expected(IsConn) \in {"conn", "data"}
    BY <1>8 DEF Holds, Expected
  <2>3. Kind(p) = Expected(IsConn) /\ 1 \in 1 .. HeadSize[Expected(IsConn)] /\ At(s, 1)[1] = p
    <3>1. /\ HeadSize[Expected(IsConn)] \in Nat /\ HeadSize[Expected(IsConn)] > 0
          /\ \A k \in 1 .. HeadSize[Expected(IsConn)] : At(s, k)[1] = p
          /\ Kind(p) = Expected(IsConn)
      BY <1>2, <1>3, <2>1, <2>2, CheckedBytes
    <3>2. 1 \in 1 .. HeadSize[Expected(IsConn)]
      BY <3>1
    <3> QED BY <3>1, <3>2
  <2>4. At(s, 1)[1] = q
    <3>1. 1 \in 1 .. Size[q]
      BY <1>8, Parameters
    <3>2. At(s, 1) = <<q, 1, FALSE /\ peer = "client" /\ 1 \in AddrAt>>
      BY <1>8, <3>1 DEF Holds
    <3> QED BY <3>2
  <2> QED BY <2>3, <2>4
<1>14. CASE Found /\ IsConn
  <2>1. loop' = "mark" /\ Kind(q) = "data"
    BY <1>1, <1>13, <1>14 DEF Expected
  <2>2. Holds(data, w + 1, FALSE)' /\ Kind(w + 1)' = "data"
    BY <1>1, <1>3, <1>6, <1>8, <1>9, <2>1 DEF Kind
  <2>3. w + InHand' + Len(readChan') = d
    <3>1. InHand' = 1
      BY <2>1 DEF InHand
    <3>2. w \in Nat /\ d \in Nat /\ Len(readChan) \in Nat
      BY <1>3, Parameters
    <3>3. PICK r \in Nat : r = Len(readChan) /\ Len(readChan') = r - 1 /\ w + r = d
      BY <1>3, <1>7, <3>2
    <3> QED BY <3>1, <3>2, <3>3
  <2>4. FlowInv(idx, w, d)'
    BY <1>1, <1>5, <1>7, <1>10, <1>11, <2>1, <2>2, <2>3 DEF FlowInv
  <2> QED BY <1>4, <1>5, <1>11, <2>4 DEF SInv
<1>15. CASE Found /\ ~IsConn
  <2>1. loop' = "loop" /\ Kind(q) = "conn"
    BY <1>1, <1>13, <1>15 DEF Expected
  <2>2. q = 1
    BY <2>1 DEF Kind
  <2>3. w = 0 /\ 1 \in 0 .. Packets
    BY <1>6, <1>8, <2>2, Parameters
  <2>4. Due'[1] = Due'[idx[Len(next')]]
    <3>1. 1 \in 1 .. Packets /\ 1 - 1 = 0 /\ Kind(1) = "conn"
      BY <1>8, <2>1, <2>2
    <3>2. Due[1] = Due[0]
      BY <3>1, DueSteps
    <3> QED BY <1>7, <1>11, <2>3, <3>2
  <2>5. 1 + InHand' + Len(readChan') = d
    BY <1>3, <1>7, <2>1, <2>3 DEF InHand
  <2>6. \A i \in 1 .. Len(next') : Holds(next[i], idx[i], TRUE)' /\ Follows(idx, i, 1)'
    <3> SUFFICES ASSUME NEW i \in 1 .. Len(next')
                 PROVE  Holds(next[i], idx[i], TRUE)' /\ Follows(idx, i, 1)'
      OBVIOUS
    <3>1. Holds(next[i], idx[i], TRUE)' /\ Follows(idx, i, w)'
      BY <1>11
    <3>2. idx[i] \in Nat
      BY <1>5, <1>11, Parameters
    <3>3. idx[i] <= w /\ Due'[idx[i]] = Due'[idx[i - 1]] \o Passed(idx[i])'
      BY <3>1 DEF Follows
    <3>4. idx[i] <= 1
      BY <2>3, <3>2, <3>3
    <3> QED BY <3>1, <3>3, <3>4 DEF Follows
  <2>7. FlowInv(idx, 1, d)'
    BY <1>1, <1>5, <1>7, <1>10, <1>11, <2>1, <2>4, <2>5, <2>6 DEF FlowInv
  <2> QED BY <1>4, <1>5, <1>11, <2>3, <2>7 DEF SInv
<1> QED BY <1>12, <1>14, <1>15

-----------------------------------------------------------------------------
(* The steps that write to memory or to Datas.                             *)

\* What stands behind packet d is of later packets.
LEMMA StreamBehind ==
  ASSUME NEW d \in 0 .. Packets, NEW j \in Nat, j > 0, Off(d) + j <= Len(Stream)
  PROVE  Stream[Off(d) + j] \in Byte /\ Stream[Off(d) + j][1] > d
<1>1. PICK i : i = Off(d) + j
  OBVIOUS
<1>2. Off(d) \in Nat /\ i \in 1 .. Len(Stream) /\ Stream \in Seq(Byte)
  BY <1>1, SentSteps, StreamBytes, LenProperties
<1>3. PICK p \in 1 .. Packets : \E k \in 1 .. Size[p] : i = Off(p - 1) + k
  BY <1>2, StreamBytes
<1>4. PICK k \in 1 .. Size[p] : i = Off(p - 1) + k
  BY <1>3
<1>5. Stream[i] = <<p, k, FALSE>>
  BY <1>4, StreamBytes
<1>6. p > d
  <2> SUFFICES ASSUME p <= d
               PROVE  FALSE
    BY Parameters
  <2>1. Off(p) = Off(p - 1) + Size[p] /\ Off(p - 1) \in Nat /\ Size[p] \in Nat
    BY SentSteps, Parameters
  <2>2. Off(p) <= Off(d)
    <3>1. CASE p = d
      BY <1>2, <3>1
    <3>2. CASE p # d
      BY <1>2, <2>1, <3>2, OffGrows, Parameters
    <3> QED BY <3>1, <3>2
  <2> QED BY <1>1, <1>2, <1>4, <2>1, <2>2
<1>7. Stream[i] \in Byte /\ Stream[i][1] > d
  <2>1. Stream[i] \in Byte
    BY <1>2, ElementOfSeq
  <2>2. Stream[i][1] = p
    BY <1>5
  <2> QED BY <1>6, <2>1, <2>2
<1> QED BY <1>1, <1>7

\* A slice whose bytes are right after a step holds its packet after it.
LEMMA StillHolds ==
  ASSUME NEW s, NEW p, NEW m, NEW n, Holds(s, p, m), peer' = peer,
         Within(s)', s.array = datas'.array => s.from + s.len <= datas'.from,
         \A k \in 1 .. Size[p] : At(s, k)' = <<p, k, n /\ peer = "client" /\ k \in AddrAt>>
  PROVE  Holds(s, p, n)'
BY DEF Holds, Kind

LEMMA PushPacketKeeps ==
  ASSUME SInv, PushPacket
  PROVE  SInv'
<1>1. PICK p \in 1 .. Packets :
        /\ Whole(p)
        /\ readChan' = Append(readChan, [datas EXCEPT !.len = Size[p]])
        /\ datas' = [datas EXCEPT !.from = @ + Size[p], !.len = @ - Size[p]]
  BY DEF PushPacket
<1>2. UNCHANGED <<peer, away, read, heap, loop, data, IsConn, next, out>> /\ reader' = "check" /\ isConn' = TRUE
  BY DEF PushPacket, AfterPush
<1>3. TypeInv
  BY DEF SInv
<1>4. PICK w, d \in 0 .. Packets, idx \in [0 .. Len(next) -> 0 .. Packets] : FlowInv(idx, w, d)
  BY DEF SInv
<1>5. DatasInv(d) /\ datas \in Slice
  BY <1>3, <1>4 DEF FlowInv, TypeInv
<1>6. p = d + 1 /\ HeadSize[Kind(p)] <= Size[p] /\ Size[p] <= datas.len
  BY <1>1, <1>3, <1>5, WholeIsNext
<1>17. PICK s : s = [datas EXCEPT !.len = Size[p]]
  OBVIOUS
<1>7. /\ Size[p] \in Nat /\ datas.from \in Nat /\ datas.len \in Nat /\ s \in Slice
      /\ s.array = datas.array /\ s.from = datas.from /\ s.len = Size[p]
      /\ datas' \in Slice /\ datas'.array = datas.array /\ datas'.from = datas.from + Size[p]
      /\ datas'.len = datas.len - Size[p]
  <2>1. Size[p] \in Nat /\ datas.from \in Nat /\ datas.len \in Nat
    BY <1>5, Parameters DEF Slice
  <2>2. s \in Slice /\ s.array = datas.array /\ s.from = datas.from /\ s.len = Size[p]
    BY <1>5, <1>17, <2>1 DEF Slice
  <2>3. datas.from + Size[p] \in Nat /\ datas.len - Size[p] \in Nat
    BY <1>6, <2>1
  <2>4. /\ datas' \in Slice /\ datas'.array = datas.array /\ datas'.from = datas.from + Size[p]
        /\ datas'.len = datas.len - Size[p]
    BY <1>1, <1>5, <2>3 DEF Slice
  <2> QED BY <2>1, <2>2, <2>4
<1>8. /\ datas.array \in 1 .. Len(heap) /\ datas.from >= 1
      /\ datas.from + datas.len - 1 <= Len(heap[datas.array]) /\ Len(heap[datas.array]) \in Nat
  <2>1. heap[datas.array] \in Seq(Byte)
    BY <1>3, <1>5 DEF TypeInv, DatasInv, Within
  <2> QED BY <1>5, <2>1, LenProperties DEF DatasInv, Within
<1>9. /\ readChan' \in Seq(Slice) /\ Len(readChan') = Len(readChan) + 1 /\ Len(readChan) \in Nat
      /\ readChan'[Len(readChan) + 1] = s /\ \A i \in 1 .. Len(readChan) : readChan'[i] = readChan[i]
  <2>1. readChan \in Seq(Slice) /\ readChan' = Append(readChan, s)
    BY <1>1, <1>3, <1>17 DEF TypeInv
  <2> QED BY <1>7, <2>1, AppendProperties
<1>10. TypeInv'
  BY <1>2, <1>3, <1>7, <1>9 DEF TypeInv
<1>11. \A r, q, m : Holds(r, q, m) => Holds(r, q, m)'
  <2> SUFFICES ASSUME NEW r, NEW q, NEW m, Holds(r, q, m)
               PROVE  Holds(r, q, m)'
    OBVIOUS
  <2>1. r.from + r.len \in Nat /\ (r.array = datas.array => r.from + r.len <= datas.from)
    BY DEF Holds, Slice
  <2>2. r.array = datas'.array => r.from + r.len <= datas'.from
    BY <1>7, <2>1
  <2>3. Within(r)'
    BY <1>2 DEF Holds, Within
  <2>4. \A k \in 1 .. Size[q] : At(r, k)' = <<q, k, m /\ peer = "client" /\ k \in AddrAt>>
    BY <1>2 DEF Holds, At
  <2> QED BY <1>2, <2>2, <2>3, <2>4, StillHolds
<1>12. Off(p) = Off(d) + Size[p] /\ Off(d) \in Nat /\ \A k \in 1 .. Size[p] : Stream[Off(d) + k] = <<p, k, FALSE>>
  BY <1>6, StreamPacket
<1>13. Holds(s, p, FALSE)'
  <2>1. Within(s)' /\ s.from + s.len <= datas'.from
    <3>1. s.from >= 1 /\ s.from + s.len - 1 <= Len(heap[datas.array]) /\ s.from + s.len <= datas'.from
      <4>1. PICK f, l, z, top \in Nat :
              f = datas.from /\ l = datas.len /\ z = Size[p] /\ top = Len(heap[datas.array])
        BY <1>7, <1>8
      <4>2. f >= 1 /\ z <= l /\ f + l - 1 <= top
        BY <1>6, <1>8, <4>1
      <4>3. f + z - 1 <= top
        BY <4>2
      <4> QED BY <1>7, <4>1, <4>2, <4>3
    <3> QED BY <1>2, <1>7, <1>8, <3>1 DEF Within
  <2>2. ASSUME NEW k \in 1 .. Size[p]
        PROVE  At(s, k)' = <<p, k, FALSE /\ peer' = "client" /\ k \in AddrAt>>
    <3>1. k \in 1 .. datas.len
      BY <1>6, <1>7
    <3>2. At(s, k)' = At(datas, k) /\ At(datas, k) = Stream[Off(d) + k]
      BY <1>2, <1>5, <1>7, <3>1 DEF At, DatasInv
    <3> QED BY <1>12, <3>2
  <2>3. HeadSize[Kind(p)'] <= Size[p]
    BY <1>2, <1>6 DEF Kind
  <2> QED BY <1>7, <2>1, <2>2, <2>3 DEF Holds
<1>14. DatasInv(p)'
  <2>1. Within(datas)'
    BY <1>2, <1>6, <1>7, <1>8, SMTT(30) DEF Within
  <2>2. read' = Off(p) + datas'.len
    <3>1. read = Off(d) + datas.len
      BY <1>5 DEF DatasInv
    <3> QED BY <1>2, <1>7, <1>12, <3>1
  <2>3. ASSUME NEW k \in 1 .. datas'.len
        PROVE  At(datas, k)' = Stream[Off(p) + k]
    <3>1. Size[p] + k \in 1 .. datas.len /\ datas'.from + k - 1 = datas.from + (Size[p] + k) - 1
      BY <1>6, <1>7
    <3>2. At(datas, k)' = At(datas, Size[p] + k)
      BY <1>2, <1>7, <3>1 DEF At
    <3>3. At(datas, Size[p] + k) = Stream[Off(d) + (Size[p] + k)]
      BY <1>5, <3>1 DEF DatasInv
    <3>4. Off(d) + (Size[p] + k) = Off(p) + k
      BY <1>7, <1>12
    <3> QED BY <3>2, <3>3, <3>4
  <2> QED BY <2>1, <2>2, <2>3 DEF DatasInv, Off
<1>15. FlowInv(idx, w, p)'
  <2>1. ASSUME NEW i \in 1 .. Len(readChan')
        PROVE  Holds(readChan[i], p - Len(readChan) + i, FALSE)'
    <3>1. w \in Nat /\ d \in Nat
      BY Parameters
    <3>2. PICK r, q : r = readChan'[i] /\ q = p - Len(readChan') + i
      OBVIOUS
    <3>3. CASE i \in 1 .. Len(readChan)
      <4>1. q = d - Len(readChan) + i /\ r = readChan[i]
        BY <1>6, <1>9, <3>1, <3>2, <3>3
      <4>2. Holds(r, q, FALSE)
        BY <1>4, <3>3, <4>1 DEF FlowInv
      <4> QED BY <1>11, <3>2, <4>2
    <3>4. CASE i = Len(readChan) + 1
      <4>1. q = p /\ r = s
        BY <1>6, <1>9, <3>1, <3>2, <3>4
      <4> QED BY <1>13, <3>2, <4>1
    <3>5. i \in 1 .. Len(readChan) \/ i = Len(readChan) + 1
      BY <1>9
    <3> QED BY <3>3, <3>4, <3>5
  <2>2. loop' # "ended" => w + InHand' + Len(readChan') = p
    <3>1. InHand' = InHand /\ InHand \in Nat /\ w \in Nat
      BY <1>2, Parameters DEF InHand
    <3>2. loop # "ended" => w + InHand + Len(readChan) = d
      BY <1>4 DEF FlowInv
    <3> QED BY <1>2, <1>6, <1>9, <3>1, <3>2
  <2>3. /\ \A i \in 1 .. Len(next') : Holds(next[i], idx[i], TRUE)' /\ Follows(idx, i, w)'
        /\ out' = Due'[idx[0]] /\ Due'[w] = Due'[idx[Len(next')]]
    BY <1>2, <1>4, <1>11, DueSame DEF FlowInv, Follows
  <2>4. /\ loop = "mark" => Holds(data, w + 1, FALSE)' /\ Kind(w + 1)' = "data"
        /\ loop = "forward" => Holds(data, w + 1, TRUE)' /\ Kind(w + 1)' = "data"
    BY <1>2, <1>4, <1>11 DEF FlowInv, Kind
  <2> QED BY <1>2, <1>14, <2>1, <2>2, <2>3, <2>4 DEF FlowInv
<1>16. p \in 0 .. Packets
  OBVIOUS
<1> QED BY <1>2, <1>4, <1>10, <1>15, <1>16 DEF SInv

\* Where the address goes is in the hands of the run loop: bytes of packet
\* w + 1, which no other slice has.
LEMMA SkpSetAddrSocketKeeps ==
  ASSUME SInv, SkpSetAddrSocket
  PROVE  SInv'
<1>1. /\ UNCHANGED <<peer, away, read, datas, reader, isConn, readChan, data, IsConn, next, out>>
      /\ loop = "mark" /\ loop' = "forward"
  BY DEF SkpSetAddrSocket
<1>2. TypeInv
  BY DEF SInv
<1>3. PICK w, d \in 0 .. Packets, idx \in [0 .. Len(next) -> 0 .. Packets] : FlowInv(idx, w, d)
  BY DEF SInv
<1>4. PICK p : p = w + 1
  OBVIOUS
<1>5. Holds(data, p, FALSE) /\ Kind(p) = "data" /\ w + 1 + Len(readChan) = d /\ DatasInv(d)
  BY <1>1, <1>3, <1>4 DEF FlowInv, InHand
<1>6. PICK s : s = data
  OBVIOUS
<1>7. /\ s \in Slice /\ p \in 1 .. Packets /\ Within(s) /\ s.len = Size[p] /\ Size[p] \in Nat
      /\ \A a \in AddrAt : a \in 1 .. Size[p]
      /\ \A k \in 1 .. Size[p] : At(s, k) = <<p, k, FALSE>>
  <2>1. AddrAt \subseteq 1 .. HeadSize["data"] /\ HeadSize["data"] \in Nat /\ HeadSize["data"] <= Size[p]
    BY <1>5, StreamAssumption, Parameters DEF Holds
  <2>2. p \in 1 .. Packets /\ Size[p] \in Nat
    BY <1>5, Parameters DEF Holds
  <2>3. \A a \in AddrAt : a \in 1 .. Size[p]
    BY <2>1, <2>2
  <2> QED BY <1>5, <1>6, <2>2, <2>3 DEF Holds
<1> DEFINE array == heap[s.array]
           marked(k) == peer = "client" /\ k - s.from + 1 \in AddrAt
           write(k) == IF marked(k) THEN <<array[k][1], array[k][2], TRUE>> ELSE array[k]
<1>8. /\ array \in Seq(Byte) /\ Len(array) \in Nat /\ DOMAIN array = 1 .. Len(array)
      /\ s.array \in 1 .. Len(heap) /\ heap \in Seq(Seq(Byte))
      /\ s.from \in Nat /\ s.from >= 1 /\ s.from + s.len - 1 <= Len(array)
  <2>1. array \in Seq(Byte) /\ s.array \in 1 .. Len(heap) /\ heap \in Seq(Seq(Byte))
    BY <1>2, <1>7, ElementOfSeq DEF TypeInv, Within
  <2> QED BY <1>7, <2>1, LenProperties DEF Within, Slice
<1>9. heap' = [heap EXCEPT ![s.array] = [k \in 1 .. Len(array) |-> write(k)]]
  <2>1. CASE peer # "client"
    <3>1. heap' = heap
      BY <2>1 DEF SkpSetAddrSocket
    <3>2. [k \in 1 .. Len(array) |-> write(k)] = array
      BY <1>8, <2>1
    <3> QED BY <1>8, <3>1, <3>2, LenProperties
  <2>2. CASE peer = "client"
    BY <1>6, <1>8, <2>2 DEF SkpSetAddrSocket
  <2> QED BY <2>1, <2>2
<1> HIDE DEF array
<1>10. ASSUME NEW k \in 1 .. Len(array)
       PROVE  write(k) \in Byte
  <2>1. array[k] \in Byte
    BY <1>8, ElementOfSeq
  <2>2. array[k][1] \in Nat /\ array[k][2] \in Nat /\ TRUE \in BOOLEAN
    BY <2>1 DEF Byte
  <2>3. <<array[k][1], array[k][2], TRUE>> \in Byte
    BY <2>2 DEF Byte
  <2> QED BY <2>1, <2>3
<1> DEFINE written == [k \in 1 .. Len(array) |-> write(k)]
<1>11. written \in Seq(Byte) /\ Len(written) = Len(array)
  <2>1. written \in [1 .. Len(array) -> Byte]
    BY <1>10
  <2> HIDE DEF written
  <2> QED BY <1>8, <2>1, FunctionIsSeq
<1>12. /\ heap' \in Seq(Seq(Byte)) /\ Len(heap') = Len(heap)
       /\ heap'[s.array] = written /\ \A a \in 1 .. Len(heap) : a # s.array => heap'[a] = heap[a]
  <2>1. heap' = [heap EXCEPT ![s.array] = written]
    BY <1>9
  <2> HIDE DEF written
  <2> QED BY <1>8, <1>11, <2>1, ExceptSeq
<1>13. TypeInv'
  BY <1>1, <1>2, <1>12 DEF TypeInv
<1>14. ASSUME NEW r \in Slice, Within(r)
       PROVE  /\ Within(r)'
              /\ \A k \in 1 .. r.len :
                   LET j == r.from + k - 1 - s.from + 1 IN
                   At(r, k)' = IF r.array = s.array /\ peer = "client" /\ j \in AddrAt
                               THEN <<At(r, k)[1], At(r, k)[2], TRUE>> ELSE At(r, k)
  <2>1. r.array \in 1 .. Len(heap) /\ r.from >= 1 /\ r.from + r.len - 1 <= Len(heap[r.array])
        /\ r.from \in Nat /\ r.len \in Nat
    BY <1>14 DEF Within, Slice
  <2>2. CASE r.array # s.array
    BY <1>12, <2>1, <2>2 DEF Within, At
  <2>3. CASE r.array = s.array
    <3>1. Within(r)'
      BY <1>8, <1>11, <1>12, <2>1, <2>3 DEF Within, array
    <3>2. ASSUME NEW k \in 1 .. r.len
          PROVE  LET j == r.from + k - 1 - s.from + 1 IN
                 At(r, k)' = IF r.array = s.array /\ peer = "client" /\ j \in AddrAt
                             THEN <<At(r, k)[1], At(r, k)[2], TRUE>> ELSE At(r, k)
      <4>1. r.from + r.len - 1 <= Len(array) /\ heap[r.array] = array
        BY <2>1, <2>3 DEF array
      <4>2. PICK i : i = r.from + k - 1
        OBVIOUS
      <4>3. i \in 1 .. Len(array)
        <5>1. PICK f, l, top \in Nat : f = r.from /\ l = r.len /\ top = Len(array)
          BY <1>8, <2>1
        <5>2. i = f + k - 1 /\ k \in 1 .. l /\ f >= 1 /\ f + l - 1 <= top
          BY <2>1, <4>1, <4>2, <5>1
        <5>3. i \in 1 .. top
          BY <5>2
        <5> QED BY <5>1, <5>3
      <4>4. At(r, k)' = write(i) /\ At(r, k) = array[i]
        <5>1. At(r, k)' = written[i] /\ At(r, k) = array[i]
          <6> HIDE DEF written
          <6> QED BY <1>12, <2>3, <4>1, <4>2 DEF At
        <5>2. written[i] = write(i)
          BY <4>3
        <5> QED BY <5>1, <5>2
      <4>7. PICK j : j = i - s.from + 1 /\ j = r.from + k - 1 - s.from + 1
        <5>1. r.from \in Int /\ s.from \in Int /\ k \in Int /\ i \in Int
          BY <1>8, <2>1, <4>2, SMTT(30)
        <5>2. i - s.from + 1 = r.from + k - 1 - s.from + 1
          BY <4>2, <5>1
        <5> QED BY <5>2
      <4>5. CASE peer = "client" /\ i - s.from + 1 \in AddrAt
        <5>1. At(r, k)' = <<At(r, k)[1], At(r, k)[2], TRUE>>
          BY <4>4, <4>5
        <5> QED BY <2>3, <4>5, <4>7, <5>1
      <4>6. CASE ~(peer = "client" /\ i - s.from + 1 \in AddrAt)
        <5>1. At(r, k)' = At(r, k)
          BY <4>4, <4>6
        <5> QED BY <2>3, <4>6, <4>7, <5>1
      <4> QED BY <4>5, <4>6
    <3> QED BY <3>1, <3>2
  <2> QED BY <2>2, <2>3
<1>15. ASSUME NEW r \in Slice, Within(r), NEW k \in 1 .. r.len, At(r, k)[1] # p
       PROVE  At(r, k)' = At(r, k)
  <2> SUFFICES ASSUME r.array = s.array, r.from + k - 1 - s.from + 1 \in AddrAt
               PROVE  FALSE
    BY <1>14, <1>15
  <2>1. PICK j \in 1 .. Size[p] : j = r.from + k - 1 - s.from + 1
    BY <1>7
  <2>2. s.from + j - 1 = r.from + k - 1
    BY <1>8, <1>15, <2>1, SMTT(30) DEF Slice
  <2>3. At(r, k) = At(s, j)
    BY <2>2 DEF At
  <2>4. At(s, j) = <<p, j, FALSE>>
    BY <1>7
  <2> QED BY <1>15, <2>3, <2>4
<1>16. ASSUME NEW r, NEW q, NEW m, Holds(r, q, m), q # p
       PROVE  Holds(r, q, m)'
  <2>1. r \in Slice /\ Within(r) /\ r.len = Size[q]
    BY <1>16 DEF Holds
  <2>2. ASSUME NEW k \in 1 .. Size[q]
        PROVE  At(r, k)' = <<q, k, m /\ peer = "client" /\ k \in AddrAt>>
    <3>1. At(r, k) = <<q, k, m /\ peer = "client" /\ k \in AddrAt>>
      BY <1>16 DEF Holds
    <3>2. At(r, k)[1] # p
      BY <1>16, <3>1
    <3> QED BY <1>15, <2>1, <3>1, <3>2
  <2>3. Within(r)' /\ (r.array = datas'.array => r.from + r.len <= datas'.from)
    BY <1>1, <1>14, <1>16, <2>1 DEF Holds
  <2> QED BY <1>1, <1>16, <2>2, <2>3, StillHolds
<1>17. Holds(s, p, TRUE)'
  <2>1. ASSUME NEW k \in 1 .. Size[p]
        PROVE  At(s, k)' = <<p, k, TRUE /\ peer = "client" /\ k \in AddrAt>>
    <3>1. s.from + k - 1 - s.from + 1 = k
      BY <1>8
    <3>2. At(s, k)' = IF peer = "client" /\ k \in AddrAt THEN <<At(s, k)[1], At(s, k)[2], TRUE>> ELSE At(s, k)
      BY <1>7, <1>14, <3>1
    <3>3. At(s, k) = <<p, k, FALSE>>
      BY <1>7
    <3>4. CASE peer = "client" /\ k \in AddrAt
      <4>1. At(s, k)' = <<p, k, TRUE>>
        <5>1. At(s, k)[1] = p /\ At(s, k)[2] = k
          BY <3>3
        <5>2. At(s, k)' = <<At(s, k)[1], At(s, k)[2], TRUE>>
          BY <3>2, <3>4
        <5> QED BY <5>1, <5>2
      <4>2. (TRUE /\ peer = "client" /\ k \in AddrAt) = TRUE
        BY <3>4
      <4> QED BY <4>1, <4>2
    <3>5. CASE ~(peer = "client" /\ k \in AddrAt)
      BY <3>2, <3>3, <3>5
    <3> QED BY <3>4, <3>5
  <2>2. Within(s)' /\ Holds(s, p, FALSE)
    BY <1>5, <1>6, <1>7, <1>14
  <2>3. s.array = datas'.array => s.from + s.len <= datas'.from
    BY <1>1, <2>2 DEF Holds
  <2> QED BY <1>1, <2>1, <2>2, <2>3, StillHolds
<1>18. DatasInv(d)'
  <2>1. datas \in Slice /\ Within(datas) /\ read = Off(d) + datas.len /\ read <= Len(Stream)
        /\ \A k \in 1 .. datas.len : At(datas, k) = Stream[Off(d) + k]
    BY <1>2, <1>5 DEF TypeInv, DatasInv
  <2>2. PICK r : r = datas
    OBVIOUS
  <2>3. ASSUME NEW k \in 1 .. r.len
        PROVE  At(r, k)' = Stream[Off(d) + k]
    <3>1. Off(d) \in Nat /\ r.len \in Nat /\ Len(Stream) \in Nat
      BY <2>1, <2>2, SentSteps, StreamBytes DEF Slice
    <3>2. k \in Nat /\ k > 0 /\ Off(d) + k <= Len(Stream)
      BY <2>1, <2>2, <3>1
    <3>3. Stream[Off(d) + k][1] > d
      BY <3>2, StreamBehind
    <3>4. p <= d
      <4>1. Len(readChan) \in Nat
        BY <1>2, LenProperties DEF TypeInv
      <4> QED BY <1>4, <1>5, <4>1, Parameters
    <3>5. At(r, k)[1] # p /\ At(r, k) = Stream[Off(d) + k]
      BY <1>7, <2>1, <2>2, <3>3, <3>4, Parameters
    <3> QED BY <1>15, <2>1, <2>2, <3>5
  <2>4. Within(r)'
    BY <1>14, <2>1, <2>2
  <2> QED BY <1>1, <2>1, <2>2, <2>3, <2>4 DEF DatasInv, Off
<1>19. FlowInv(idx, w, d)'
  <2>1. w \in Nat /\ d \in Nat /\ Len(next) \in Nat /\ Len(readChan) \in Nat
    BY <1>2, LenProperties, Parameters DEF TypeInv
  <2>2. \A i \in 1 .. Len(next') : Holds(next[i], idx[i], TRUE)' /\ Follows(idx, i, w)'
    <3> SUFFICES ASSUME NEW i \in 1 .. Len(next)
                 PROVE  Holds(next[i], idx[i], TRUE)' /\ Follows(idx, i, w)'
      BY <1>1
    <3>1. Holds(next[i], idx[i], TRUE) /\ Follows(idx, i, w)
      BY <1>3 DEF FlowInv
    <3>2. idx[i] # p
      <4>1. idx[i] \in Nat /\ idx[i] <= w
        BY <2>1, <3>1 DEF Follows
      <4> QED BY <1>4, <2>1, <4>1
    <3>3. Holds(next[i], idx[i], TRUE)'
      BY <1>1, <1>16, <3>1, <3>2
    <3> QED BY <1>1, <3>1, <3>3, DueSame DEF Follows
  <2>3. \A i \in 1 .. Len(readChan') : Holds(readChan[i], d - Len(readChan) + i, FALSE)'
    <3> SUFFICES ASSUME NEW i \in 1 .. Len(readChan)
                 PROVE  Holds(readChan[i], d - Len(readChan) + i, FALSE)'
      BY <1>1
    <3>1. d - Len(readChan) + i # p
      BY <1>4, <1>5, <2>1
    <3>2. Holds(readChan[i], d - Len(readChan) + i, FALSE)
      BY <1>3 DEF FlowInv
    <3> QED BY <1>1, <1>16, <3>1, <3>2
  <2>4. Holds(data, w + 1, TRUE)' /\ Kind(w + 1)' = "data"
    BY <1>1, <1>4, <1>5, <1>6, <1>17 DEF Kind
  <2>5. /\ w + InHand' + Len(readChan') = d
        /\ out' = Due'[idx[0]] /\ Due'[w] = Due'[idx[Len(next')]]
    BY <1>1, <1>3, <1>5, DueSame DEF FlowInv, InHand
  <2> QED BY <1>1, <1>18, <2>2, <2>3, <2>4, <2>5 DEF FlowInv
<1> QED BY <1>1, <1>3, <1>13, <1>19 DEF SInv

LEMMA OverwriteIs ==
  ASSUME NEW array \in Seq(Byte), NEW at \in Nat, at > 0, NEW bytes \in Seq(Byte)
  PROVE  /\ Overwrite(array, at, bytes) \in Seq(Byte)
         /\ Len(Overwrite(array, at, bytes)) = Len(array)
         /\ \A k \in 1 .. Len(array) :
              Overwrite(array, at, bytes)[k] =
                 IF k \in at .. at + Len(bytes) - 1 THEN bytes[k - at + 1] ELSE array[k]
<1> DEFINE w(k) == IF k \in at .. at + Len(bytes) - 1 THEN bytes[k - at + 1] ELSE array[k]
<1>1. Len(array) \in Nat /\ DOMAIN array = 1 .. Len(array) /\ Len(bytes) \in Nat
  BY LenProperties
<1>2. ASSUME NEW k \in 1 .. Len(array)
      PROVE  w(k) \in Byte
  <2>1. CASE k \in at .. at + Len(bytes) - 1
    <3>1. k - at + 1 \in 1 .. Len(bytes)
      BY <1>1, <2>1
    <3> QED BY <2>1, <3>1, ElementOfSeq
  <2>2. CASE k \notin at .. at + Len(bytes) - 1
    BY <1>1, <2>2, ElementOfSeq
  <2> QED BY <2>1, <2>2
<1>3. Overwrite(array, at, bytes) = [k \in 1 .. Len(array) |-> w(k)]
  BY <1>1 DEF Overwrite
<1> HIDE DEF w
<1>4. Overwrite(array, at, bytes) \in [1 .. Len(array) -> Byte]
  BY <1>2, <1>3
<1>5. \A k \in 1 .. Len(array) : Overwrite(array, at, bytes)[k] = w(k)
  BY <1>3
<1> QED BY <1>1, <1>4, <1>5, FunctionIsSeq DEF w

LEMMA BlankIs ==
  ASSUME NEW n \in Nat
  PROVE  Blank(n) \in Seq(Byte) /\ Len(Blank(n)) = n
<1>1. <<0, 0, FALSE>> \in Byte
  <2>1. 0 \in Nat /\ FALSE \in BOOLEAN
    OBVIOUS
  <2> QED BY <2>1 DEF Byte
<1>2. Blank(n) \in [1 .. n -> Byte]
  BY <1>1 DEF Blank
<1> QED BY <1>2, FunctionIsSeq

\* In place or in a new array, Datas has the bytes behind what it had, and
\* nothing that stands before it is changed.
LEMMA Appended ==
  ASSUME TypeInv, Within(datas), NEW bytes \in Seq(Byte), SkpAppendData(bytes)
  PROVE  /\ heap' \in Seq(Seq(Byte)) /\ datas' \in Slice /\ Within(datas)'
         /\ datas'.len = datas.len + Len(bytes)
         /\ \A k \in 1 .. datas.len + Len(bytes) :
              At(datas, k)' = IF k <= datas.len THEN At(datas, k) ELSE bytes[k - datas.len]
         /\ \A s \in Slice :
              Within(s) /\ (s.array = datas.array => s.from + s.len <= datas.from)
              => /\ Within(s)' /\ (s.array = datas'.array => s.from + s.len <= datas'.from)
                 /\ \A k \in 1 .. s.len : At(s, k)' = At(s, k)
<1> DEFINE all   == Content(datas) \o bytes
           array == heap[datas.array]
<1>1. /\ datas \in Slice /\ datas.array \in 1 .. Len(heap) /\ datas.from \in Nat /\ datas.from >= 1
      /\ datas.len \in Nat /\ datas.from + datas.len - 1 <= Len(array)
      /\ heap \in Seq(Seq(Byte)) /\ Len(heap) \in Nat
  BY LenProperties DEF TypeInv, Within, Slice
<1>2. array \in Seq(Byte) /\ Len(array) \in Nat /\ Len(bytes) \in Nat
  BY <1>1, ElementOfSeq, LenProperties
<1>7. PICK n, f, l, at, top \in Nat :
        /\ n = Len(bytes) /\ f = datas.from /\ l = datas.len /\ at = f + l /\ top = Len(array)
        /\ f >= 1 /\ at > 0 /\ at - 1 <= top
  <2> HIDE DEF array, all
  <2>1. PICK n, f, l, top \in Nat : n = Len(bytes) /\ f = datas.from /\ l = datas.len /\ top = Len(array)
    BY <1>1, <1>2
  <2>2. f >= 1 /\ f + l - 1 <= top
    BY <1>1, <2>1
  <2>3. PICK at \in Nat : at = f + l /\ at > 0 /\ at - 1 <= top
    BY <2>2
  <2> QED BY <2>1, <2>2, <2>3, Zenon
<1>8. at = f + l /\ at > 0 /\ at - 1 <= top /\ f >= 1
  BY <1>7
<1>9. n = Len(bytes) /\ f = datas.from /\ l = datas.len /\ top = Len(array)
  BY <1>7
<1>3. /\ all \in Seq(Byte) /\ Len(all) = l + n
      /\ \A k \in 1 .. l + n : all[k] = IF k <= l THEN At(datas, k) ELSE bytes[k - l]
  <2>1. /\ Content(datas) \in Seq(Byte) /\ Len(Content(datas)) = datas.len
        /\ \A k \in 1 .. datas.len : Content(datas)[k] = At(datas, k)
    BY <1>1, ContentIs
  <2>4. PICK c \in Seq(Byte) : c = Content(datas) /\ Len(c) = l
    BY <1>7, <2>1
  <2>5. all = c \o bytes
    BY <2>4
  <2> HIDE DEF all
  <2>2. /\ all \in Seq(Byte) /\ Len(all) = l + n
        /\ \A k \in 1 .. l + n : all[k] = IF k <= l THEN c[k] ELSE bytes[k - l]
    <3>1. Len(c) = l /\ Len(bytes) = n
      BY <1>7, <2>4
    <3> QED BY <2>5, <3>1, ConcatProperties
  <2>3. ASSUME NEW k \in 1 .. l + n
        PROVE  all[k] = IF k <= l THEN At(datas, k) ELSE bytes[k - l]
    <3>1. k <= l => k \in 1 .. l
      OBVIOUS
    <3>2. \A j \in 1 .. l : c[j] = At(datas, j)
      BY <1>7, <2>1, <2>4
    <3> QED BY <2>2, <3>1, <3>2
  <2> QED BY <2>2, <2>3
<1>4. ASSUME NEW s \in Slice, Within(s)
      PROVE  /\ s.array \in 1 .. Len(heap) /\ s.from \in Nat /\ s.from >= 1 /\ s.len \in Nat
             /\ s.from + s.len - 1 <= Len(heap[s.array])
  BY <1>4 DEF Within, Slice
<1>5. CASE Room(datas) > n
  <2> DEFINE written == Overwrite(array, at, bytes)
  <2>1. heap' = [heap EXCEPT ![datas.array] = written] /\ datas' = [datas EXCEPT !.len = Len(all)]
    BY <1>5, <1>8, <1>9 DEF SkpAppendData
  <2>2. at + n - 1 < top
    <3>1. Room(datas) = top - (f + l - 1) /\ Room(datas) > n
      BY <1>5, <1>7 DEF Room
    <3>2. top - (f + l - 1) > n
      BY <3>1
    <3> QED BY <1>8, <3>2
  <2> HIDE DEF all, array
  <2>3. /\ written \in Seq(Byte) /\ Len(written) = Len(array)
        /\ \A k \in 1 .. Len(array) :
             written[k] = IF k \in at .. at + n - 1 THEN bytes[k - at + 1] ELSE array[k]
    <3>1. PICK r \in Seq(Byte) : r = array
      BY <1>2
    <3>2. /\ Overwrite(r, at, bytes) \in Seq(Byte) /\ Len(Overwrite(r, at, bytes)) = Len(r)
          /\ \A k \in 1 .. Len(r) :
               Overwrite(r, at, bytes)[k] = IF k \in at .. at + Len(bytes) - 1 THEN bytes[k - at + 1] ELSE r[k]
      <4>1. at > 0
        BY <1>8
      <4>2. Overwrite(r, at, bytes) \in Seq(Byte) /\ Len(Overwrite(r, at, bytes)) = Len(r)
        BY <4>1, OverwriteIs
      <4>3. ASSUME NEW k \in 1 .. Len(r)
            PROVE  Overwrite(r, at, bytes)[k] =
                      IF k \in at .. at + Len(bytes) - 1 THEN bytes[k - at + 1] ELSE r[k]
        BY <4>1, OverwriteIs
      <4> QED BY <4>2, <4>3
    <3> QED BY <1>9, <3>1, <3>2
  <2> HIDE DEF written
  <2>4. /\ heap' \in Seq(Seq(Byte)) /\ Len(heap') = Len(heap) /\ heap'[datas.array] = written
        /\ \A a \in 1 .. Len(heap) : a # datas.array => heap'[a] = heap[a]
    BY <1>1, <2>1, <2>3, ExceptSeq
  <2>5. /\ datas' \in Slice /\ datas'.array = datas.array /\ datas'.from = datas.from
        /\ datas'.len = l + n
    <3>1. datas' = [datas EXCEPT !.len = l + n] /\ l + n \in Nat
      BY <1>3, <2>1
    <3> QED BY <1>1, <3>1 DEF Slice
  <2>6. Within(datas)'
    <3>1. f + (l + n) - 1 <= top
      BY <1>8, <2>2
    <3> QED BY <1>1, <1>9, <2>3, <2>4, <2>5, <3>1 DEF Within
  <2>7. ASSUME NEW k \in 1 .. l + n
        PROVE  At(datas, k)' = IF k <= l THEN At(datas, k) ELSE bytes[k - l]
    <3>1. PICK i : i = f + k - 1
      OBVIOUS
    <3>2. i \in 1 .. top /\ (i \in at .. at + n - 1 <=> ~(k <= l)) /\ i - at + 1 = k - l
      BY <1>8, <2>2, <3>1
    <3>3. At(datas, k)' = written[i] /\ At(datas, k) = array[i]
      BY <1>7, <2>4, <2>5, <3>1 DEF At, array
    <3> QED BY <1>7, <2>3, <3>2, <3>3
  <2>8. ASSUME NEW s \in Slice, Within(s), s.array = datas.array => s.from + s.len <= datas.from
        PROVE  /\ Within(s)' /\ (s.array = datas'.array => s.from + s.len <= datas'.from)
               /\ \A k \in 1 .. s.len : At(s, k)' = At(s, k)
    <3>1. CASE s.array # datas.array
      BY <1>4, <2>4, <2>5, <2>8, <3>1 DEF Within, At
    <3>2. CASE s.array = datas.array
      <4>1. Within(s)' /\ s.from + s.len <= datas'.from
        BY <1>1, <1>4, <2>3, <2>4, <2>5, <2>8, <3>2 DEF Within, array
      <4>2. ASSUME NEW k \in 1 .. s.len
            PROVE  At(s, k)' = At(s, k)
        <5>1. PICK i : i = s.from + k - 1
          OBVIOUS
        <5>2. PICK u, v \in Nat : u = s.from /\ v = s.len /\ u >= 1 /\ u + v - 1 <= top /\ u + v <= f
          BY <1>4, <1>7, <2>8, <3>2 DEF array
        <5>3. i \in 1 .. top /\ i \notin at .. at + n - 1
          <6>1. i = u + k - 1 /\ k \in 1 .. v
            BY <5>1, <5>2
          <6>2. i >= 1 /\ i <= u + v - 1 /\ i \in Int
            BY <5>2, <6>1, SMTT(30)
          <6>3. u + v - 1 <= top /\ u + v <= f
            BY <5>2
          <6>4. i <= top /\ i < f
            BY <6>2, <6>3
          <6> QED BY <1>8, <6>2, <6>4
        <5>4. At(s, k)' = written[i] /\ At(s, k) = array[i]
          BY <2>4, <3>2, <5>1 DEF At, array
        <5> QED BY <1>7, <2>3, <5>3, <5>4
      <4> QED BY <4>1, <4>2
    <3> QED BY <3>1, <3>2
  <2> QED BY <1>7, <2>4, <2>5, <2>6, <2>7, <2>8
<1>6. CASE ~(Room(datas) > n)
  <2> DEFINE blank == Blank(Len(all) + DataCacheMax)
             new   == Overwrite(blank, 1, all)
             a     == Len(heap) + 1
  <2>1. heap' = Append(heap, new) /\ datas' = [array |-> a, from |-> 1, len |-> Len(all)]
    BY <1>6, <1>9 DEF SkpAppendData
  <2> HIDE DEF all, array
  <2>2. PICK z \in Nat : z = l + n /\ z = Len(all) /\ DataCacheMax \in Nat /\ z + DataCacheMax \in Nat
    BY <1>3, StreamAssumption
  <2>3. blank \in Seq(Byte) /\ Len(blank) = z + DataCacheMax
    BY <2>2, BlankIs
  <2> HIDE DEF blank
  <2>4. /\ new \in Seq(Byte) /\ Len(new) = z + DataCacheMax
        /\ \A k \in 1 .. z + DataCacheMax : new[k] = IF k \in 1 .. 1 + z - 1 THEN all[k - 1 + 1] ELSE blank[k]
    <3>1. PICK r, t \in Seq(Byte) : r = blank /\ t = all
      BY <1>3, <2>3
    <3>2. /\ Overwrite(r, 1, t) \in Seq(Byte) /\ Len(Overwrite(r, 1, t)) = Len(r)
          /\ \A k \in 1 .. Len(r) :
               Overwrite(r, 1, t)[k] = IF k \in 1 .. 1 + Len(t) - 1 THEN t[k - 1 + 1] ELSE r[k]
      <4>1. 1 \in Nat /\ 1 > 0
        OBVIOUS
      <4>2. Overwrite(r, 1, t) \in Seq(Byte) /\ Len(Overwrite(r, 1, t)) = Len(r)
        BY <4>1, OverwriteIs
      <4>3. ASSUME NEW k \in 1 .. Len(r)
            PROVE  Overwrite(r, 1, t)[k] = IF k \in 1 .. 1 + Len(t) - 1 THEN t[k - 1 + 1] ELSE r[k]
        BY <4>1, OverwriteIs
      <4> QED BY <4>2, <4>3
    <3> QED BY <2>2, <2>3, <3>1, <3>2
  <2>5. ASSUME NEW k \in 1 .. z
        PROVE  new[k] = all[k]
    <3>1. k \in 1 .. z + DataCacheMax /\ k \in 1 .. 1 + z - 1 /\ k - 1 + 1 = k
      BY <2>2
    <3> QED BY <2>4, <3>1
  <2> HIDE DEF new
  <2>6. /\ heap' \in Seq(Seq(Byte)) /\ Len(heap') = a /\ heap'[a] = new
        /\ \A i \in 1 .. Len(heap) : heap'[i] = heap[i]
    BY <1>1, <2>1, <2>4, AppendProperties
  <2>7. a \in Nat /\ a \in 1 .. Len(heap') /\ \A i \in 1 .. Len(heap) : i # a /\ i \in 1 .. Len(heap')
    BY <1>1, <2>6
  <2> HIDE DEF a
  <2>8. datas' \in Slice /\ datas'.array = a /\ datas'.from = 1 /\ datas'.len = z
    BY <2>1, <2>2, <2>7 DEF Slice
  <2>9. Within(datas)'
    <3>1. 1 + z - 1 <= Len(new)
      BY <2>2, <2>4
    <3> QED BY <2>6, <2>7, <2>8, <3>1 DEF Within
  <2>10. ASSUME NEW k \in 1 .. l + n
         PROVE  At(datas, k)' = IF k <= l THEN At(datas, k) ELSE bytes[k - l]
    <3>1. k \in 1 .. z /\ 1 + k - 1 = k
      BY <2>2
    <3>2. At(datas, k)' = new[k]
      BY <2>6, <2>8, <3>1 DEF At
    <3> QED BY <1>3, <2>5, <3>1, <3>2
  <2>11. ASSUME NEW s \in Slice, Within(s)
         PROVE  /\ Within(s)' /\ s.array # datas'.array
                /\ \A k \in 1 .. s.len : At(s, k)' = At(s, k)
    BY <1>4, <2>6, <2>7, <2>8, <2>11 DEF Within, At
  <2> QED BY <2>2, <2>6, <2>8, <2>9, <2>10, <2>11, <1>7
<1> QED BY <1>5, <1>6

LEMMA ReadKeeps ==
  ASSUME SInv, Read
  PROVE  SInv'
<1>1. PICK n \in 1 .. ReadMax :
        /\ read + n <= Len(Stream) /\ read' = read + n
        /\ SkpAppendData(SubSeq(Stream, read + 1, read + n))
  BY DEF Read, Stream
<1>2. UNCHANGED <<peer, away, isConn, readChan, loop, data, IsConn, next, out>> /\ reader' = "check"
  BY DEF Read
<1>3. TypeInv
  BY DEF SInv
<1>4. PICK w, d \in 0 .. Packets, idx \in [0 .. Len(next) -> 0 .. Packets] : FlowInv(idx, w, d)
  BY DEF SInv
<1>5. PICK o, l, r \in Nat : o = Off(d) /\ l = datas.len /\ r = read /\ r = o + l
  <2>1. Off(d) \in Nat /\ datas.len \in Nat /\ read = Off(d) + datas.len
    BY <1>3, <1>4, SentSteps DEF TypeInv, Slice, FlowInv, DatasInv
  <2> QED BY <2>1
<1>6. /\ Within(datas) /\ \A k \in 1 .. l : At(datas, k) = Stream[o + k]
      /\ r + n <= Len(Stream) /\ read' = r + n /\ n \in Nat /\ Len(Stream) \in Nat
      /\ Stream \in Seq(Byte)
  BY <1>1, <1>4, <1>5, StreamAssumption, StreamBytes, LenProperties DEF FlowInv, DatasInv
<1>7. PICK bytes : bytes = SubSeq(Stream, r + 1, r + n)
  OBVIOUS
<1>8. /\ bytes \in Seq(Byte) /\ Len(bytes) = n
      /\ \A k \in 1 .. n : bytes[k] = Stream[r + k]
  <2>1. \A i \in r + 1 .. r + n : Stream[i] \in Byte
    <3>1. \A i \in r + 1 .. r + n : i \in 1 .. Len(Stream)
      BY <1>6
    <3> QED BY <1>6, <3>1, ElementOfSeq
  <2>2. r + 1 \in Int /\ r + n \in Int /\ (r + n) - (r + 1) + 1 = n /\ r + 1 <= r + n
    BY <1>6
  <2>3. /\ SubSeq(Stream, r + 1, r + n) \in Seq(Byte)
        /\ Len(SubSeq(Stream, r + 1, r + n)) = IF r + 1 <= r + n THEN (r + n) - (r + 1) + 1 ELSE 0
        /\ \A k \in 1 .. (r + n) - (r + 1) + 1 : SubSeq(Stream, r + 1, r + n)[k] = Stream[r + 1 + k - 1]
    BY <2>1, <2>2, SubSeqProperties
  <2>4. \A k \in 1 .. n : r + 1 + k - 1 = r + k
    OBVIOUS
  <2> QED BY <1>7, <2>2, <2>3, <2>4
<1>9. /\ heap' \in Seq(Seq(Byte)) /\ datas' \in Slice /\ Within(datas)' /\ datas'.len = l + n
      /\ \A k \in 1 .. l + n : At(datas, k)' = IF k <= l THEN At(datas, k) ELSE bytes[k - l]
      /\ \A s \in Slice :
           Within(s) /\ (s.array = datas.array => s.from + s.len <= datas.from)
           => /\ Within(s)' /\ (s.array = datas'.array => s.from + s.len <= datas'.from)
              /\ \A k \in 1 .. s.len : At(s, k)' = At(s, k)
  <2>1. SkpAppendData(bytes)
    BY <1>1, <1>5, <1>7
  <2> QED BY <1>3, <1>5, <1>6, <1>8, <2>1, Appended
<1>10. TypeInv'
  <2>1. read' \in 0 .. Len(Stream)
    BY <1>6
  <2> QED BY <1>2, <1>3, <1>9, <2>1 DEF TypeInv
<1>11. DatasInv(d)'
  <2>1. ASSUME NEW k \in 1 .. l + n
        PROVE  At(datas, k)' = Stream[o + k]
    <3>1. CASE k <= l
      BY <1>6, <1>9, <3>1
    <3>2. CASE ~(k <= l)
      <4>1. k - l \in 1 .. n /\ r + (k - l) = o + k
        <5>1. n \in Nat /\ r = o + l
          BY <1>5, <1>6
        <5> QED BY <3>2, <5>1
      <4>2. bytes[k - l] = Stream[r + (k - l)]
        BY <1>8, <4>1
      <4> QED BY <1>9, <3>2, <4>1, <4>2
    <3> QED BY <3>1, <3>2
  <2>2. read' = o + datas'.len
    BY <1>5, <1>6, <1>9
  <2> QED BY <1>5, <1>9, <2>1, <2>2 DEF DatasInv, Off
<1>12. \A s, p, m : Holds(s, p, m) => Holds(s, p, m)'
  <2> SUFFICES ASSUME NEW s, NEW p, NEW m, Holds(s, p, m)
               PROVE  Holds(s, p, m)'
    OBVIOUS
  <2>1. s \in Slice /\ Within(s) /\ s.len = Size[p] /\ (s.array = datas.array => s.from + s.len <= datas.from)
    BY DEF Holds
  <2>2. \A k \in 1 .. Size[p] : At(s, k)' = <<p, k, m /\ peer = "client" /\ k \in AddrAt>>
    BY <1>9, <2>1 DEF Holds
  <2> QED BY <1>2, <1>9, <2>1, <2>2, StillHolds
<1>13. FlowInv(idx, w, d)'
  <2>1. /\ \A i \in 1 .. Len(next') : Holds(next[i], idx[i], TRUE)' /\ Follows(idx, i, w)'
        /\ \A i \in 1 .. Len(readChan') : Holds(readChan[i], d - Len(readChan) + i, FALSE)'
    BY <1>2, <1>4, <1>12, DueSame DEF FlowInv, Follows
  <2>2. /\ loop = "mark" => Holds(data, w + 1, FALSE)' /\ Kind(w + 1)' = "data"
        /\ loop = "forward" => Holds(data, w + 1, TRUE)' /\ Kind(w + 1)' = "data"
    BY <1>2, <1>4, <1>12 DEF FlowInv, Kind
  <2>3. /\ out' = Due'[idx[0]] /\ Due'[w] = Due'[idx[Len(next')]]
        /\ loop' # "ended" => w + InHand' + Len(readChan') = d
    BY <1>2, <1>4, DueSame DEF FlowInv, InHand
  <2> QED BY <1>2, <1>11, <2>1, <2>2, <2>3 DEF FlowInv
<1> QED BY <1>2, <1>4, <1>10, <1>13 DEF SInv

-----------------------------------------------------------------------------
LEMMA InitKeeps == Init => SInv
<1> SUFFICES ASSUME Init
             PROVE  SInv
  OBVIOUS
<1>1. DataCacheMax \in Nat /\ Len(Stream) \in Nat /\ 0 \in 0 .. Len(Stream) /\ 0 \in 0 .. Packets
  BY StreamAssumption, StreamBytes, LenProperties
<1>2. PICK blank \in Seq(Byte) : heap = <<blank>> /\ Len(blank) \in Nat
  BY <1>1, BlankIs DEF Init
<1>3. heap \in Seq(Seq(Byte)) /\ Len(heap) = 1
  BY <1>2
<1>4. Nil \in Slice /\ <<>> \in Seq(Slice)
  BY EmptySeq DEF Nil, Slice
<1>5. TypeInv
  BY <1>1, <1>3, <1>4 DEF Init, TypeInv
<1>6. DatasInv(0)
  <2>1. Off(0) = 0 /\ read = 0 /\ datas.array = 1 /\ datas.from = 1 /\ datas.len = 0
    BY SentSteps DEF Init, Nil
  <2>2. heap[1] = blank
    BY <1>2
  <2> QED BY <1>2, <1>3, <2>1, <2>2 DEF DatasInv, Within
<1>7. PICK idx : idx = [i \in 0 .. 0 |-> 0]
  OBVIOUS
<1>8. Len(next) = 0 /\ idx \in [0 .. Len(next) -> 0 .. Packets] /\ idx[0] = 0
  BY <1>1, <1>7 DEF Init
<1>9. FlowInv(idx, 0, 0)
  BY <1>6, <1>8, DueSteps DEF FlowInv, Init, InHand
<1> QED BY <1>1, <1>5, <1>8, <1>9 DEF SInv

LEMMA NextKeeps == SInv /\ [Next]_vars => SInv'
BY QuietKeeps, ReadKeeps, PushPacketKeeps, TakePacketKeeps, SkpSetAddrSocketKeeps, SkpDataKeeps,
   EndLoopKeeps, NextWritesKeeps DEF Next, SkpRead, SkpRun

(* Every slice on its way holds one packet of the peer, as it was sent or  *)
(* with the address, and stands before what SkpRead still writes to        *)
(* (SkpAppendData, SkpGetData, SkpSkipData).                               *)
THEOREM Invariance == Spec => []SInv
<1> QED BY InitKeeps, NextKeeps, PTL DEF Spec

(* What is passed on are the packets of the peer, whole, once and in       *)
(* order, with the address where the run loop writes it: for every number  *)
(* and size of packets, of heads, arrays and reads.                        *)
THEOREM PacketsPassWhole == Spec => []RelayedWhole
<1>1. SInv => RelayedWhole
  <2> SUFFICES ASSUME SInv PROVE RelayedWhole
    OBVIOUS
  <2>1. PICK w, d \in 0 .. Packets, idx \in [0 .. Len(next) -> 0 .. Packets] : FlowInv(idx, w, d)
    BY DEF SInv
  <2>2. Len(next) \in Nat /\ out = Due[idx[0]]
    BY <2>1, LenProperties DEF SInv, TypeInv, FlowInv
  <2>3. idx[0] \in 0 .. Packets
    BY <2>2
  <2> QED BY <2>2, <2>3 DEF RelayedWhole
<1> QED BY <1>1, Invariance, PTL
================================================================================
