---------------------------- MODULE MqStream_proofs ----------------------------
(***************************************************************************)
(* That the messages read from a connection are the first of those written *)
(* to it, each once, for any messages and lengths (FramesWhole).           *)
(*                                                                         *)
(* A message is told from its frame by its last byte, which is written     *)
(* once, by the WriteBody that ends it (CopyInv); nothing else keeps a     *)
(* message from being read twice when frames are mixed.  On a stream on    *)
(* which they are not, what the reader has and what is on its way, Rest,   *)
(* is a sequence of frames: Framed says where each byte has its            *)
(* neighbours, and which message follows which.  On a ConnChan it is a     *)
(* sequence of slices, which are counted (Sliced).                         *)
(***************************************************************************)
EXTENDS MqStream, SequenceTheorems, TLAPS

-----------------------------------------------------------------------------
(* The invariant.                                                          *)
Last(m) == <<m, HeaderSize + BodySize[m]>>
Rest(c) == buffer[c] \o wire[c]

\* The body of m was written.
Over(m) == m \notin todo /\ \A p \in Producers : cur[p] # m

\* A message has one producer, and is written to the end once.
OwnInv ==
    /\ \A p, q \in Producers : cur[p] = cur[q] /\ cur[p] # None => p = q
    /\ \A p \in Producers : cur[p] \notin todo
    /\ \A c \in Conns : \A i \in DOMAIN sent[c] : Over(sent[c][i])
    /\ \A c \in Conns : \A i, j \in DOMAIN sent[c] : sent[c][i] = sent[c][j] => i = j

\* The places where the end of a message can be.
InWire(m, c, i) == i \in DOMAIN wire[c] /\ wire[c][i] = IF local THEN Body(m) ELSE Last(m)
InBuffer(m, c, i) == i \in DOMAIN buffer[c] /\ buffer[c][i] = Last(m)
InGot(m, c, i) == i \in DOMAIN got[c] /\ got[c][i] = m

\* It is in one place at most, and in none before it is written.
CopyInv ==
    \A m \in Msgs : \A c, d \in Conns : \A i, j \in Nat :
        /\ InWire(m, c, i) => Over(m)
        /\ InBuffer(m, c, i) => Over(m)
        /\ InGot(m, c, i) => Over(m)
        /\ InWire(m, c, i) /\ InWire(m, d, j) => c = d /\ i = j
        /\ InBuffer(m, c, i) /\ InBuffer(m, d, j) => c = d /\ i = j
        /\ InGot(m, c, i) /\ InGot(m, d, j) => c = d /\ i = j
        /\ ~(InWire(m, c, i) /\ InBuffer(m, d, j))
        /\ ~(InWire(m, c, i) /\ InGot(m, d, j))
        /\ ~(InBuffer(m, c, i) /\ InGot(m, d, j))

\* p has written the size and not the body.
Inside(p, c) == pc[p] = "body" /\ on[p] = c

\* Unless frames are mixed, one producer at a time is within a frame.
AloneInv ==
    \A c \in Conns : ~mixed[c] =>
        \A p, q \in Producers : Inside(p, c) /\ Inside(q, c) => p = q

(* r is a sequence of frames, of which the first may be cut off behind and *)
(* only the last one: each byte has the others of its frame around it, the *)
(* end of a frame is followed by a beginning, and the messages that end in *)
(* r are those of s from the (g + 1)-st on.                                *)
Runs(r) == \A i, j \in DOMAIN r :
    1 <= r[i][2] + j - i /\ r[i][2] + j - i <= HeaderSize + BodySize[r[i][1]]
        => r[j] = <<r[i][1], r[i][2] + j - i>>
Begins(r) == \A i, j \in DOMAIN r : j = i + 1 /\ r[i] = Last(r[i][1]) => r[j][2] = 1
Follows(r, s, g) == \A i \in DOMAIN r : r[i] = Last(r[i][1]) =>
    \E a \in DOMAIN s :
        /\ a > g /\ s[a] = r[i][1]
        /\ \A j \in DOMAIN r : j = i + 1 /\ a < Len(s) => r[j][1] = s[a + 1]
Chain(r, s, g) ==
    /\ r # <<>> => r[1][2] = 1 /\ (g < Len(s) => r[1][1] = s[g + 1])
    /\ Runs(r) /\ Begins(r) /\ Follows(r, s, g)

\* The last message of s ends at e.
EndsAt(r, s, g, e) ==
    /\ e \in 0 .. Len(r)
    /\ e = 0 <=> g = Len(s)
    /\ e > 0 => r[e] = Last(s[Len(s)])

Opened(r, e, m) == Len(r) = e + HeaderSize /\ \A k \in 1 .. HeaderSize : r[e + k] = <<m, k>>

Framed(c) ==
    /\ Chain(Rest(c), sent[c], Len(got[c]))
    /\ c \in up =>
          /\ (\A p \in Producers : ~Inside(p, c)) =>
                EndsAt(Rest(c), sent[c], Len(got[c]), Len(Rest(c)))
          /\ \A p \in Producers : Inside(p, c) =>
                /\ EndsAt(Rest(c), sent[c], Len(got[c]), Len(Rest(c)) - HeaderSize)
                /\ Opened(Rest(c), Len(Rest(c)) - HeaderSize, cur[p])

FrameInv == ~local => \A c \in Conns : reader[c] = "on" /\ ~mixed[c] => Framed(c)

(* Of the slices since the last message that was read, h are in b and the  *)
(* others in w; the messages of s from the (g + 1)-st on have two each, and *)
(* one more has its size there, or not.                                    *)
Begun(w, s, g, h) == Len(w) + h = 2 * (Len(s) - g) + 1
Ended(w, s, g, h) == Len(w) + h = 2 * (Len(s) - g)
Slices(b, w, s, g, h) ==
    /\ h = 0 => b = <<>>
    /\ h = 1 => \E m \in Msgs : b = Size(m) /\ (g < Len(s) => m = s[g + 1])
    /\ h = 2 => g < Len(s) /\ b = Frame(s[g + 1])
    /\ Begun(w, s, g, h) \/ Ended(w, s, g, h)
    /\ \A a \in DOMAIN s : a > g => \A i \in DOMAIN w :
          /\ i + h + 1 = 2 * (a - g) => w[i] = Size(s[a])
          /\ i + h = 2 * (a - g) => w[i] = Body(s[a])
    /\ Len(w) > 0 /\ Begun(w, s, g, h) => \E m \in Msgs : w[Len(w)] = Size(m)

\* The last slice is the size of m.
SizeIn(b, w, m) == IF w = <<>> THEN b = Size(m) ELSE w[Len(w)] = Size(m)

Sliced(c, h) ==
    /\ Slices(buffer[c], wire[c], sent[c], Len(got[c]), h)
    /\ c \in up =>
          /\ (\E p \in Producers : Inside(p, c)) <=> Begun(wire[c], sent[c], Len(got[c]), h)
          /\ \A p \in Producers : Inside(p, c) => SizeIn(buffer[c], wire[c], cur[p])

SliceInv == local =>
    /\ \A c \in Conns : \A i \in DOMAIN wire[c] : \E m \in Msgs : wire[c][i] \in {Size(m), Body(m)}
    /\ \A c \in Conns : reader[c] = "on" /\ ~mixed[c] => \E h \in 0 .. 2 : Sliced(c, h)

PrefixInv == \A c \in Conns : ~mixed[c] =>
    StartsWith(sent[c], got[c]) /\ (reader[c] = "stuck" => TooLong(c))

FInv == OwnInv /\ CopyInv /\ AloneInv /\ FrameInv /\ SliceInv /\ PrefixInv

-----------------------------------------------------------------------------
(* Bytes and frames.                                                       *)
(* The lengths are those of the code's 4 bytes and of what it marshals.    *)
LEMMA Lengths ==
    /\ HeaderSize \in Nat /\ HeaderSize >= 1 /\ HeaderSize <= ReadMax /\ ReadMax \in Nat
    /\ \A m \in Msgs : BodySize[m] \in Nat /\ BodySize[m] >= 1
    /\ MaxConns \in Nat /\ MaxConns >= 1 /\ None \notin Msgs
  BY StreamAssumption

(* A frame has the size and the body of its message, byte by byte.         *)
LEMMA FrameParts ==
  ASSUME NEW m \in Msgs
  PROVE  /\ Len(Frame(m)) = HeaderSize + BodySize[m]
         /\ Frame(m) \in Seq(Bytes) /\ Size(m) \in Seq(Bytes) /\ Body(m) \in Seq(Bytes)
         /\ Len(Size(m)) = HeaderSize /\ Len(Body(m)) = BodySize[m]
         /\ \A k \in 1 .. HeaderSize + BodySize[m] : Frame(m)[k] = <<m, k>>
         /\ \A k \in 1 .. HeaderSize : Size(m)[k] = <<m, k>>
         /\ \A k \in 1 .. BodySize[m] : Body(m)[k] = <<m, HeaderSize + k>>
<1>1. HeaderSize \in Nat /\ HeaderSize >= 1 /\ BodySize[m] \in Nat /\ BodySize[m] >= 1
  BY Lengths
<1>2. Len(Frame(m)) = HeaderSize + BodySize[m]
  BY <1>1 DEF Frame
<1>3. ASSUME NEW k \in 1 .. HeaderSize + BodySize[m]
      PROVE  Frame(m)[k] = <<m, k>> /\ <<m, k>> \in Bytes
  <2>1. Frame(m)[k] = <<m, k>>
    BY <1>1 DEF Frame
  <2>2. <<m, k>> \in {<<m, i>> : i \in 1 .. Len(Frame(m))}
    BY <1>2
  <2> QED  BY <2>1, <2>2 DEF Bytes
<1>4. Frame(m) \in Seq(Bytes)
  <2>1. Frame(m) \in [1 .. HeaderSize + BodySize[m] -> Bytes]
    BY <1>3 DEF Frame
  <2>2. HeaderSize + BodySize[m] \in Nat
    BY <1>1
  <2> QED  BY <2>1, <2>2, SeqDef
<1> DEFINE h == HeaderSize
           l == HeaderSize + BodySize[m]
<1>5. Size(m) \in Seq(Bytes) /\ Len(Size(m)) = HeaderSize /\ \A k \in 1 .. HeaderSize : Size(m)[k] = <<m, k>>
  <2>0. \A i \in 1 .. h : i \in 1 .. HeaderSize + BodySize[m]
    BY <1>1
  <2>1. 1 \in Int /\ h \in Int /\ \A i \in 1 .. h : Frame(m)[i] \in Bytes
    <3>1. 1 \in Int /\ h \in Int
      BY <1>1
    <3> QED  BY <2>0, <1>3, <3>1, Zenon
  <2>2. /\ Size(m) \in Seq(Bytes) /\ Len(Size(m)) = (IF 1 <= h THEN h - 1 + 1 ELSE 0)
        /\ \A i \in 1 .. h - 1 + 1 : Size(m)[i] = Frame(m)[1 + i - 1]
    BY <2>1, SubSeqProperties DEF Size
  <2>3. Len(Size(m)) = h
    BY <1>1, <2>2
  <2>4. ASSUME NEW k \in 1 .. h  PROVE Size(m)[k] = <<m, k>>
    <3>1. k \in 1 .. h - 1 + 1 /\ 1 + k - 1 = k
      BY <1>1
    <3>2. Size(m)[k] = Frame(m)[k]
      BY <2>2, <3>1
    <3> QED  BY <2>0, <1>3, <3>2
  <2> QED  BY <2>2, <2>3, <2>4
<1>6. Body(m) \in Seq(Bytes) /\ Len(Body(m)) = BodySize[m] /\ \A k \in 1 .. BodySize[m] : Body(m)[k] = <<m, HeaderSize + k>>
  <2>0. \A i \in h + 1 .. l : i \in 1 .. HeaderSize + BodySize[m]
    BY <1>1
  <2>1. h + 1 \in Int /\ l \in Int /\ \A i \in h + 1 .. l : Frame(m)[i] \in Bytes
    <3>1. h + 1 \in Int /\ l \in Int
      BY <1>1
    <3> QED  BY <2>0, <1>3, <3>1, Zenon
  <2>2. /\ Body(m) \in Seq(Bytes) /\ Len(Body(m)) = (IF h + 1 <= l THEN l - (h + 1) + 1 ELSE 0)
        /\ \A i \in 1 .. l - (h + 1) + 1 : Body(m)[i] = Frame(m)[h + 1 + i - 1]
    BY <2>1, SubSeqProperties DEF Body
  <2>3. Len(Body(m)) = BodySize[m]
    BY <1>1, <2>2
  <2>4. ASSUME NEW k \in 1 .. BodySize[m]  PROVE Body(m)[k] = <<m, h + k>>
    <3>1. k \in 1 .. l - (h + 1) + 1 /\ h + 1 + k - 1 = h + k /\ h + k \in h + 1 .. l
      BY <1>1
    <3>2. Body(m)[k] = Frame(m)[h + k]
      BY <2>2, <3>1
    <3> QED  BY <2>0, <1>3, <3>1, <3>2
  <2> QED  BY <2>2, <2>3, <2>4
<1> QED  BY <1>2, <1>3, <1>4, <1>5, <1>6

(* What a byte is.                                                         *)
LEMMA ByteParts ==
  ASSUME NEW b \in Bytes
  PROVE  b[1] \in Msgs /\ b[2] \in Nat /\ 1 <= b[2] /\ b[2] <= HeaderSize + BodySize[b[1]] /\ b = <<b[1], b[2]>>
<1>1. PICK m \in Msgs : b \in {<<m, k>> : k \in 1 .. Len(Frame(m))}
  BY DEF Bytes
<1> QED  BY <1>1, FrameParts, Lengths

LEMMA BytesOf ==
  ASSUME NEW r \in Seq(Bytes), NEW i \in DOMAIN r
  PROVE  r[i][1] \in Msgs /\ r[i][2] \in Nat /\ 1 <= r[i][2] /\ r[i][2] <= HeaderSize + BodySize[r[i][1]]
            /\ r[i] = <<r[i][1], r[i][2]>>
<1>1. r[i] \in Bytes
  OBVIOUS
<1> QED  BY <1>1, ByteParts

LEMMA StartsWithFrame ==
  ASSUME NEW b \in Seq(Bytes), NEW m \in Msgs, StartsWith(b, Frame(m))
  PROVE  /\ HeaderSize + BodySize[m] <= Len(b)
         /\ \A k \in 1 .. HeaderSize + BodySize[m] : b[k] = <<m, k>>
<1> DEFINE n == HeaderSize + BodySize[m]
<1>1. n \in Nat /\ n >= 1 /\ Len(b) \in Nat
  BY Lengths
<1>2. Len(Frame(m)) = n /\ \A k \in 1 .. n : Frame(m)[k] = <<m, k>>
  BY FrameParts
<1>3. n <= Len(b) /\ SubSeq(b, 1, n) = Frame(m)
  BY <1>2 DEF StartsWith
<1>4. 1 \in Int /\ n \in Int /\ \A i \in 1 .. n : b[i] \in Bytes
  BY <1>1, <1>3
<1>5. \A i \in 1 .. n - 1 + 1 : SubSeq(b, 1, n)[i] = b[1 + i - 1]
  BY <1>4, SubSeqProperties
<1>6. ASSUME NEW k \in 1 .. n  PROVE b[k] = <<m, k>>
  <2>1. k \in 1 .. n - 1 + 1 /\ 1 + k - 1 = k
    BY <1>1
  <2> QED  BY <2>1, <1>2, <1>3, <1>5
<1> QED  BY <1>3, <1>6

-----------------------------------------------------------------------------
(* What happens to a sequence of frames.                                   *)
(* A cut of the bytes on their way leaves a sequence of frames (Break).    *)
LEMMA ChainCut ==
  ASSUME NEW r \in Seq(Bytes), NEW s \in Seq(Msgs), NEW g \in Nat, Chain(r, s, g), NEW n \in 0 .. Len(r)
  PROVE  Chain(SubSeq(r, 1, n), s, g)
<1> DEFINE t == SubSeq(r, 1, n)
<1>1. t \in Seq(Bytes) /\ Len(t) = n /\ \A i \in 1 .. n : t[i] = r[i]
  BY SubSeqProperties
<1>2. DOMAIN t = 1 .. n /\ DOMAIN r = 1 .. Len(r) /\ 1 .. n \subseteq DOMAIN r
  BY <1>1
<1>3. t # <<>> => t[1][2] = 1 /\ (g < Len(s) => t[1][1] = s[g + 1])
  <2> SUFFICES ASSUME t # <<>> PROVE t[1][2] = 1 /\ (g < Len(s) => t[1][1] = s[g + 1])
    OBVIOUS
  <2>1. n >= 1 /\ r # <<>> /\ t[1] = r[1]
    BY <1>1
  <2> QED  BY <2>1 DEF Chain
<1> HIDE DEF t
<1>4. Runs(t)
  BY <1>1, <1>2 DEF Chain, Runs
<1>5. Begins(t)
  BY <1>1, <1>2 DEF Chain, Begins
<1>6. Follows(t, s, g)
  <2> SUFFICES ASSUME NEW i \in DOMAIN t, t[i] = Last(t[i][1])
               PROVE  \E a \in DOMAIN s : /\ a > g /\ s[a] = t[i][1]
                         /\ \A j \in DOMAIN t : j = i + 1 /\ a < Len(s) => t[j][1] = s[a + 1]
    BY DEF Follows
  <2>1. i \in DOMAIN r /\ r[i] = t[i]
    BY <1>1, <1>2
  <2>2. PICK a \in DOMAIN s : /\ a > g /\ s[a] = r[i][1]
                              /\ \A j \in DOMAIN r : j = i + 1 /\ a < Len(s) => r[j][1] = s[a + 1]
    BY <2>1 DEF Chain, Follows
  <2> QED  BY <1>1, <1>2, <2>1, <2>2
<1> QED  BY <1>3, <1>4, <1>5, <1>6 DEF Chain, t

\* No two bytes of r end the same message, and no two of s are the same.
OnceEach(r, s) ==
    /\ \A i, j \in DOMAIN r : r[i] = Last(r[i][1]) /\ r[j] = r[i] => i = j
    /\ \A a, b \in DOMAIN s : s[a] = s[b] => a = b

(* After whole frames, a size opens the next one (WriteSize).              *)
LEMMA ChainSize ==
  ASSUME NEW r \in Seq(Bytes), NEW s \in Seq(Msgs), NEW g \in Nat, Chain(r, s, g), g <= Len(s),
         EndsAt(r, s, g, Len(r)), OnceEach(r, s), NEW m \in Msgs
  PROVE  /\ Chain(r \o Size(m), s, g)
         /\ EndsAt(r \o Size(m), s, g, Len(r)) /\ Opened(r \o Size(m), Len(r), m)
<1> DEFINE t == r \o Size(m)
           e == Len(r)
<1>0. HeaderSize \in Nat /\ HeaderSize >= 1 /\ BodySize[m] \in Nat /\ BodySize[m] >= 1 /\ e \in Nat /\ Len(s) \in Nat
  BY Lengths
<1>1. /\ t \in Seq(Bytes) /\ Len(t) = e + HeaderSize
      /\ \A i \in 1 .. e + HeaderSize : t[i] = IF i <= e THEN r[i] ELSE <<m, i - e>>
  <2>1. Size(m) \in Seq(Bytes) /\ Len(Size(m)) = HeaderSize /\ \A k \in 1 .. HeaderSize : Size(m)[k] = <<m, k>>
    BY FrameParts
  <2>2. /\ t \in Seq(Bytes) /\ Len(t) = e + HeaderSize
        /\ \A i \in 1 .. e + HeaderSize : t[i] = IF i <= e THEN r[i] ELSE Size(m)[i - e]
    BY <2>1, ConcatProperties
  <2>3. ASSUME NEW i \in 1 .. e + HeaderSize, i > e  PROVE t[i] = <<m, i - e>>
    <3>1. i - e \in 1 .. HeaderSize /\ ~(i <= e)
      BY <2>3, <1>0
    <3>2. t[i] = Size(m)[i - e]
      BY <2>2, <3>1
    <3> QED  BY <2>1, <3>1, <3>2
  <2>4. \A i \in 1 .. e + HeaderSize : i <= e \/ i > e
    BY <1>0
  <2> QED  BY <2>2, <2>3, <2>4
<1> HIDE DEF t
<1>2. DOMAIN t = 1 .. e + HeaderSize /\ DOMAIN r = 1 .. e /\ DOMAIN s = 1 .. Len(s)
  BY <1>1
<1>3. \A i \in 1 .. e : t[i] = r[i]
  BY <1>0, <1>1
<1>4. \A i \in 1 .. e + HeaderSize : i > e => t[i] = <<m, i - e>> /\ t[i][1] = m /\ t[i][2] = i - e /\ t[i] # Last(m)
  BY <1>0, <1>1 DEF Last
<1>5. ASSUME NEW i \in 1 .. e
      PROVE  /\ r[i][2] \in Nat /\ r[i][1] \in Msgs /\ HeaderSize + BodySize[r[i][1]] \in Nat
             /\ r[i][2] + e - i <= HeaderSize + BodySize[r[i][1]] => r[i][2] + e - i = HeaderSize + BodySize[r[i][1]]
  <2>1. e \in DOMAIN r /\ i \in DOMAIN r /\ e > 0
    BY <1>0, <1>2
  <2>2. /\ r[i][2] \in Nat /\ r[i][1] \in Msgs /\ 1 <= r[i][2] /\ r[i] = <<r[i][1], r[i][2]>>
        /\ BodySize[r[i][1]] \in Nat
    BY <2>1, BytesOf, Lengths
  <2>3. r[e] = <<s[Len(s)], HeaderSize + BodySize[s[Len(s)]]>>
    BY <2>1 DEF EndsAt, Last
  <2>4. 1 <= r[i][2] + e - i /\ r[i][2] + e - i <= HeaderSize + BodySize[r[i][1]] => r[e] = <<r[i][1], r[i][2] + e - i>>
    BY <2>1 DEF Chain, Runs
  <2> QED  BY <1>0, <2>2, <2>3, <2>4, SMTT(30)
<1>6. t # <<>> => t[1][2] = 1 /\ (g < Len(s) => t[1][1] = s[g + 1])
  <2>1. CASE e = 0
    BY <2>1, <1>0, <1>4 DEF EndsAt
  <2>2. CASE e > 0
    <3>1. r # <<>> /\ t[1] = r[1]
      BY <2>2, <1>0, <1>3
    <3> QED  BY <3>1 DEF Chain
  <2> QED  BY <1>0, <2>1, <2>2
<1>7. Runs(t)
  <2> SUFFICES ASSUME NEW i \in 1 .. e + HeaderSize, NEW j \in 1 .. e + HeaderSize, 1 <= t[i][2] + j - i,
                      t[i][2] + j - i <= HeaderSize + BodySize[t[i][1]]
               PROVE  t[j] = <<t[i][1], t[i][2] + j - i>>
    BY <1>2 DEF Runs
  <2>1. CASE i <= e /\ j <= e
    BY <2>1, <1>2, <1>3, SMTT(30) DEF Chain, Runs
  <2>2. CASE i <= e /\ j > e
    <3>1. i \in 1 .. e /\ t[i] = r[i]
      BY <2>2, <1>0, <1>3
    <3> QED  BY <2>2, <3>1, <1>0, <1>5
  <2>3. CASE i > e
    <3>1. t[i][1] = m /\ t[i][2] = i - e
      BY <2>3, <1>4
    <3>2. j > e
      BY <3>1, <1>0
    <3>3. t[j] = <<m, j - e>> /\ t[i][2] + j - i = j - e
      BY <3>1, <3>2, <1>0, <1>4
    <3> QED  BY <3>1, <3>3
  <2> QED  BY <1>0, <2>1, <2>2, <2>3
<1>8. Begins(t)
  <2> SUFFICES ASSUME NEW i \in 1 .. e + HeaderSize, i + 1 \in 1 .. e + HeaderSize, t[i] = Last(t[i][1])
               PROVE  t[i + 1][2] = 1
    BY <1>2 DEF Begins
  <2>1. i <= e
    BY <1>4, <1>0
  <2>2. CASE i = e
    BY <2>2, <1>0, <1>4
  <2>3. CASE i < e
    <3>1. i \in DOMAIN r /\ i + 1 \in DOMAIN r /\ t[i] = r[i] /\ t[i + 1] = r[i + 1]
      BY <2>3, <1>0, <1>2, <1>3
    <3> QED  BY <3>1 DEF Chain, Begins
  <2> QED  BY <1>0, <2>1, <2>2, <2>3
<1>9. Follows(t, s, g)
  <2> SUFFICES ASSUME NEW i \in 1 .. e + HeaderSize, t[i] = Last(t[i][1])
               PROVE  \E a \in DOMAIN s : /\ a > g /\ s[a] = t[i][1]
                         /\ \A j \in DOMAIN t : j = i + 1 /\ a < Len(s) => t[j][1] = s[a + 1]
    BY <1>2 DEF Follows
  <2>1. i \in 1 .. e /\ t[i] = r[i] /\ i \in DOMAIN r
    BY <1>4, <1>0, <1>2, <1>3
  <2>2. PICK a \in DOMAIN s : /\ a > g /\ s[a] = r[i][1]
                              /\ \A j \in DOMAIN r : j = i + 1 /\ a < Len(s) => r[j][1] = s[a + 1]
    BY <2>1 DEF Chain, Follows
  <2>3. ASSUME NEW j \in DOMAIN t, j = i + 1, a < Len(s)  PROVE t[j][1] = s[a + 1]
    <3>1. CASE j <= e
      BY <3>1, <2>2, <2>3, <1>2, <1>3
    <3>2. CASE j > e
      <4>1. i = e /\ e > 0
        BY <3>2, <2>1, <2>3, <1>0
      <4>2. r[i] = Last(s[Len(s)])
        BY <4>1 DEF EndsAt
      <4>3. r[i][1] = s[Len(s)]
        BY <4>2 DEF Last
      <4>4. Len(s) \in DOMAIN s /\ s[a] = s[Len(s)]
        BY <4>3, <2>2, <1>2, <1>0
      <4>5. a = Len(s)
        BY <4>4 DEF OnceEach
      <4> QED  BY <4>5, <2>3, <1>0
    <3> QED  BY <3>1, <3>2, <1>0, <1>2
  <2> QED  BY <2>1, <2>2, <2>3
<1>10. EndsAt(t, s, g, e)
  BY <1>0, <1>1, <1>3 DEF EndsAt
<1>11. Opened(t, e, m)
  <2>1. ASSUME NEW k \in 1 .. HeaderSize  PROVE t[e + k] = <<m, k>>
    <3>1. e + k \in 1 .. e + HeaderSize /\ e + k > e /\ e + k - e = k
      BY <1>0
    <3> QED  BY <3>1, <1>4
  <2> QED  BY <2>1, <1>1 DEF Opened
<1> QED  BY <1>6, <1>7, <1>8, <1>9, <1>10, <1>11 DEF Chain, t

(* A body ends the frame that its size has opened (WriteBody).             *)
LEMMA ChainBody ==
  ASSUME NEW r \in Seq(Bytes), NEW s \in Seq(Msgs), NEW g \in Nat, Chain(r, s, g), g <= Len(s),
         NEW m \in Msgs, OnceEach(r, s), NEW e \in Nat, EndsAt(r, s, g, e), Opened(r, e, m)
  PROVE  /\ Chain(r \o Body(m), Append(s, m), g)
         /\ EndsAt(r \o Body(m), Append(s, m), g, Len(r \o Body(m)))
<1> DEFINE t == r \o Body(m)
           u == Append(s, m)
           l == e + HeaderSize + BodySize[m]
<1>0. HeaderSize \in Nat /\ HeaderSize >= 1 /\ BodySize[m] \in Nat /\ BodySize[m] >= 1 /\ Len(s) \in Nat /\ e \in Nat /\ l \in Nat
  BY Lengths
<1>a. Len(r) = e + HeaderSize
  BY DEF Opened
<1>1. /\ t \in Seq(Bytes) /\ Len(t) = l
      /\ \A i \in 1 .. l : (i <= e => t[i] = r[i]) /\ (i > e => t[i] = <<m, i - e>>)
  <2>1. Body(m) \in Seq(Bytes) /\ Len(Body(m)) = BodySize[m] /\ \A k \in 1 .. BodySize[m] : Body(m)[k] = <<m, HeaderSize + k>>
    BY FrameParts
  <2>2. /\ t \in Seq(Bytes) /\ Len(t) = Len(r) + BodySize[m]
        /\ \A i \in 1 .. Len(r) + BodySize[m] : t[i] = IF i <= Len(r) THEN r[i] ELSE Body(m)[i - Len(r)]
    <3>1. /\ t \in Seq(Bytes) /\ Len(t) = Len(r) + Len(Body(m))
          /\ \A i \in 1 .. Len(r) + Len(Body(m)) : t[i] = IF i <= Len(r) THEN r[i] ELSE Body(m)[i - Len(r)]
      BY <2>1, ConcatProperties, SMTT(30)
    <3> QED  BY <2>1, <3>1
  <2>3. ASSUME NEW i \in 1 .. l, i > e  PROVE t[i] = <<m, i - e>>
    <3>1. CASE i <= e + HeaderSize
      <4>1. i - e \in 1 .. HeaderSize /\ e + (i - e) = i /\ i \in 1 .. Len(r) + BodySize[m] /\ i <= Len(r)
        BY <3>1, <2>3, <1>0, <1>a
      <4>2. r[i] = <<m, i - e>>
        BY <4>1 DEF Opened
      <4> QED  BY <4>1, <4>2, <2>2
    <3>2. CASE i > e + HeaderSize
      <4>1. i - Len(r) \in 1 .. BodySize[m] /\ HeaderSize + (i - Len(r)) = i - e /\ i \in 1 .. Len(r) + BodySize[m] /\ ~(i <= Len(r))
        BY <3>2, <2>3, <1>0, <1>a
      <4>2. t[i] = Body(m)[i - Len(r)]
        BY <4>1, <2>2
      <4> QED  BY <4>1, <4>2, <2>1
    <3>3. i <= e + HeaderSize \/ i > e + HeaderSize
      BY <1>0
    <3> QED  BY <3>1, <3>2, <3>3, Zenon
  <2>4. ASSUME NEW i \in 1 .. l, i <= e  PROVE t[i] = r[i]
    BY <2>2, <2>4, <1>0, <1>a
  <2>5. Len(t) = l
    BY <2>2, <1>a, <1>0
  <2> QED  BY <2>2, <2>3, <2>4, <2>5
<1>u. u \in Seq(Msgs) /\ Len(u) = Len(s) + 1 /\ u[Len(s) + 1] = m /\ \A a \in 1 .. Len(s) : u[a] = s[a]
  BY AppendProperties
<1> HIDE DEF t, u
<1>2. DOMAIN t = 1 .. l /\ DOMAIN r = 1 .. e + HeaderSize /\ DOMAIN s = 1 .. Len(s) /\ DOMAIN u = 1 .. Len(s) + 1 /\ l \in Nat
  BY <1>1, <1>a, <1>u, <1>0
<1>3. ASSUME NEW i \in 1 .. e  PROVE t[i] = r[i] /\ i \in DOMAIN r
  <2>1. i \in 1 .. l /\ i <= e /\ i \in 1 .. e + HeaderSize
    BY <1>0
  <2> QED  BY <2>1, <1>1, <1>2
<1>4. \A i \in 1 .. l : i > e => t[i] = <<m, i - e>> /\ t[i][1] = m /\ t[i][2] = i - e
  BY <1>0, <1>1
<1>b. \A i \in 1 .. l : i > e /\ t[i] = Last(t[i][1]) => i = l
  <2> SUFFICES ASSUME NEW i \in 1 .. l, i > e, t[i] = Last(t[i][1])  PROVE i = l
    OBVIOUS
  <2>1. t[i] = <<m, i - e>> /\ t[i] = Last(m)
    BY <1>4
  <2>2. i - e = HeaderSize + BodySize[m]
    BY <2>1 DEF Last
  <2> QED  BY <2>2, <1>0
<1>5. ASSUME NEW i \in 1 .. e
      PROVE  /\ r[i][2] \in Nat /\ r[i][1] \in Msgs /\ HeaderSize + BodySize[r[i][1]] \in Nat
             /\ r[i][2] + e - i <= HeaderSize + BodySize[r[i][1]] => r[i][2] + e - i = HeaderSize + BodySize[r[i][1]]
  <2>1. e \in DOMAIN r /\ i \in DOMAIN r /\ e > 0
    BY <1>0, <1>2
  <2>2. /\ r[i][2] \in Nat /\ r[i][1] \in Msgs /\ 1 <= r[i][2] /\ r[i] = <<r[i][1], r[i][2]>>
        /\ BodySize[r[i][1]] \in Nat
    BY <2>1, BytesOf, Lengths
  <2>3. r[e] = <<s[Len(s)], HeaderSize + BodySize[s[Len(s)]]>>
    BY <2>1 DEF EndsAt, Last
  <2>4. 1 <= r[i][2] + e - i /\ r[i][2] + e - i <= HeaderSize + BodySize[r[i][1]] => r[e] = <<r[i][1], r[i][2] + e - i>>
    BY <2>1 DEF Chain, Runs
  <2>5. ASSUME r[i][2] + e - i <= HeaderSize + BodySize[r[i][1]]
        PROVE  r[i][2] + e - i = HeaderSize + BodySize[r[i][1]]
    <3>1. 1 <= r[i][2] + e - i
      BY <2>2, <1>0
    <3>2. <<r[i][1], r[i][2] + e - i>> = <<s[Len(s)], HeaderSize + BodySize[s[Len(s)]]>>
      BY <3>1, <2>3, <2>4, <2>5
    <3> QED  BY <3>2
  <2>6. HeaderSize + BodySize[r[i][1]] \in Nat
    BY <2>2, <1>0, SMTT(30)
  <2> QED  BY <2>2, <2>5, <2>6
<1>6. t[1][2] = 1 /\ (g < Len(u) => t[1][1] = u[g + 1])
  <2>1. CASE e = 0
    <3>1. g = Len(s)
      BY <2>1 DEF EndsAt
    <3>2. 1 \in 1 .. l /\ 1 > e /\ 1 - e = 1
      BY <2>1, <1>0
    <3> QED  BY <3>1, <3>2, <1>4, <1>u
  <2>2. CASE e > 0
    <3>1. 1 \in 1 .. e /\ r # <<>> /\ t[1] = r[1]
      BY <2>2, <1>0, <1>3, <1>a
    <3>2. g # Len(s)
      BY <2>2 DEF EndsAt
    <3>3. g < Len(s) /\ g + 1 \in 1 .. Len(s)
      BY <3>2, <1>0
    <3>4. r[1][2] = 1 /\ r[1][1] = s[g + 1]
      BY <3>1, <3>3 DEF Chain
    <3> QED  BY <3>1, <3>3, <3>4, <1>u
  <2> QED  BY <1>0, <2>1, <2>2
<1>7. Runs(t)
  <2> SUFFICES ASSUME NEW i \in 1 .. l, NEW j \in 1 .. l, 1 <= t[i][2] + j - i,
                      t[i][2] + j - i <= HeaderSize + BodySize[t[i][1]]
               PROVE  t[j] = <<t[i][1], t[i][2] + j - i>>
    BY <1>2 DEF Runs
  <2>1. CASE i <= e /\ j <= e
    <3>1. i \in 1 .. e /\ j \in 1 .. e
      BY <2>1, <1>0
    <3> QED  BY <3>1, <1>3 DEF Chain, Runs
  <2>2. CASE i <= e /\ j > e
    <3>1. i \in 1 .. e /\ t[i] = r[i]
      BY <2>2, <1>0, <1>3
    <3>2. /\ r[i][2] \in Nat /\ HeaderSize + BodySize[r[i][1]] \in Nat
          /\ r[i][2] + e - i <= HeaderSize + BodySize[r[i][1]] => r[i][2] + e - i = HeaderSize + BodySize[r[i][1]]
      BY <3>1, <1>5
    <3>3. r[i][2] + j - i <= HeaderSize + BodySize[r[i][1]]
      BY <3>1
    <3> QED  BY <2>2, <3>2, <3>3, <1>0, SMTT(30)
  <2>3. CASE i > e
    <3>1. t[i][1] = m /\ t[i][2] = i - e
      BY <2>3, <1>4
    <3>2. j > e
      BY <3>1, <1>0
    <3>3. t[j] = <<m, j - e>> /\ t[i][2] + j - i = j - e
      BY <3>1, <3>2, <1>0, <1>2, <1>4
    <3> QED  BY <3>1, <3>3
  <2> QED  BY <1>0, <2>1, <2>2, <2>3
<1>8. Begins(t)
  <2> SUFFICES ASSUME NEW i \in 1 .. l, i + 1 \in 1 .. l, t[i] = Last(t[i][1])
               PROVE  t[i + 1][2] = 1
    BY <1>2 DEF Begins
  <2>1. i <= e
    BY <1>b, <1>0, <1>2
  <2>2. CASE i = e
    BY <2>2, <1>0, <1>4
  <2>3. CASE i < e
    <3>1. i \in DOMAIN r /\ i + 1 \in DOMAIN r /\ t[i] = r[i] /\ t[i + 1] = r[i + 1]
      BY <2>3, <1>0, <1>2, <1>3
    <3> QED  BY <3>1 DEF Chain, Begins
  <2> QED  BY <1>0, <2>1, <2>2, <2>3
<1>9. Follows(t, u, g)
  <2> SUFFICES ASSUME NEW i \in 1 .. l, t[i] = Last(t[i][1])
               PROVE  \E a \in DOMAIN u : /\ a > g /\ u[a] = t[i][1]
                         /\ \A j \in DOMAIN t : j = i + 1 /\ a < Len(u) => t[j][1] = u[a + 1]
    BY <1>2 DEF Follows
  <2>1. CASE i > e
    <3>1. i = l /\ t[i][1] = m
      BY <2>1, <1>b, <1>4
    <3>2. Len(s) + 1 \in DOMAIN u /\ Len(s) + 1 > g /\ u[Len(s) + 1] = t[i][1] /\ ~(Len(s) + 1 < Len(u))
      BY <3>1, <1>u, <1>2, <1>0
    <3> QED  BY <3>2
  <2>2. CASE i <= e
    <3>1. i \in 1 .. e /\ t[i] = r[i] /\ i \in DOMAIN r
      BY <2>2, <1>0, <1>2, <1>3
    <3>2. PICK a \in DOMAIN s : /\ a > g /\ s[a] = r[i][1]
                                /\ \A j \in DOMAIN r : j = i + 1 /\ a < Len(s) => r[j][1] = s[a + 1]
      BY <3>1 DEF Chain, Follows
    <3>3. a \in DOMAIN u /\ u[a] = s[a] /\ a <= Len(s)
      BY <1>u, <1>2, <1>0
    <3>4. ASSUME NEW j \in DOMAIN t, j = i + 1, a < Len(u)  PROVE t[j][1] = u[a + 1]
      <4>1. CASE a < Len(s)
        <5>1. i < e
          <6>1. CASE i = e
            <7>1. r[i] = Last(s[Len(s)])
              BY <6>1, <3>1 DEF EndsAt
            <7>2. r[i][1] = s[Len(s)]
              BY <7>1 DEF Last
            <7>3. Len(s) \in DOMAIN s /\ s[a] = s[Len(s)]
              BY <7>2, <3>2, <1>2, <1>0, <4>1
            <7>4. a = Len(s)
              BY <7>3 DEF OnceEach
            <7> QED  BY <7>4, <4>1, <1>0
          <6> QED  BY <6>1, <3>1, <1>0
        <5>2. j \in 1 .. e /\ j \in DOMAIN r /\ a + 1 \in 1 .. Len(s)
          BY <5>1, <3>4, <4>1, <1>0, <1>2
        <5> QED  BY <5>2, <3>2, <3>4, <4>1, <1>3, <1>u
      <4>2. CASE a = Len(s)
        <5>1. e > 0 /\ e \in DOMAIN r
          BY <3>1, <1>0, <1>2
        <5>2. r[e] = Last(s[Len(s)])
          BY <5>1 DEF EndsAt
        <5>3. r[e] = r[i]
          BY <5>2, <3>1, <3>2, <4>2
        <5>4. i = e
          BY <5>3, <5>1, <3>1 DEF OnceEach
        <5>5. j > e /\ j \in 1 .. l
          BY <5>4, <3>4, <1>0, <1>2
        <5> QED  BY <5>5, <4>2, <1>4, <1>u
      <4> QED  BY <4>1, <4>2, <3>3, <1>0, <1>2
    <3> QED  BY <3>1, <3>2, <3>3, <3>4
  <2> QED  BY <1>0, <2>1, <2>2
<1>10. EndsAt(t, u, g, l)
  <2>1. l \in 1 .. l /\ l > e /\ l - e = HeaderSize + BodySize[m]
    BY <1>0
  <2>2. t[l] = Last(m)
    BY <2>1, <1>4 DEF Last
  <2>3. l \in 0 .. Len(t) /\ l > 0 /\ g # Len(u) /\ u[Len(u)] = m
    BY <2>1, <1>1, <1>u, <1>0
  <2> QED  BY <2>2, <2>3 DEF EndsAt
<1> QED  BY <1>1, <1>6, <1>7, <1>8, <1>9, <1>10 DEF Chain, t, u

(* The first frame is the next message, and without it the rest is a       *)
(* sequence of frames again (GetMqMsg).                                    *)
LEMMA ChainSkip ==
  ASSUME NEW r \in Seq(Bytes), NEW s \in Seq(Msgs), NEW g \in Nat, Chain(r, s, g), g <= Len(s),
         NEW m \in Msgs, OnceEach(r, s), StartsWith(r, Frame(m))
  PROVE  /\ g < Len(s) /\ s[g + 1] = m
         /\ Chain(SubSeq(r, Len(Frame(m)) + 1, Len(r)), s, g + 1)
         /\ \A e \in Nat : EndsAt(r, s, g, e) =>
               e >= Len(Frame(m)) /\ EndsAt(SubSeq(r, Len(Frame(m)) + 1, Len(r)), s, g + 1, e - Len(Frame(m)))
<1>n. PICK n \in Nat : n = Len(Frame(m)) /\ n = HeaderSize + BodySize[m]
  BY FrameParts, Lengths, SMTT(30)
<1> DEFINE t == SubSeq(r, n + 1, Len(r))
<1>0. /\ HeaderSize \in Nat /\ HeaderSize >= 1 /\ BodySize[m] \in Nat /\ BodySize[m] >= 1
      /\ Len(s) \in Nat /\ Len(r) \in Nat /\ n >= 1
      /\ n <= Len(r)
  BY Lengths, <1>n, StartsWithFrame
<1>r. \A k \in 1 .. n : r[k] = <<m, k>>
  BY <1>n, StartsWithFrame
<1>1. t \in Seq(Bytes) /\ Len(t) = Len(r) - n /\ \A i \in 1 .. Len(r) - n : t[i] = r[n + i]
  <2>1. n + 1 \in Int /\ Len(r) \in Int /\ \A i \in n + 1 .. Len(r) : r[i] \in Bytes
    BY <1>0
  <2>2. /\ t \in Seq(Bytes) /\ Len(t) = (IF n + 1 <= Len(r) THEN Len(r) - (n + 1) + 1 ELSE 0)
        /\ \A i \in 1 .. Len(r) - (n + 1) + 1 : t[i] = r[n + 1 + i - 1]
    BY <2>1, SubSeqProperties
  <2>3. ASSUME NEW i \in 1 .. Len(r) - n  PROVE t[i] = r[n + i]
    <3>1. i \in 1 .. Len(r) - (n + 1) + 1 /\ n + 1 + i - 1 = n + i
      BY <1>0
    <3> QED  BY <2>2, <3>1
  <2>4. Len(t) = Len(r) - n
    BY <2>2, <1>0, SMTT(30)
  <2> QED  BY <2>2, <2>3, <2>4
<1> HIDE DEF t
<1>2. /\ DOMAIN t = 1 .. Len(r) - n /\ DOMAIN r = 1 .. Len(r) /\ DOMAIN s = 1 .. Len(s)
      /\ \A i \in 1 .. Len(r) - n : n + i \in 1 .. Len(r)
  BY <1>0, <1>1
<1>3. n \in DOMAIN r /\ r[n] = Last(m) /\ r[n] = Last(r[n][1]) /\ r[n][1] = m
  BY <1>0, <1>n, <1>r, <1>2 DEF Last
<1>4. PICK b \in DOMAIN s : /\ b > g /\ s[b] = m
                            /\ \A j \in DOMAIN r : j = n + 1 /\ b < Len(s) => r[j][1] = s[b + 1]
  BY <1>3 DEF Chain, Follows
<1>5. g < Len(s) /\ g + 1 \in DOMAIN s
  BY <1>4, <1>2, <1>0
<1>6. s[g + 1] = m /\ b = g + 1
  <2>1. r # <<>> /\ 1 \in 1 .. n
    BY <1>0
  <2>2. r[1][1] = s[g + 1] /\ r[1] = <<m, 1>>
    BY <2>1, <1>5, <1>r DEF Chain
  <2>3. s[g + 1] = m
    BY <2>2
  <2> QED  BY <2>3, <1>4, <1>5 DEF OnceEach
<1>7. ASSUME NEW i \in 1 .. Len(r) - n  PROVE t[i] = r[n + i] /\ n + i \in DOMAIN r
  BY <1>1, <1>2
<1>8. t # <<>> => t[1][2] = 1 /\ (g + 1 < Len(s) => t[1][1] = s[g + 2])
  <2> SUFFICES ASSUME t # <<>>  PROVE t[1][2] = 1 /\ (g + 1 < Len(s) => t[1][1] = s[g + 2])
    OBVIOUS
  <2>1. 1 \in 1 .. Len(r) - n
    BY <1>0, <1>1
  <2>2. t[1] = r[n + 1] /\ n + 1 \in DOMAIN r
    BY <2>1, <1>7
  <2>3. t[1][2] = 1
    BY <2>2, <1>3 DEF Chain, Begins
  <2>4. ASSUME g + 1 < Len(s)  PROVE t[1][1] = s[g + 2]
    BY <2>2, <2>4, <1>4, <1>6, <1>0
  <2> QED  BY <2>3, <2>4
<1>9. Runs(t)
  <2> SUFFICES ASSUME NEW i \in 1 .. Len(r) - n, NEW j \in 1 .. Len(r) - n, 1 <= t[i][2] + j - i,
                      t[i][2] + j - i <= HeaderSize + BodySize[t[i][1]]
               PROVE  t[j] = <<t[i][1], t[i][2] + j - i>>
    BY <1>2 DEF Runs
  <2>1. t[i] = r[n + i] /\ n + i \in DOMAIN r /\ t[j] = r[n + j] /\ n + j \in DOMAIN r
    BY <1>7
  <2>2. r[n + i][2] \in Nat
    BY <2>1, BytesOf
  <2>3. r[n + i][2] + (n + j) - (n + i) = t[i][2] + j - i
    BY <2>1, <2>2
  <2>4. r[n + j] = <<r[n + i][1], r[n + i][2] + (n + j) - (n + i)>>
    BY <2>1, <2>3 DEF Chain, Runs
  <2> QED  BY <2>1, <2>3, <2>4
<1>10. Begins(t)
  <2> SUFFICES ASSUME NEW i \in 1 .. Len(r) - n, NEW j \in 1 .. Len(r) - n, j = i + 1, t[i] = Last(t[i][1])
               PROVE  t[j][2] = 1
    BY <1>2 DEF Begins
  <2>1. t[i] = r[n + i] /\ n + i \in DOMAIN r /\ t[j] = r[n + j] /\ n + j \in DOMAIN r /\ n + j = (n + i) + 1
    BY <1>0, <1>7
  <2> QED  BY <2>1 DEF Chain, Begins
<1>11. Follows(t, s, g + 1)
  <2> SUFFICES ASSUME NEW i \in 1 .. Len(r) - n, t[i] = Last(t[i][1])
               PROVE  \E a \in DOMAIN s : /\ a > g + 1 /\ s[a] = t[i][1]
                         /\ \A j \in DOMAIN t : j = i + 1 /\ a < Len(s) => t[j][1] = s[a + 1]
    BY <1>2 DEF Follows
  <2>1. t[i] = r[n + i] /\ n + i \in DOMAIN r
    BY <1>7
  <2>2. PICK a \in DOMAIN s : /\ a > g /\ s[a] = r[n + i][1]
                              /\ \A j \in DOMAIN r : j = (n + i) + 1 /\ a < Len(s) => r[j][1] = s[a + 1]
    BY <2>1 DEF Chain, Follows
  <2>3. a # g + 1
    <3> SUFFICES ASSUME a = g + 1  PROVE FALSE
      OBVIOUS
    <3>1. r[n + i] = r[n]
      BY <2>1, <2>2, <1>3, <1>6
    <3>2. n + i = n
      BY <3>1, <1>3, <2>1 DEF OnceEach
    <3> QED  BY <3>2, <1>0
  <2>4. a > g + 1
    BY <2>2, <2>3, <1>0, <1>2
  <2>5. ASSUME NEW j \in DOMAIN t, j = i + 1, a < Len(s)  PROVE t[j][1] = s[a + 1]
    <3>1. t[j] = r[n + j] /\ n + j \in DOMAIN r /\ n + j = (n + i) + 1
      BY <2>5, <1>0, <1>2, <1>7
    <3> QED  BY <3>1, <2>2, <2>5
  <2> QED  BY <2>1, <2>2, <2>4, <2>5
<1>12. ASSUME NEW e \in Nat, EndsAt(r, s, g, e)
       PROVE  e >= n /\ EndsAt(t, s, g + 1, e - n)
  <2>1. e > 0 /\ e \in 0 .. Len(r) /\ r[e] = Last(s[Len(s)])
    BY <1>12, <1>5, <1>0 DEF EndsAt
  <2>2. e >= n
    <3> SUFFICES ASSUME e < n  PROVE FALSE
      BY <1>0
    <3>1. r[e] = <<m, e>> /\ r[e] = <<s[Len(s)], HeaderSize + BodySize[s[Len(s)]]>>
      BY <2>1, <1>0, <1>n, <1>r DEF Last
    <3>2. s[Len(s)] = m /\ e = HeaderSize + BodySize[s[Len(s)]]
      BY <3>1
    <3> QED  BY <3>2, <1>n
  <2>3. e - n \in 0 .. Len(t)
    BY <2>1, <2>2, <1>1, <1>0
  <2>4. Len(s) \in DOMAIN s
    BY <1>5, <1>2, <1>0
  <2>5. ASSUME e - n = 0  PROVE g + 1 = Len(s)
    <3>1. e = n
      BY <2>5
    <3>2. Last(m) = Last(s[Len(s)])
      BY <3>1, <2>1, <1>3
    <3>3. s[g + 1] = s[Len(s)]
      BY <3>2, <1>6 DEF Last
    <3> QED  BY <3>3, <1>5, <2>4 DEF OnceEach
  <2>6. ASSUME g + 1 = Len(s)  PROVE e - n = 0
    <3>1. r[e] = r[n] /\ e \in DOMAIN r
      BY <2>6, <2>1, <1>3, <1>6, <1>2, <1>0
    <3>2. e = n
      BY <3>1, <1>3 DEF OnceEach
    <3> QED  BY <3>2
  <2>7. ASSUME e - n > 0  PROVE t[e - n] = Last(s[Len(s)])
    <3>1. e - n \in 1 .. Len(r) - n /\ n + (e - n) = e
      BY <2>7, <2>1, <1>0
    <3> QED  BY <3>1, <2>1, <1>1
  <2> QED  BY <2>2, <2>3, <2>5, <2>6, <2>7 DEF EndsAt
<1> QED  BY <1>n, <1>5, <1>6, <1>8, <1>9, <1>10, <1>11, <1>12 DEF Chain, t

(* What a reader has of a sequence of frames begins like a frame, so that  *)
(* it waits for more or takes a message, and nothing is garbled.           *)
LEMMA ChainReads ==
  ASSUME NEW b \in Seq(Bytes), Runs(b), b # <<>> => b[1][2] = 1, Len(b) >= HeaderSize
  PROVE  \E m \in Msgs : StartsWith(b, Size(m))
                         /\ (Len(b) >= Len(Frame(m)) => StartsWith(b, Frame(m)))
<1>0. HeaderSize \in Nat /\ HeaderSize >= 1 /\ Len(b) \in Nat
  BY Lengths
<1>1. b # <<>> /\ 1 \in DOMAIN b /\ DOMAIN b = 1 .. Len(b)
  BY <1>0
<1> DEFINE m == b[1][1]
<1>2. m \in Msgs /\ b[1] = <<m, 1>>
  BY <1>1, BytesOf
<1>3. BodySize[m] \in Nat /\ BodySize[m] >= 1
  BY <1>2, Lengths
<1>4. ASSUME NEW k \in 1 .. Len(b), k <= HeaderSize + BodySize[m]  PROVE b[k] = <<m, k>>
  <2>1. b[1][2] = 1 /\ b[1][1] = m /\ k \in DOMAIN b
    BY <1>1, <1>2
  <2>2. b[1][2] + k - 1 = k
    BY <2>1
  <2>3. 1 <= b[1][2] + k - 1 /\ b[1][2] + k - 1 <= HeaderSize + BodySize[b[1][1]]
    BY <2>1, <2>2, <1>4
  <2>4. b[k] = <<b[1][1], b[1][2] + k - 1>>
    BY <2>1, <2>3, <1>1 DEF Runs
  <2> QED  BY <2>1, <2>2, <2>4
<1> HIDE DEF m
<1>5. ASSUME NEW n \in Nat, n <= Len(b), NEW f \in Seq(Bytes), Len(f) = n, n <= HeaderSize + BodySize[m],
             \A k \in 1 .. n : f[k] = <<m, k>>
      PROVE  StartsWith(b, f)
  <2>1. 1 \in Int /\ n \in Int /\ \A i \in 1 .. n : b[i] \in Bytes
    BY <1>5, <1>0
  <2>2. /\ SubSeq(b, 1, n) \in Seq(Bytes) /\ Len(SubSeq(b, 1, n)) = (IF 1 <= n THEN n - 1 + 1 ELSE 0)
        /\ \A i \in 1 .. n - 1 + 1 : SubSeq(b, 1, n)[i] = b[1 + i - 1]
    BY <2>1, SubSeqProperties
  <2>3. Len(SubSeq(b, 1, n)) = Len(f)
    BY <2>2, <1>5
  <2>4. ASSUME NEW i \in 1 .. Len(f)  PROVE SubSeq(b, 1, n)[i] = f[i]
    <3>1. i \in 1 .. n - 1 + 1 /\ 1 + i - 1 = i /\ i \in 1 .. n /\ i \in 1 .. Len(b) /\ i <= HeaderSize + BodySize[m]
      BY <1>5, <1>0, <1>3
    <3> QED  BY <3>1, <2>2, <1>4, <1>5
  <2>5. SubSeq(b, 1, n) = f
    BY <2>2, <2>3, <2>4, SeqEqual
  <2> QED  BY <2>5, <1>5 DEF StartsWith
<1>6. StartsWith(b, Size(m))
  <2>1. /\ Size(m) \in Seq(Bytes) /\ Len(Size(m)) = HeaderSize /\ HeaderSize <= HeaderSize + BodySize[m]
        /\ \A k \in 1 .. HeaderSize : Size(m)[k] = <<m, k>>
    BY <1>0, <1>2, <1>3, FrameParts
  <2> QED  BY <2>1, <1>0, <1>5
<1>7. Len(b) >= Len(Frame(m)) => StartsWith(b, Frame(m))
  <2> DEFINE n == HeaderSize + BodySize[m]
  <2>1. /\ Frame(m) \in Seq(Bytes) /\ Len(Frame(m)) = n /\ n \in Nat /\ n <= n
        /\ \A k \in 1 .. n : Frame(m)[k] = <<m, k>>
    BY <1>0, <1>2, <1>3, FrameParts
  <2> QED  BY <2>1, <1>5
<1> QED  BY <1>2, <1>6, <1>7

-----------------------------------------------------------------------------
(* Types.                                                                  *)
(* What Put leaves on the wire.                                            *)
LEMMA PutType ==
  ASSUME TypeOK, NEW p \in Producers, NEW bytes \in Seq(Bytes), Put(p, bytes)
  PROVE  /\ wire' \in [Conns -> IF local THEN Seq(Seq(Bytes)) ELSE Seq(Bytes)]
         /\ wire' = [wire EXCEPT ![on[p]] = wire[on[p]] \o IF local THEN <<bytes>> ELSE bytes]
<1>1. on[p] \in Conns
  BY DEF TypeOK
<1>2. wire' = [wire EXCEPT ![on[p]] = wire[on[p]] \o IF local THEN <<bytes>> ELSE bytes]
  BY DEF Put
<1>3. CASE local
  <2>1. wire \in [Conns -> Seq(Seq(Bytes))]
    BY <1>3 DEF TypeOK
  <2>2. <<bytes>> \in Seq(Seq(Bytes)) /\ wire[on[p]] \in Seq(Seq(Bytes))
    BY <2>1, <1>1
  <2>3. wire[on[p]] \o <<bytes>> \in Seq(Seq(Bytes))
    BY <2>2, ConcatProperties
  <2> QED  BY <1>1, <1>2, <1>3, <2>1, <2>3
<1>4. CASE ~local
  <2>1. wire \in [Conns -> Seq(Bytes)]
    BY <1>4 DEF TypeOK
  <2>2. wire[on[p]] \o bytes \in Seq(Bytes)
    BY <2>1, <1>1, ConcatProperties
  <2> QED  BY <1>1, <1>2, <1>4, <2>1, <2>2
<1> QED  BY <1>3, <1>4

LEMMA SubSeqType ==
  ASSUME NEW S, NEW s \in Seq(S), NEW n \in Nat
  PROVE  SubSeq(s, n + 1, Len(s)) \in Seq(S) /\ (n <= Len(s) => SubSeq(s, 1, n) \in Seq(S))
<1>1. Len(s) \in Nat /\ n + 1 \in Int /\ Len(s) \in Int /\ 1 \in Int /\ n \in Int
  OBVIOUS
<1>2. \A i \in n + 1 .. Len(s) : s[i] \in S
  BY <1>1
<1>3. SubSeq(s, n + 1, Len(s)) \in Seq(S)
  BY <1>1, <1>2, SubSeqProperties
<1>4. ASSUME n <= Len(s)  PROVE SubSeq(s, 1, n) \in Seq(S)
  <2>1. \A i \in 1 .. n : s[i] \in S
    BY <1>1, <1>4
  <2> QED  BY <1>1, <2>1, SubSeqProperties
<1> QED  BY <1>3, <1>4

LEMMA TypeInit == Init => TypeOK
<1> SUFFICES ASSUME Init  PROVE TypeOK
  OBVIOUS
<1>1. \A S : <<>> \in Seq(S)
  BY EmptySeq
<1>2. wire \in [Conns -> IF local THEN Seq(Seq(Bytes)) ELSE Seq(Bytes)]
  BY <1>1 DEF Init
<1>3. 1 \in Conns
  BY Lengths DEF Conns
<1>4. buffer \in [Conns -> Seq(Bytes)] /\ sent \in [Conns -> Seq(Msgs)] /\ got \in [Conns -> Seq(Msgs \cup {None})]
  BY <1>1 DEF Init
<1> QED  BY <1>2, <1>3, <1>4 DEF Init, TypeOK

LEMMA MixedType ==
  ASSUME TypeOK, NEW p \in Producers, mixed' = [mixed EXCEPT ![on[p]] = @ \/ Within(p)]
  PROVE  mixed' \in [Conns -> BOOLEAN]
<1>1. (mixed[on[p]] \/ Within(p)) \in BOOLEAN
  BY DEF Within
<1> QED  BY <1>1 DEF TypeOK

\* A producer with a message has one of Msgs.
LEMMA HasMessage ==
  ASSUME TypeOK, NEW p \in Producers, pc[p] # "idle"
  PROVE  cur[p] \in Msgs /\ on[p] \in Conns
  BY DEF TypeOK

LEMMA TypeStep == TypeOK /\ [Next]_vars => TypeOK'
<1> SUFFICES ASSUME TypeOK, [Next]_vars  PROVE TypeOK'
  OBVIOUS
<1>0. None \notin Msgs
  BY Lengths
<1>1. ASSUME NEW p \in Producers, NEW m \in Msgs, Take(p, m)  PROVE TypeOK'
  BY <1>0, <1>1 DEF Take, TypeOK
<1>2. ASSUME NEW p \in Producers, WriteSize(p)  PROVE TypeOK'
  <2>1. cur[p] \in Msgs /\ on[p] \in Conns
    BY <1>2, HasMessage DEF WriteSize
  <2>2. Size(cur[p]) \in Seq(Bytes)
    BY <2>1, FrameParts
  <2>3. wire' \in [Conns -> IF local THEN Seq(Seq(Bytes)) ELSE Seq(Bytes)] /\ local' = local
    BY <1>2, <2>2, PutType DEF WriteSize
  <2>4. mixed' \in [Conns -> BOOLEAN]
    BY <1>2, MixedType DEF WriteSize
  <2> QED  BY <1>2, <2>1, <2>3, <2>4 DEF WriteSize, TypeOK
<1>3. ASSUME NEW p \in Producers, WriteBody(p)  PROVE TypeOK'
  <2>1. cur[p] \in Msgs /\ on[p] \in Conns
    BY <1>3, HasMessage DEF WriteBody
  <2>2. Body(cur[p]) \in Seq(Bytes)
    BY <2>1, FrameParts
  <2>3. wire' \in [Conns -> IF local THEN Seq(Seq(Bytes)) ELSE Seq(Bytes)] /\ local' = local
    BY <1>3, <2>2, PutType DEF WriteBody
  <2>4. sent' \in [Conns -> Seq(Msgs)]
    <3>1. Append(sent[on[p]], cur[p]) \in Seq(Msgs)
      BY <2>1 DEF TypeOK
    <3> QED  BY <1>3, <2>1, <3>1 DEF WriteBody, TypeOK
  <2> QED  BY <1>0, <1>3, <2>1, <2>3, <2>4 DEF WriteBody, Written, TypeOK
<1>4. ASSUME NEW p \in Producers, WritePart(p)  PROVE TypeOK'
  <2>1. cur[p] \in Msgs /\ on[p] \in Conns
    BY <1>4, HasMessage DEF WritePart
  <2> DEFINE bytes == IF pc[p] = "size" THEN Size(cur[p]) ELSE Body(cur[p])
  <2>2. bytes \in Seq(Bytes)
    BY <2>1, FrameParts
  <2>3. PICK n \in 0 .. Len(bytes) - 1 : Put(p, SubSeq(bytes, 1, n))
    BY <1>4 DEF WritePart
  <2> HIDE DEF bytes
  <2>4. n \in Nat /\ n <= Len(bytes)
    BY <2>2, <2>3
  <2>5. SubSeq(bytes, 1, n) \in Seq(Bytes)
    BY <2>2, <2>4, SubSeqType
  <2>6. wire' \in [Conns -> IF local THEN Seq(Seq(Bytes)) ELSE Seq(Bytes)] /\ local' = local
    BY <1>4, <2>3, <2>5, PutType DEF WritePart
  <2>7. mixed' \in [Conns -> BOOLEAN]
    BY <1>4, MixedType DEF WritePart
  <2>8. /\ up' = up \ {on[p]} /\ pc' = [pc EXCEPT ![p] = "retry"] /\ pc[p] \in {"size", "body"}
        /\ UNCHANGED <<local, todo, cur, on, current, buffer, reader, sent, got>>
    BY <1>4 DEF WritePart
  <2> QED  BY <2>1, <2>6, <2>7, <2>8 DEF TypeOK
<1>5. ASSUME NEW p \in Producers, WriteFails(p)  PROVE TypeOK'
  BY <1>5 DEF WriteFails, TypeOK
<1>6. ASSUME NEW p \in Producers, Retry(p)  PROVE TypeOK'
  BY <1>6 DEF Retry, Restart, TypeOK
<1>7. ASSUME NEW c \in Conns, Break(c)  PROVE TypeOK'
  <2>1. PICK n \in 0 .. Len(wire[c]) : wire' = [wire EXCEPT ![c] = SubSeq(wire[c], 1, n)]
    BY <1>7 DEF Break
  <2>2. wire' \in [Conns -> IF local THEN Seq(Seq(Bytes)) ELSE Seq(Bytes)] /\ local' = local
    <3>1. CASE local
      <4>1. wire \in [Conns -> Seq(Seq(Bytes))]
        BY <3>1 DEF TypeOK
      <4>2. SubSeq(wire[c], 1, n) \in Seq(Seq(Bytes))
        BY <4>1, <2>1, SubSeqType
      <4> QED  BY <4>1, <4>2, <3>1, <2>1, <1>7 DEF Break, producers
    <3>2. CASE ~local
      <4>1. wire \in [Conns -> Seq(Bytes)]
        BY <3>2 DEF TypeOK
      <4>2. SubSeq(wire[c], 1, n) \in Seq(Bytes)
        BY <4>1, <2>1, SubSeqType
      <4> QED  BY <4>1, <4>2, <3>2, <2>1, <1>7 DEF Break, producers
    <3> QED  BY <3>1, <3>2
  <2> QED  BY <1>7, <2>2 DEF Break, producers, TypeOK
<1>8. ASSUME Connect  PROVE TypeOK'
  <2>1. current' \in Conns
    BY <1>8, Lengths DEF Connect, TypeOK, Conns
  <2> QED  BY <1>8, <2>1 DEF Connect, producers, TypeOK
<1>9. ASSUME NEW c \in Conns, Read(c)  PROVE TypeOK'
  <2>1. PICK n \in 1 .. ReadMax :
           /\ n <= Len(wire[c])
           /\ buffer' = [buffer EXCEPT ![c] = buffer[c] \o SubSeq(wire[c], 1, n)]
           /\ wire' = [wire EXCEPT ![c] = SubSeq(wire[c], n + 1, Len(wire[c]))]
    BY <1>9 DEF Read
  <2>2. ~local /\ local' = local /\ wire \in [Conns -> Seq(Bytes)] /\ n \in Nat
    BY <1>9, Lengths DEF Read, producers, TypeOK
  <2>3. SubSeq(wire[c], 1, n) \in Seq(Bytes) /\ SubSeq(wire[c], n + 1, Len(wire[c])) \in Seq(Bytes)
    BY <2>1, <2>2, SubSeqType
  <2>4. buffer[c] \in Seq(Bytes)
    BY DEF TypeOK
  <2>5. buffer[c] \o SubSeq(wire[c], 1, n) \in Seq(Bytes)
    BY <2>3, <2>4, ConcatProperties
  <2>6. wire' \in [Conns -> Seq(Bytes)] /\ buffer' \in [Conns -> Seq(Bytes)]
    BY <2>1, <2>2, <2>3, <2>5 DEF TypeOK
  <2> QED  BY <1>9, <2>2, <2>6, SMTT(30) DEF Read, producers, TypeOK
<1>10. ASSUME NEW c \in Conns, ReadSlice(c)  PROVE TypeOK'
  <2>1. local /\ local' = local /\ wire \in [Conns -> Seq(Seq(Bytes))] /\ wire[c] # <<>>
    BY <1>10 DEF ReadSlice, producers, TypeOK
  <2>2. Head(wire[c]) \in Seq(Bytes) /\ Tail(wire[c]) \in Seq(Seq(Bytes))
    BY <2>1, HeadTailProperties
  <2>3. wire' \in [Conns -> Seq(Seq(Bytes))]
    BY <1>10, <2>1, <2>2 DEF ReadSlice
  <2>4. buffer[c] \in Seq(Bytes)
    BY DEF TypeOK
  <2>5. buffer[c] \o Head(wire[c]) \in Seq(Bytes)
    BY <2>2, <2>4, ConcatProperties
  <2>6. buffer' \in [Conns -> Seq(Bytes)] /\ reader' \in [Conns -> {"on", "stuck", "gone"}]
    <3>1. CASE Fits(Head(wire[c]))
      BY <3>1, <1>10, <2>5 DEF ReadSlice, TypeOK
    <3>2. CASE ~Fits(Head(wire[c]))
      BY <3>2, <1>10 DEF ReadSlice, TypeOK
    <3> QED  BY <3>1, <3>2
  <2> QED  BY <1>10, <2>1, <2>3, <2>6, SMTT(30) DEF ReadSlice, producers, TypeOK
<1>11. ASSUME NEW c \in Conns, ReadFails(c)  PROVE TypeOK'
  BY <1>11 DEF ReadFails, producers, TypeOK
<1>12. ASSUME NEW c \in Conns, GetMqMsg(c)  PROVE TypeOK'
  <2>1. PICK m \in Msgs : got' = [got EXCEPT ![c] = Append(got[c], m)] /\ Skip(c, Len(Frame(m)))
    BY <1>12 DEF GetMqMsg
  <2>2. Append(got[c], m) \in Seq(Msgs \cup {None})
    BY DEF TypeOK
  <2>3. Len(Frame(m)) \in Nat /\ buffer[c] \in Seq(Bytes)
    BY FrameParts, Lengths DEF TypeOK
  <2>4. SubSeq(buffer[c], Len(Frame(m)) + 1, Len(buffer[c])) \in Seq(Bytes)
    BY <2>3, SubSeqType
  <2>5. buffer' \in [Conns -> Seq(Bytes)]
    BY <2>1, <2>4 DEF Skip, TypeOK
  <2> QED  BY <1>12, <2>1, <2>2, <2>5 DEF GetMqMsg, producers, TypeOK
<1>13. ASSUME NEW c \in Conns, Garbled(c)  PROVE TypeOK'
  <2>0. UNCHANGED <<producers, current, wire, sent, mixed>>
    BY <1>13 DEF Garbled
  <2>1. CASE reader' = [reader EXCEPT ![c] = "stuck"] /\ UNCHANGED <<buffer, got, up>>
    BY <2>0, <2>1 DEF producers, TypeOK
  <2>2. CASE reader' = [reader EXCEPT ![c] = "gone"] /\ up' = up \ {c} /\ UNCHANGED <<buffer, got>>
    BY <2>0, <2>2 DEF producers, TypeOK
  <2>3. ASSUME NEW n \in HeaderSize + 1 .. Len(buffer[c]), Skip(c, n),
               got' = [got EXCEPT ![c] = Append(got[c], None)], UNCHANGED <<reader, up>>
        PROVE  TypeOK'
    <3>1. Append(got[c], None) \in Seq(Msgs \cup {None})
      BY DEF TypeOK
    <3>2. n \in Nat /\ buffer[c] \in Seq(Bytes)
      BY Lengths DEF TypeOK
    <3>3. SubSeq(buffer[c], n + 1, Len(buffer[c])) \in Seq(Bytes)
      BY <3>2, SubSeqType
    <3>4. buffer' \in [Conns -> Seq(Bytes)]
      BY <2>3, <3>3 DEF Skip, TypeOK
    <3> QED  BY <2>0, <2>3, <3>1, <3>4 DEF producers, TypeOK
  <2> QED  BY <1>13, <2>1, <2>2, <2>3 DEF Garbled
<1>14. ASSUME UNCHANGED vars  PROVE TypeOK'
  BY <1>14 DEF vars, producers, TypeOK
<1> QED
  BY <1>1, <1>2, <1>3, <1>4, <1>5, <1>6, <1>7, <1>8, <1>9, <1>10, <1>11, <1>12, <1>13, <1>14
  DEF Next, Write, ReadMqMsg

(* Every variable keeps its type.                                          *)
THEOREM TypeCorrect == Spec => []TypeOK
  BY TypeInit, TypeStep, PTL DEF Spec

-----------------------------------------------------------------------------
(* Whose a message is.                                                     *)
LEMMA OwnSame ==
  ASSUME OwnInv, UNCHANGED <<todo, cur, sent>>
  PROVE  OwnInv'
  BY DEF OwnInv, Over

LEMMA OwnStep == TypeOK /\ OwnInv /\ [Next]_vars => OwnInv'
<1> SUFFICES ASSUME TypeOK, OwnInv, [Next]_vars  PROVE OwnInv'
  OBVIOUS
<1>0. None \notin Msgs
  BY Lengths
<1>1. ASSUME NEW p \in Producers, NEW m \in Msgs, Take(p, m)  PROVE OwnInv'
  <2>1. /\ m \in todo /\ todo' = todo \ {m} /\ cur' = [cur EXCEPT ![p] = m] /\ sent' = sent
        /\ cur \in [Producers -> Msgs \cup {None}]
    BY <1>1 DEF Take, TypeOK
  <2>2. \A x : Over(x) => Over(x)'
    BY <2>1 DEF Over
  <2>3. \A q \in Producers : cur[q] # m
    BY <2>1 DEF OwnInv
  <2> QED  BY <2>1, <2>2, <2>3 DEF OwnInv
<1>2. ASSUME NEW p \in Producers, WriteBody(p)  PROVE OwnInv'
  <2>1. cur[p] \in Msgs /\ on[p] \in Conns
    BY <1>2, HasMessage DEF WriteBody
  <2>2. /\ todo' = todo /\ cur' = [cur EXCEPT ![p] = None]
        /\ sent' = [sent EXCEPT ![on[p]] = Append(sent[on[p]], cur[p])]
        /\ cur \in [Producers -> Msgs \cup {None}] /\ sent \in [Conns -> Seq(Msgs)]
    BY <1>2 DEF WriteBody, Written, TypeOK
  <2>3. \A x \in Msgs : Over(x) => Over(x)'
    BY <1>0, <2>2 DEF Over
  <2>4. ~Over(cur[p]) /\ cur[p] \notin todo
    BY DEF Over, OwnInv
  <2>5. \A q \in Producers : cur'[q] # cur[p]
    BY <1>0, <2>1, <2>2 DEF OwnInv
  <2>6. \A q \in Producers : cur'[q] \notin todo
    <3> SUFFICES ASSUME NEW q \in Producers  PROVE cur'[q] \notin todo
      OBVIOUS
    <3>1. None \notin todo
      BY <1>0 DEF TypeOK
    <3> QED  BY <3>1, <2>2 DEF OwnInv
  <2>7. \A q, r \in Producers : cur'[q] = cur'[r] /\ cur'[q] # None => q = r
    BY <2>2 DEF OwnInv
  <2>8. ASSUME NEW c \in Conns
        PROVE  /\ \A i \in DOMAIN sent'[c] : sent'[c][i] \in Msgs /\ (sent'[c][i] = cur[p] \/ Over(sent'[c][i]))
               /\ \A i, j \in DOMAIN sent'[c] : sent'[c][i] = sent'[c][j] => i = j
    <3>1. CASE c # on[p]
      BY <3>1, <2>2 DEF OwnInv
    <3>2. CASE c = on[p]
      <4> DEFINE n == Len(sent[c])
      <4>1. sent[c] \in Seq(Msgs) /\ n \in Nat /\ DOMAIN sent[c] = 1 .. n
        BY <2>2
      <4>2. /\ DOMAIN sent'[c] = 1 .. n + 1 /\ sent'[c][n + 1] = cur[p]
            /\ \A i \in 1 .. n : sent'[c][i] = sent[c][i]
        BY <3>2, <2>1, <2>2, AppendProperties
      <4>3. \A i \in 1 .. n : Over(sent[c][i]) /\ sent[c][i] \in Msgs /\ sent[c][i] # cur[p]
        BY <4>1, <2>4 DEF OwnInv
      <4>4. \A i, j \in 1 .. n : sent[c][i] = sent[c][j] => i = j
        BY <4>1 DEF OwnInv
      <4>5. \A i \in 1 .. n + 1 : i = n + 1 \/ i \in 1 .. n
        BY <4>1
      <4> HIDE DEF n
      <4> QED  BY <4>2, <4>3, <4>4, <4>5, <2>1
    <3> QED  BY <3>1, <3>2
  <2>9. \A x : x = cur[p] => Over(x)'
    <3>1. cur[p] \notin todo' /\ \A q \in Producers : cur'[q] # cur[p]
      BY <2>2, <2>4, <2>5
    <3> QED  BY <3>1 DEF Over
  <2>10. \A c \in Conns : \A i \in DOMAIN sent'[c] : Over(sent[c][i])'
    BY <2>3, <2>8, <2>9
  <2> QED  BY <2>2, <2>6, <2>7, <2>8, <2>10 DEF OwnInv
<1>3. ASSUME NEW p \in Producers, WriteSize(p) \/ WriteFails(p) \/ Retry(p) \/ WritePart(p)  PROVE OwnInv'
  <2>1. UNCHANGED <<todo, cur, sent>>
    BY <1>3 DEF WriteSize, WriteFails, Retry, WritePart
  <2> QED  BY <2>1, OwnSame
<1>4. ASSUME NEW c \in Conns, Break(c) \/ ReadMqMsg(c)  PROVE OwnInv'
  <2>1. UNCHANGED <<todo, cur, sent>>
    BY <1>4 DEF Break, ReadMqMsg, Read, ReadSlice, ReadFails, GetMqMsg, Garbled, producers
  <2> QED  BY <2>1, OwnSame
<1>5. ASSUME Connect \/ UNCHANGED vars  PROVE OwnInv'
  <2>1. UNCHANGED <<todo, cur, sent>>
    BY <1>5 DEF Connect, vars, producers
  <2> QED  BY <2>1, OwnSame
<1> QED  BY <1>1, <1>2, <1>3, <1>4, <1>5 DEF Next, Write

-----------------------------------------------------------------------------
(* Who is within a frame.                                                  *)
LEMMA AloneFewer ==
  ASSUME AloneInv, \A c \in Conns : mixed[c] => mixed'[c],
         \A p \in Producers, c \in Conns : Inside(p, c)' => Inside(p, c)
  PROVE  AloneInv'
  BY DEF AloneInv

LEMMA AloneStep == TypeOK /\ AloneInv /\ [Next]_vars => AloneInv'
<1> SUFFICES ASSUME TypeOK, AloneInv, [Next]_vars  PROVE AloneInv'
  OBVIOUS
<1>t. pc \in [Producers -> {"idle", "size", "body", "retry"}] /\ on \in [Producers -> Conns] /\ mixed \in [Conns -> BOOLEAN]
  BY DEF TypeOK
<1>1. ASSUME NEW p \in Producers, (\E m \in Msgs : Take(p, m)) \/ WriteBody(p) \/ WriteFails(p) \/ Retry(p)
      PROVE  AloneInv'
  <2>1. mixed' = mixed /\ pc' = [pc EXCEPT ![p] = pc'[p]] /\ pc'[p] # "body" /\ on' = [on EXCEPT ![p] = on'[p]]
    BY <1>t, <1>1 DEF Take, WriteBody, Written, WriteFails, Retry, Restart
  <2>2. \A q \in Producers, c \in Conns : Inside(q, c)' => Inside(q, c)
    BY <1>t, <2>1 DEF Inside
  <2> QED  BY <2>1, <2>2, AloneFewer
<1>2. ASSUME NEW p \in Producers, WritePart(p)  PROVE AloneInv'
  <2>1. on' = on /\ pc' = [pc EXCEPT ![p] = "retry"] /\ mixed' = [mixed EXCEPT ![on[p]] = @ \/ Within(p)]
    BY <1>2 DEF WritePart
  <2>2. \A q \in Producers, c \in Conns : Inside(q, c)' => Inside(q, c)
    BY <1>t, <2>1 DEF Inside
  <2>3. \A c \in Conns : mixed[c] => mixed'[c]
    BY <1>t, <2>1
  <2> QED  BY <2>2, <2>3, AloneFewer
<1>3. ASSUME NEW p \in Producers, WriteSize(p)  PROVE AloneInv'
  <2>1. on' = on /\ pc' = [pc EXCEPT ![p] = "body"] /\ mixed' = [mixed EXCEPT ![on[p]] = @ \/ Within(p)]
    BY <1>3 DEF WriteSize
  <2>2. \A c \in Conns : mixed[c] => mixed'[c]
    BY <1>t, <2>1
  <2>3. \A q \in Producers, c \in Conns : Inside(q, c)' => Inside(q, c) \/ (q = p /\ c = on[p])
    BY <1>t, <2>1 DEF Inside
  <2>4. ~mixed'[on[p]] => \A q \in Producers : Inside(q, on[p]) => q = p
    BY <1>t, <2>1 DEF Inside, Within
  <2> QED  BY <2>2, <2>3, <2>4 DEF AloneInv
<1>4. ASSUME UNCHANGED <<pc, on, mixed>>  PROVE AloneInv'
  BY <1>4 DEF AloneInv, Inside
<1>5. ASSUME NEW c \in Conns, Break(c) \/ ReadMqMsg(c)  PROVE UNCHANGED <<pc, on, mixed>>
  BY <1>5 DEF Break, ReadMqMsg, Read, ReadSlice, ReadFails, GetMqMsg, Garbled, producers
<1>6. Connect \/ UNCHANGED vars => UNCHANGED <<pc, on, mixed>>
  BY DEF Connect, vars, producers
<1> QED  BY <1>1, <1>2, <1>3, <1>4, <1>5, <1>6 DEF Next, Write

-----------------------------------------------------------------------------
(* Where the end of a message is: what the actions do to the places.       *)
LEMMA CopyFewer ==
  ASSUME CopyInv, \A m \in Msgs : Over(m) => Over(m)',
         \A m \in Msgs, d \in Conns, i \in Nat :
            /\ InWire(m, d, i)' => InWire(m, d, i)
            /\ InBuffer(m, d, i)' => InBuffer(m, d, i)
            /\ InGot(m, d, i)' => InGot(m, d, i)
  PROVE  CopyInv'
<1> SUFFICES ASSUME NEW m \in Msgs, NEW c \in Conns, NEW d \in Conns, NEW i \in Nat, NEW j \in Nat
             PROVE  /\ InWire(m, c, i)' => Over(m)'
                    /\ InBuffer(m, c, i)' => Over(m)'
                    /\ InGot(m, c, i)' => Over(m)'
                    /\ InWire(m, c, i)' /\ InWire(m, d, j)' => c = d /\ i = j
                    /\ InBuffer(m, c, i)' /\ InBuffer(m, d, j)' => c = d /\ i = j
                    /\ InGot(m, c, i)' /\ InGot(m, d, j)' => c = d /\ i = j
                    /\ ~(InWire(m, c, i)' /\ InBuffer(m, d, j)')
                    /\ ~(InWire(m, c, i)' /\ InGot(m, d, j)')
                    /\ ~(InBuffer(m, c, i)' /\ InGot(m, d, j)')
  BY DEF CopyInv
<1> QED  BY DEF CopyInv

\* The body of x is written: a place at most, and x had none.
LEMMA CopyWrite ==
  ASSUME CopyInv, \A m \in Msgs : Over(m) => Over(m)',
         NEW x \in Msgs, ~Over(x), Over(x)', NEW e \in Conns, NEW n \in Nat,
         \A m \in Msgs, d \in Conns, i \in Nat :
            /\ InWire(m, d, i)' => InWire(m, d, i) \/ (m = x /\ d = e /\ i = n)
            /\ InBuffer(m, d, i)' => InBuffer(m, d, i)
            /\ InGot(m, d, i)' => InGot(m, d, i)
  PROVE  CopyInv'
<1> SUFFICES ASSUME NEW m \in Msgs, NEW c \in Conns, NEW d \in Conns, NEW i \in Nat, NEW j \in Nat
             PROVE  /\ InWire(m, c, i)' => Over(m)'
                    /\ InBuffer(m, c, i)' => Over(m)'
                    /\ InGot(m, c, i)' => Over(m)'
                    /\ InWire(m, c, i)' /\ InWire(m, d, j)' => c = d /\ i = j
                    /\ InBuffer(m, c, i)' /\ InBuffer(m, d, j)' => c = d /\ i = j
                    /\ InGot(m, c, i)' /\ InGot(m, d, j)' => c = d /\ i = j
                    /\ ~(InWire(m, c, i)' /\ InBuffer(m, d, j)')
                    /\ ~(InWire(m, c, i)' /\ InGot(m, d, j)')
                    /\ ~(InBuffer(m, c, i)' /\ InGot(m, d, j)')
  BY DEF CopyInv
<1> QED  BY DEF CopyInv

\* The first n of what is on the way to e are moved to the buffer.
LEMMA CopyMove ==
  ASSUME CopyInv, \A m \in Msgs : Over(m) => Over(m)', NEW e \in Conns, NEW n \in Nat,
         \A m \in Msgs, d \in Conns, i \in Nat :
            /\ InWire(m, d, i)' => InWire(m, d, IF d = e THEN i + n ELSE i) /\ (d = e => i >= 1)
            /\ InBuffer(m, d, i)' => InBuffer(m, d, i) \/ (d = e /\ \E k \in 1 .. n : InWire(m, e, k))
            /\ InGot(m, d, i)' => InGot(m, d, i),
         \A m \in Msgs, i, j \in Nat :
            InBuffer(m, e, i)' /\ ~InBuffer(m, e, i) /\ InBuffer(m, e, j)' /\ ~InBuffer(m, e, j) => i = j
  PROVE  CopyInv'
<1> SUFFICES ASSUME NEW m \in Msgs, NEW c \in Conns, NEW d \in Conns, NEW i \in Nat, NEW j \in Nat
             PROVE  /\ InWire(m, c, i)' => Over(m)'
                    /\ InBuffer(m, c, i)' => Over(m)'
                    /\ InGot(m, c, i)' => Over(m)'
                    /\ InWire(m, c, i)' /\ InWire(m, d, j)' => c = d /\ i = j
                    /\ InBuffer(m, c, i)' /\ InBuffer(m, d, j)' => c = d /\ i = j
                    /\ InGot(m, c, i)' /\ InGot(m, d, j)' => c = d /\ i = j
                    /\ ~(InWire(m, c, i)' /\ InBuffer(m, d, j)')
                    /\ ~(InWire(m, c, i)' /\ InGot(m, d, j)')
                    /\ ~(InBuffer(m, c, i)' /\ InGot(m, d, j)')
  BY DEF CopyInv
<1>1. \A a \in Conns, k \in Nat : (IF a = e THEN k + n ELSE k) \in Nat
  OBVIOUS
<1>2. InWire(m, c, i)' => Over(m)' /\ ~InGot(m, d, j)'
  BY <1>1 DEF CopyInv
<1>3. InBuffer(m, c, i)' => Over(m)' /\ ~InGot(m, d, j)'
  <2>1. ASSUME NEW k \in 1 .. n, InWire(m, e, k)  PROVE Over(m) /\ ~InGot(m, d, j)
    BY <2>1 DEF CopyInv
  <2>2. InBuffer(m, c, i) => Over(m) /\ ~InGot(m, d, j)
    BY DEF CopyInv
  <2> QED  BY <2>1, <2>2
<1>4. InGot(m, c, i)' => Over(m)'
  BY DEF CopyInv
<1>5. InWire(m, c, i)' /\ InWire(m, d, j)' => c = d /\ i = j
  <2> SUFFICES ASSUME InWire(m, c, i)', InWire(m, d, j)'  PROVE c = d /\ i = j
    OBVIOUS
  <2>1. c = d /\ (IF c = e THEN i + n ELSE i) = (IF d = e THEN j + n ELSE j)
    BY <1>1 DEF CopyInv
  <2> QED  BY <2>1
<1>6. InBuffer(m, c, i)' /\ InBuffer(m, d, j)' => c = d /\ i = j
  <2> SUFFICES ASSUME InBuffer(m, c, i)', InBuffer(m, d, j)'  PROVE c = d /\ i = j
    OBVIOUS
  <2>1. CASE InBuffer(m, c, i) /\ InBuffer(m, d, j)
    BY <2>1 DEF CopyInv
  <2>2. CASE InBuffer(m, c, i) /\ ~InBuffer(m, d, j)
    <3>1. PICK k \in 1 .. n : InWire(m, e, k)
      BY <2>2
    <3> QED  BY <2>2, <3>1 DEF CopyInv
  <2>3. CASE ~InBuffer(m, c, i) /\ InBuffer(m, d, j)
    <3>1. PICK k \in 1 .. n : InWire(m, e, k)
      BY <2>3
    <3> QED  BY <2>3, <3>1 DEF CopyInv
  <2>4. CASE ~InBuffer(m, c, i) /\ ~InBuffer(m, d, j)
    <3>1. c = e /\ d = e
      BY <2>4
    <3> QED  BY <2>4, <3>1
  <2> QED  BY <2>1, <2>2, <2>3, <2>4
<1>7. InGot(m, c, i)' /\ InGot(m, d, j)' => c = d /\ i = j
  BY DEF CopyInv
<1>8. ~(InWire(m, c, i)' /\ InBuffer(m, d, j)')
  <2> SUFFICES ASSUME InWire(m, c, i)', InBuffer(m, d, j)'  PROVE FALSE
    OBVIOUS
  <2>1. InWire(m, c, IF c = e THEN i + n ELSE i) /\ (c = e => i >= 1)
    OBVIOUS
  <2>2. ~InBuffer(m, d, j)
    BY <1>1, <2>1 DEF CopyInv
  <2>3. PICK k \in 1 .. n : InWire(m, e, k)
    BY <2>2
  <2>4. c = e /\ (IF c = e THEN i + n ELSE i) = k
    BY <1>1, <2>1, <2>3 DEF CopyInv
  <2> QED  BY <2>1, <2>4
<1> QED  BY <1>2, <1>3, <1>4, <1>5, <1>6, <1>7, <1>8

\* The first n bytes leave the buffer of e, and with them, perhaps, the end of x.
Skipped(e, n, x, g) ==
    \A m \in Msgs, d \in Conns, i \in Nat :
        /\ InWire(m, d, i)' => InWire(m, d, i)
        /\ InBuffer(m, d, i)' => InBuffer(m, d, IF d = e THEN i + n ELSE i) /\ (d = e => i >= 1)
        /\ InGot(m, d, i)' => InGot(m, d, i) \/ (m = x /\ d = e /\ i = g)

LEMMA CopySkip ==
  ASSUME CopyInv, \A m \in Msgs : Over(m) => Over(m)', NEW e \in Conns, NEW n \in Nat, NEW x, NEW g, Skipped(e, n, x, g),
         x \in Msgs => \E k \in 1 .. n : InBuffer(x, e, k)
  PROVE  CopyInv'
<1> SUFFICES ASSUME NEW m \in Msgs, NEW c \in Conns, NEW d \in Conns, NEW i \in Nat, NEW j \in Nat
             PROVE  /\ InWire(m, c, i)' => Over(m)'
                    /\ InBuffer(m, c, i)' => Over(m)'
                    /\ InGot(m, c, i)' => Over(m)'
                    /\ InWire(m, c, i)' /\ InWire(m, d, j)' => c = d /\ i = j
                    /\ InBuffer(m, c, i)' /\ InBuffer(m, d, j)' => c = d /\ i = j
                    /\ InGot(m, c, i)' /\ InGot(m, d, j)' => c = d /\ i = j
                    /\ ~(InWire(m, c, i)' /\ InBuffer(m, d, j)')
                    /\ ~(InWire(m, c, i)' /\ InGot(m, d, j)')
                    /\ ~(InBuffer(m, c, i)' /\ InGot(m, d, j)')
  BY DEF CopyInv
<1>s. /\ \A y \in Msgs, a \in Conns, k \in Nat : InWire(y, a, k)' => InWire(y, a, k)
      /\ \A y \in Msgs, a \in Conns, k \in Nat :
            InBuffer(y, a, k)' => InBuffer(y, a, IF a = e THEN k + n ELSE k) /\ (a = e => k >= 1)
      /\ \A y \in Msgs, a \in Conns, k \in Nat : InGot(y, a, k)' => InGot(y, a, k) \/ (y = x /\ a = e /\ k = g)
  BY DEF Skipped
<1>1. \A a \in Conns, k \in Nat : (IF a = e THEN k + n ELSE k) \in Nat
  OBVIOUS
<1>2. InWire(m, c, i)' => Over(m)' /\ ~InBuffer(m, d, j)'
  BY <1>s, <1>1 DEF CopyInv
<1>3. InWire(m, c, i)' /\ InWire(m, d, j)' => c = d /\ i = j
  BY <1>s DEF CopyInv
<1>4. InBuffer(m, c, i)' => Over(m)'
  BY <1>s, <1>1 DEF CopyInv
<1>5. InBuffer(m, c, i)' /\ InBuffer(m, d, j)' => c = d /\ i = j
  <2> SUFFICES ASSUME InBuffer(m, c, i)', InBuffer(m, d, j)'  PROVE c = d /\ i = j
    OBVIOUS
  <2>1. c = d /\ (IF c = e THEN i + n ELSE i) = (IF d = e THEN j + n ELSE j)
    BY <1>s, <1>1 DEF CopyInv
  <2> QED  BY <2>1
<1>6. CASE m # x
  <2>1. InGot(m, c, i)' => InGot(m, c, i)
    BY <1>s, <1>6
  <2>2. InGot(m, d, j)' => InGot(m, d, j)
    BY <1>s, <1>6
  <2>3. InGot(m, d, j) => ~InBuffer(m, c, i)'
    BY <1>s, <1>1 DEF CopyInv
  <2>4. /\ InGot(m, c, i) => Over(m)
        /\ InGot(m, c, i) /\ InGot(m, d, j) => c = d /\ i = j
        /\ ~(InWire(m, c, i) /\ InGot(m, d, j))
    BY DEF CopyInv
  <2>5. InWire(m, c, i)' => InWire(m, c, i)
    BY <1>s
  <2> QED  BY <1>2, <1>3, <1>4, <1>5, <2>1, <2>2, <2>3, <2>4, <2>5
<1>7. CASE m = x
  <2>1. PICK k \in 1 .. n : InBuffer(m, e, k)
    BY <1>7
  <2>2. Over(m) /\ ~InGot(m, c, i) /\ ~InGot(m, d, j) /\ ~InWire(m, c, i)
    BY <2>1 DEF CopyInv
  <2>3. ~InBuffer(m, c, i)'
    <3> SUFFICES ASSUME InBuffer(m, c, i)'  PROVE FALSE
      OBVIOUS
    <3>1. InBuffer(m, c, IF c = e THEN i + n ELSE i) /\ (c = e => i >= 1)
      BY <1>s
    <3>2. c = e /\ (IF c = e THEN i + n ELSE i) = k
      BY <1>1, <2>1, <3>1 DEF CopyInv
    <3> QED  BY <3>1, <3>2
  <2>4. InGot(m, c, i)' => c = e /\ i = g
    BY <1>s, <2>2
  <2>5. InGot(m, d, j)' => d = e /\ j = g
    BY <1>s, <2>2
  <2>6. ~InWire(m, c, i)'
    BY <1>s, <2>2
  <2> QED  BY <1>3, <1>5, <2>2, <2>3, <2>4, <2>5, <2>6
<1> QED  BY <1>6, <1>7

\* What Put adds.
LEMMA PutPlaces ==
  ASSUME TypeOK, NEW p \in Producers, NEW bytes \in Seq(Bytes), Put(p, bytes), local' = local,
         NEW m \in Msgs, NEW d \in Conns, NEW i \in Nat, InWire(m, d, i)', ~InWire(m, d, i)
  PROVE  /\ d = on[p]
         /\ local => bytes = Body(m) /\ i = Len(wire[d]) + 1
         /\ ~local => i - Len(wire[d]) \in 1 .. Len(bytes) /\ bytes[i - Len(wire[d])] = Last(m)
<1>0. on[p] \in Conns
  BY DEF TypeOK
<1>1. wire' = [wire EXCEPT ![on[p]] = wire[on[p]] \o IF local THEN <<bytes>> ELSE bytes]
  BY PutType
<1>2. d = on[p]
  <2> SUFFICES ASSUME d # on[p]  PROVE FALSE
    OBVIOUS
  <2>1. wire'[d] = wire[d]
    BY <1>1 DEF TypeOK
  <2> QED  BY <2>1 DEF InWire
<1>3. CASE local
  <2>1. wire \in [Conns -> Seq(Seq(Bytes))]
    BY <1>3 DEF TypeOK
  <2>2. wire'[d] = wire[d] \o <<bytes>>
    BY <1>0, <1>1, <1>2, <1>3, <2>1
  <2>3. wire[d] \in Seq(Seq(Bytes)) /\ <<bytes>> \in Seq(Seq(Bytes)) /\ Len(<<bytes>>) = 1 /\ <<bytes>>[1] = bytes
    BY <2>1
  <2>4. /\ Len(wire'[d]) = Len(wire[d]) + 1 /\ wire'[d] \in Seq(Seq(Bytes))
        /\ \A k \in 1 .. Len(wire[d]) + 1 : wire'[d][k] = IF k <= Len(wire[d]) THEN wire[d][k] ELSE <<bytes>>[k - Len(wire[d])]
    BY <2>2, <2>3, ConcatProperties
  <2>5. i \in 1 .. Len(wire[d]) + 1 /\ wire'[d][i] = Body(m)
    BY <1>3, <2>4 DEF InWire
  <2>6. ~(i <= Len(wire[d]))
    BY <1>3, <2>3, <2>4, <2>5 DEF InWire
  <2>7. i = Len(wire[d]) + 1 /\ i - Len(wire[d]) = 1
    BY <2>3, <2>5, <2>6
  <2> QED  BY <1>2, <1>3, <2>3, <2>4, <2>5, <2>6, <2>7
<1>4. CASE ~local
  <2>1. wire \in [Conns -> Seq(Bytes)]
    BY <1>4 DEF TypeOK
  <2>2. wire'[d] = wire[d] \o bytes
    BY <1>0, <1>1, <1>2, <1>4, <2>1
  <2>3. /\ Len(wire'[d]) = Len(wire[d]) + Len(bytes) /\ wire'[d] \in Seq(Bytes)
        /\ \A k \in 1 .. Len(wire[d]) + Len(bytes) : wire'[d][k] = IF k <= Len(wire[d]) THEN wire[d][k] ELSE bytes[k - Len(wire[d])]
    BY <2>1, <2>2, ConcatProperties
  <2>4. i \in 1 .. Len(wire[d]) + Len(bytes) /\ wire'[d][i] = Last(m)
    BY <1>4, <2>3 DEF InWire
  <2>5. Len(wire[d]) \in Nat /\ Len(bytes) \in Nat /\ DOMAIN wire[d] = 1 .. Len(wire[d])
    BY <2>1
  <2>6. ~(i <= Len(wire[d]))
    BY <1>4, <2>3, <2>4, <2>5 DEF InWire
  <2> QED  BY <1>2, <1>4, <2>3, <2>4, <2>5, <2>6
<1> QED  BY <1>3, <1>4

\* A size is no body, and a body is of one message.
LEMMA SlicesDiffer ==
  ASSUME NEW m \in Msgs, NEW x \in Msgs
  PROVE  Size(m) # Body(x) /\ (Body(m) = Body(x) => m = x) /\ (Size(m) = Size(x) => m = x)
<1>1. 1 \in 1 .. HeaderSize /\ 1 \in 1 .. BodySize[m] /\ 1 \in 1 .. BodySize[x] /\ HeaderSize + 1 # 1
  BY Lengths
<1>2. Size(m)[1] = <<m, 1>> /\ Size(x)[1] = <<x, 1>> /\ Body(x)[1] = <<x, HeaderSize + 1>> /\ Body(m)[1] = <<m, HeaderSize + 1>>
  BY <1>1, FrameParts
<1> QED  BY <1>1, <1>2

LEMMA OverKept ==
  ASSUME TypeOK, [Next]_vars, NEW m \in Msgs, Over(m)
  PROVE  Over(m)'
<1>0. None \notin Msgs
  BY Lengths
<1>1. ASSUME NEW p \in Producers, NEW x \in Msgs, Take(p, x)  PROVE Over(m)'
  BY <1>1 DEF Take, TypeOK, Over
<1>2. ASSUME NEW p \in Producers, WriteBody(p)  PROVE Over(m)'
  BY <1>0, <1>2 DEF WriteBody, Written, TypeOK, Over
<1>3. ASSUME NEW p \in Producers, WriteSize(p) \/ WriteFails(p) \/ Retry(p) \/ WritePart(p)  PROVE UNCHANGED <<todo, cur>>
  BY <1>3 DEF WriteSize, WriteFails, Retry, WritePart
<1>4. ASSUME NEW c \in Conns, Break(c) \/ ReadMqMsg(c)  PROVE UNCHANGED <<todo, cur>>
  BY <1>4 DEF Break, ReadMqMsg, Read, ReadSlice, ReadFails, GetMqMsg, Garbled, producers
<1>5. Connect \/ UNCHANGED vars => UNCHANGED <<todo, cur>>
  BY DEF Connect, vars, producers
<1>6. UNCHANGED <<todo, cur>> => Over(m)'
  BY DEF Over
<1> QED  BY <1>1, <1>2, <1>3, <1>4, <1>5, <1>6 DEF Next, Write

LEMMA Dropped ==
  ASSUME NEW S, NEW s \in Seq(S), NEW n \in Nat, NEW t, t = SubSeq(s, n + 1, Len(s))
  PROVE  /\ t \in Seq(S) /\ DOMAIN t = 1 .. Len(t) /\ Len(t) \in Nat
         /\ \A i \in DOMAIN t : i >= 1 /\ n + i \in DOMAIN s /\ t[i] = s[n + i]
         /\ n <= Len(s) => Len(t) = Len(s) - n
<1>1. Len(s) \in Nat /\ n + 1 \in Int /\ Len(s) \in Int /\ DOMAIN s = 1 .. Len(s)
  OBVIOUS
<1>2. \A i \in n + 1 .. Len(s) : s[i] \in S
  BY <1>1
<1>3. /\ t \in Seq(S) /\ Len(t) = (IF n + 1 <= Len(s) THEN Len(s) - (n + 1) + 1 ELSE 0)
      /\ \A i \in 1 .. Len(s) - (n + 1) + 1 : t[i] = s[n + 1 + i - 1]
  BY <1>1, <1>2, SubSeqProperties
<1>4. ASSUME NEW i \in DOMAIN t  PROVE i >= 1 /\ n + i \in DOMAIN s /\ t[i] = s[n + i]
  <2>1. i \in 1 .. Len(s) - (n + 1) + 1 /\ n + 1 + i - 1 = n + i /\ n + i \in 1 .. Len(s)
    BY <1>1, <1>3
  <2> QED  BY <2>1, <1>1, <1>3
<1>5. n <= Len(s) => Len(t) = Len(s) - n
  <2>1. Len(t) = (IF n + 1 <= Len(s) THEN Len(s) - (n + 1) + 1 ELSE 0)
    BY <1>3
  <2>2. Len(s) \in Nat
    BY <1>1
  <2> QED  BY <2>1, <2>2
<1>6. t \in Seq(S) /\ DOMAIN t = 1 .. Len(t) /\ Len(t) \in Nat
  BY <1>3
<1> QED  BY <1>4, <1>5, <1>6

LEMMA Kept ==
  ASSUME NEW S, NEW s \in Seq(S), NEW n \in Nat, n <= Len(s), NEW t, t = SubSeq(s, 1, n)
  PROVE  t \in Seq(S) /\ Len(t) = n /\ DOMAIN t = 1 .. n /\ \A i \in 1 .. n : t[i] = s[i] /\ i \in DOMAIN s
<1>1. Len(s) \in Nat /\ 1 \in Int /\ n \in Int /\ DOMAIN s = 1 .. Len(s)
  OBVIOUS
<1>2. \A i \in 1 .. n : s[i] \in S
  BY <1>1
<1>3. /\ t \in Seq(S) /\ Len(t) = (IF 1 <= n THEN n - 1 + 1 ELSE 0)
      /\ \A i \in 1 .. n - 1 + 1 : t[i] = s[1 + i - 1]
  BY <1>1, <1>2, SubSeqProperties
<1>4. Len(t) = n
  BY <1>3
<1>5. ASSUME NEW i \in 1 .. n  PROVE t[i] = s[i] /\ i \in DOMAIN s
  <2>1. i \in 1 .. n - 1 + 1 /\ 1 + i - 1 = i /\ i \in 1 .. Len(s)
    BY <1>1
  <2> QED  BY <2>1, <1>1, <1>3
<1> QED  BY <1>3, <1>4, <1>5

LEMMA SkipPlaces ==
  ASSUME TypeOK, NEW c \in Conns, NEW n \in Nat, Skip(c, n), NEW m \in Msgs, NEW d \in Conns, NEW i \in Nat,
         InBuffer(m, d, i)'
  PROVE  InBuffer(m, d, IF d = c THEN i + n ELSE i) /\ (d = c => i >= 1)
<1>1. buffer \in [Conns -> Seq(Bytes)] /\ buffer' = [buffer EXCEPT ![c] = SubSeq(buffer[c], n + 1, Len(buffer[c]))]
  BY DEF TypeOK, Skip
<1>2. CASE d = c
  <2>1. buffer[c] \in Seq(Bytes) /\ buffer'[c] = SubSeq(buffer[c], n + 1, Len(buffer[c]))
    BY <1>1
  <2>2. i \in DOMAIN buffer'[c] /\ buffer'[c][i] = Last(m)
    BY <1>2 DEF InBuffer
  <2>3. i >= 1 /\ n + i \in DOMAIN buffer[c] /\ buffer'[c][i] = buffer[c][n + i]
    BY <2>1, <2>2, Dropped
  <2>4. n + i = i + n
    OBVIOUS
  <2> QED  BY <1>2, <2>2, <2>3, <2>4 DEF InBuffer
<1>3. CASE d # c
  BY <1>1, <1>3 DEF InBuffer
<1> QED  BY <1>2, <1>3

LEMMA CopyInit == Init => CopyInv
<1> SUFFICES ASSUME Init  PROVE CopyInv
  OBVIOUS
<1>1. \A m \in Msgs, c \in Conns, i \in Nat : ~InWire(m, c, i) /\ ~InBuffer(m, c, i) /\ ~InGot(m, c, i)
  BY DEF Init, InWire, InBuffer, InGot
<1> QED  BY <1>1 DEF CopyInv

LEMMA CopyStep == TypeOK /\ OwnInv /\ CopyInv /\ SliceInv /\ [Next]_vars => CopyInv'
<1> SUFFICES ASSUME TypeOK, OwnInv, CopyInv, SliceInv, [Next]_vars  PROVE CopyInv'
  OBVIOUS
<1>k. \A m \in Msgs : Over(m) => Over(m)'
  BY OverKept
<1>s. ASSUME UNCHANGED <<local, wire>>  PROVE \A m \in Msgs, d \in Conns, i \in Nat : InWire(m, d, i)' => InWire(m, d, i)
  BY <1>s DEF InWire
<1>b. ASSUME UNCHANGED buffer  PROVE \A m \in Msgs, d \in Conns, i \in Nat : InBuffer(m, d, i)' => InBuffer(m, d, i)
  BY <1>b DEF InBuffer
<1>g. ASSUME UNCHANGED got  PROVE \A m \in Msgs, d \in Conns, i \in Nat : InGot(m, d, i)' => InGot(m, d, i)
  BY <1>g DEF InGot
<1>1. ASSUME UNCHANGED <<local, wire, buffer, got>>  PROVE CopyInv'
  BY <1>1, <1>k, <1>s, <1>b, <1>g, CopyFewer
<1>2. ASSUME NEW p \in Producers, (\E m \in Msgs : Take(p, m)) \/ WriteFails(p) \/ Retry(p)
      PROVE  CopyInv'
  BY <1>1, <1>2 DEF Take, WriteFails, Retry
<1>3. Connect \/ UNCHANGED vars => CopyInv'
  BY <1>1 DEF Connect, vars, producers
<1>4. ASSUME NEW c \in Conns, ReadFails(c)  PROVE CopyInv'
  BY <1>1, <1>4 DEF ReadFails, producers
<1>5. ASSUME NEW p \in Producers, WriteSize(p)  PROVE CopyInv'
  <2>1. cur[p] \in Msgs /\ local' = local /\ buffer' = buffer /\ got' = got
    BY <1>5, HasMessage DEF WriteSize
  <2>2. Size(cur[p]) \in Seq(Bytes) /\ Put(p, Size(cur[p]))
    BY <1>5, <2>1, FrameParts DEF WriteSize
  <2>3. ASSUME NEW m \in Msgs, NEW d \in Conns, NEW i \in Nat, InWire(m, d, i)', ~InWire(m, d, i)  PROVE FALSE
    <3>1. /\ local => Size(cur[p]) = Body(m)
          /\ ~local => i - Len(wire[d]) \in 1 .. HeaderSize /\ Size(cur[p])[i - Len(wire[d])] = Last(m)
      BY <2>1, <2>2, <2>3, PutPlaces, FrameParts
    <3>2. ~local
      BY <3>1, <2>1, SlicesDiffer
    <3>3. PICK k \in 1 .. HeaderSize : Size(cur[p])[k] = Last(m)
      BY <3>1, <3>2
    <3>4. <<cur[p], k>> = <<m, HeaderSize + BodySize[m]>>
      BY <3>3, <2>1, FrameParts DEF Last
    <3>5. k = HeaderSize + BodySize[m]
      BY <3>4
    <3> QED  BY <3>5, Lengths
  <2> QED  BY <1>k, <1>b, <1>g, <2>1, <2>3, CopyFewer
<1>6. ASSUME NEW p \in Producers, WritePart(p)  PROVE CopyInv'
  <2>1. cur[p] \in Msgs /\ local' = local /\ ~local /\ buffer' = buffer /\ got' = got
    BY <1>6, HasMessage DEF WritePart
  <2> DEFINE bytes == IF pc[p] = "size" THEN Size(cur[p]) ELSE Body(cur[p])
  <2>2. PICK n \in 0 .. Len(bytes) - 1 : Put(p, SubSeq(bytes, 1, n))
    BY <1>6 DEF WritePart
  <2>3. /\ bytes \in Seq(Bytes) /\ Len(bytes) \in Nat
        /\ \A k \in 1 .. Len(bytes) : k < Len(bytes) => bytes[k][2] < HeaderSize + BodySize[bytes[k][1]]
    <3>1. HeaderSize \in Nat /\ BodySize[cur[p]] \in Nat /\ BodySize[cur[p]] >= 1
      BY <2>1, Lengths
    <3>2. CASE pc[p] = "size"
      BY <3>1, <3>2, <2>1, FrameParts
    <3>3. CASE pc[p] # "size"
      <4>1. bytes = Body(cur[p]) /\ bytes \in Seq(Bytes) /\ Len(bytes) = BodySize[cur[p]]
        BY <3>3, <2>1, FrameParts
      <4>2. ASSUME NEW k \in 1 .. BodySize[cur[p]], k < BodySize[cur[p]]
            PROVE  bytes[k][2] < HeaderSize + BodySize[bytes[k][1]]
        <5>1. bytes[k] = <<cur[p], HeaderSize + k>>
          BY <4>1, <2>1, FrameParts
        <5>2. bytes[k][2] = HeaderSize + k /\ bytes[k][1] = cur[p]
          BY <5>1
        <5> QED  BY <5>2, <4>2, <3>1
      <4> QED  BY <4>1, <4>2, <3>1
    <3> QED  BY <3>2, <3>3
  <2> HIDE DEF bytes
  <2>4. n \in Nat /\ n <= Len(bytes) /\ n < Len(bytes)
    BY <2>2, <2>3
  <2>5. /\ SubSeq(bytes, 1, n) \in Seq(Bytes) /\ Len(SubSeq(bytes, 1, n)) = n
        /\ \A k \in 1 .. n : SubSeq(bytes, 1, n)[k] = bytes[k]
    BY <2>3, <2>4, Kept
  <2>6. ASSUME NEW m \in Msgs, NEW d \in Conns, NEW i \in Nat, InWire(m, d, i)', ~InWire(m, d, i)  PROVE FALSE
    <3>1. i - Len(wire[d]) \in 1 .. n /\ SubSeq(bytes, 1, n)[i - Len(wire[d])] = Last(m)
      <4>1. PICK t \in Seq(Bytes) : t = SubSeq(bytes, 1, n)
        BY <2>5
      <4>2. i - Len(wire[d]) \in 1 .. Len(t) /\ t[i - Len(wire[d])] = Last(m)
        <5>1. Put(p, t)
          BY <2>2, <4>1
        <5> QED  BY <2>1, <2>6, <5>1, PutPlaces
      <4> QED  BY <4>1, <4>2, <2>5
    <3>2. PICK k \in 1 .. n : bytes[k] = Last(m)
      BY <3>1, <2>5
    <3>3. k \in 1 .. Len(bytes) /\ k < Len(bytes)
      BY <2>3, <2>4
    <3>4. bytes[k][2] < HeaderSize + BodySize[bytes[k][1]]
      BY <2>3, <3>3
    <3>5. bytes[k][1] = m /\ bytes[k][2] = HeaderSize + BodySize[m] /\ HeaderSize + BodySize[m] \in Nat
      BY <3>2, Lengths DEF Last
    <3> QED  BY <3>4, <3>5
  <2> QED  BY <1>k, <1>b, <1>g, <2>1, <2>6, CopyFewer
<1>7. ASSUME NEW p \in Producers, WriteBody(p)  PROVE CopyInv'
  <2>1. cur[p] \in Msgs /\ on[p] \in Conns /\ local' = local /\ buffer' = buffer /\ got' = got
    BY <1>7, HasMessage DEF WriteBody
  <2>2. Body(cur[p]) \in Seq(Bytes) /\ Put(p, Body(cur[p])) /\ Len(Body(cur[p])) = BodySize[cur[p]]
    BY <1>7, <2>1, FrameParts DEF WriteBody
  <2> DEFINE n == Len(wire[on[p]]) + IF local THEN 1 ELSE BodySize[cur[p]]
  <2>3. n \in Nat /\ Len(wire[on[p]]) \in Nat
    <3>1. (local => wire[on[p]] \in Seq(Seq(Bytes))) /\ (~local => wire[on[p]] \in Seq(Bytes))
      BY <2>1 DEF TypeOK
    <3>2. Len(wire[on[p]]) \in Nat
      BY <3>1
    <3> QED  BY <3>2, <2>1, Lengths
  <2>4. ASSUME NEW m \in Msgs, NEW d \in Conns, NEW i \in Nat, InWire(m, d, i)', ~InWire(m, d, i)
        PROVE  m = cur[p] /\ d = on[p] /\ i = n
    <3>1. /\ d = on[p]
          /\ local => Body(cur[p]) = Body(m) /\ i = Len(wire[d]) + 1
          /\ ~local => i - Len(wire[d]) \in 1 .. BodySize[cur[p]] /\ Body(cur[p])[i - Len(wire[d])] = Last(m)
      BY <2>1, <2>2, <2>4, PutPlaces
    <3>2. CASE local
      BY <3>1, <3>2, <2>1, SlicesDiffer
    <3>3. CASE ~local
      <4>1. PICK k \in 1 .. BodySize[cur[p]] : k = i - Len(wire[d]) /\ Body(cur[p])[k] = Last(m)
        BY <3>1, <3>3
      <4>2. <<cur[p], HeaderSize + k>> = <<m, HeaderSize + BodySize[m]>>
        BY <4>1, <2>1, FrameParts DEF Last
      <4>3. m = cur[p] /\ HeaderSize + k = HeaderSize + BodySize[m]
        BY <4>2
      <4>4. k = BodySize[cur[p]]
        BY <4>3, Lengths
      <4> QED  BY <3>1, <3>3, <4>1, <4>3, <4>4, <2>3
    <3> QED  BY <3>2, <3>3
  <2>5. ~Over(cur[p]) /\ cur[p] \notin todo
    BY DEF Over, OwnInv
  <2>6. \A x : x = cur[p] => Over(x)'
    <3>1. None \notin Msgs /\ todo' = todo /\ cur' = [cur EXCEPT ![p] = None]
      BY <1>7, Lengths DEF WriteBody, Written
    <3>2. \A q \in Producers : cur'[q] # cur[p]
      BY <3>1, <2>1 DEF OwnInv, TypeOK
    <3> QED  BY <3>1, <3>2, <2>5 DEF Over
  <2> HIDE DEF n
  <2>7. PICK x \in Msgs : x = cur[p]
    BY <2>1
  <2>8. PICK e \in Conns : e = on[p]
    BY <2>1
  <2>9. ~Over(x) /\ Over(x)'
    BY <2>5, <2>6, <2>7
  <2>10. \A m \in Msgs, d \in Conns, i \in Nat :
            /\ InWire(m, d, i)' => InWire(m, d, i) \/ (m = x /\ d = e /\ i = n)
            /\ InBuffer(m, d, i)' => InBuffer(m, d, i)
            /\ InGot(m, d, i)' => InGot(m, d, i)
    BY <1>b, <1>g, <2>1, <2>4, <2>7, <2>8
  <2>11. PICK k \in Nat : k = n
    BY <2>3
  <2>12. \A m \in Msgs, d \in Conns, i \in Nat :
            /\ InWire(m, d, i)' => InWire(m, d, i) \/ (m = x /\ d = e /\ i = k)
            /\ InBuffer(m, d, i)' => InBuffer(m, d, i)
            /\ InGot(m, d, i)' => InGot(m, d, i)
    BY <2>10, <2>11
  <2> QED  BY <1>k, <2>9, <2>12, CopyWrite
<1>8. ASSUME NEW c \in Conns, Break(c)  PROVE CopyInv'
  <2>1. PICK n \in 0 .. Len(wire[c]) : wire' = [wire EXCEPT ![c] = SubSeq(wire[c], 1, n)]
    BY <1>8 DEF Break
  <2>2. local' = local /\ buffer' = buffer /\ got' = got
    BY <1>8 DEF Break, producers
  <2>3. ASSUME NEW m \in Msgs, NEW d \in Conns, NEW i \in Nat, InWire(m, d, i)'  PROVE InWire(m, d, i)
    <3>1. CASE d # c
      BY <3>1, <2>1, <2>2, <2>3 DEF InWire, TypeOK
    <3>2. CASE d = c
      <4>1. \E S : wire[c] \in Seq(S)
        BY DEF TypeOK
      <4>2. PICK S : wire[c] \in Seq(S)
        BY <4>1
      <4>3. wire'[c] = SubSeq(wire[c], 1, n) /\ n \in Nat /\ n <= Len(wire[c])
        BY <2>1, <4>2 DEF TypeOK
      <4>4. DOMAIN wire'[c] = 1 .. n /\ \A k \in 1 .. n : wire'[c][k] = wire[c][k] /\ k \in DOMAIN wire[c]
        BY <4>2, <4>3, Kept
      <4> QED  BY <3>2, <4>4, <2>2, <2>3 DEF InWire
    <3> QED  BY <3>1, <3>2
  <2> QED  BY <1>k, <1>b, <1>g, <2>2, <2>3, CopyFewer
<1>9. ASSUME NEW c \in Conns, Read(c)  PROVE CopyInv'
  <2>1. PICK n \in 1 .. ReadMax :
           /\ n <= Len(wire[c])
           /\ buffer' = [buffer EXCEPT ![c] = buffer[c] \o SubSeq(wire[c], 1, n)]
           /\ wire' = [wire EXCEPT ![c] = SubSeq(wire[c], n + 1, Len(wire[c]))]
    BY <1>9 DEF Read
  <2>2. /\ ~local /\ local' = local /\ got' = got /\ wire \in [Conns -> Seq(Bytes)] /\ buffer \in [Conns -> Seq(Bytes)]
        /\ n \in Nat
    BY <1>9, Lengths DEF Read, producers, TypeOK
  <2>3. ASSUME NEW m \in Msgs, NEW d \in Conns, NEW i \in Nat, InWire(m, d, i)'
        PROVE  InWire(m, d, IF d = c THEN i + n ELSE i) /\ (d = c => i >= 1)
    <3>1. CASE d = c
      <4>1. wire'[c] = SubSeq(wire[c], n + 1, Len(wire[c])) /\ wire[c] \in Seq(Bytes)
        BY <2>1, <2>2
      <4>2. i \in DOMAIN wire'[c] /\ wire'[c][i] = Last(m)
        BY <2>2, <2>3, <3>1 DEF InWire
      <4>3. i >= 1 /\ n + i \in DOMAIN wire[c] /\ wire'[c][i] = wire[c][n + i]
        BY <2>2, <4>1, <4>2, Dropped
      <4>4. n + i = i + n
        BY <2>2
      <4> QED  BY <2>2, <3>1, <4>2, <4>3, <4>4 DEF InWire
    <3>2. CASE d # c
      BY <2>1, <2>2, <2>3, <3>2 DEF InWire
    <3> QED  BY <3>1, <3>2
  <2>4. ASSUME NEW m \in Msgs, NEW d \in Conns, NEW i \in Nat, InBuffer(m, d, i)', ~InBuffer(m, d, i)
        PROVE  d = c /\ i - Len(buffer[c]) \in 1 .. n /\ InWire(m, c, i - Len(buffer[c]))
    <3>1. d = c
      BY <2>1, <2>2, <2>4 DEF InBuffer
    <3> DEFINE t == SubSeq(wire[c], 1, n)
    <3>2. wire[c] \in Seq(Bytes) /\ buffer[c] \in Seq(Bytes)
      BY <2>2
    <3>3. t \in Seq(Bytes) /\ Len(t) = n /\ \A k \in 1 .. n : t[k] = wire[c][k] /\ k \in DOMAIN wire[c]
      BY <2>1, <2>2, <3>2, Kept
    <3>4. buffer'[c] = buffer[c] \o t
      BY <2>1, <2>2
    <3> HIDE DEF t
    <3>5. /\ Len(buffer'[c]) = Len(buffer[c]) + n /\ buffer'[c] \in Seq(Bytes)
          /\ \A k \in 1 .. Len(buffer[c]) + n : buffer'[c][k] = IF k <= Len(buffer[c]) THEN buffer[c][k] ELSE t[k - Len(buffer[c])]
      <4>1. /\ Len(buffer'[c]) = Len(buffer[c]) + Len(t) /\ buffer'[c] \in Seq(Bytes)
            /\ \A k \in 1 .. Len(buffer[c]) + Len(t) : buffer'[c][k] = IF k <= Len(buffer[c]) THEN buffer[c][k] ELSE t[k - Len(buffer[c])]
        <5>1. PICK b \in Seq(Bytes) : b = buffer[c]
          BY <3>2
        <5>2. /\ Len(b \o t) = Len(b) + Len(t) /\ b \o t \in Seq(Bytes)
              /\ \A k \in 1 .. Len(b) + Len(t) : (b \o t)[k] = IF k <= Len(b) THEN b[k] ELSE t[k - Len(b)]
          BY <3>3, ConcatProperties
        <5> QED  BY <3>4, <5>1, <5>2
      <4> QED  BY <3>3, <4>1
    <3>6. i \in 1 .. Len(buffer[c]) + n /\ buffer'[c][i] = Last(m)
      BY <2>4, <3>1, <3>5 DEF InBuffer
    <3>7. Len(buffer[c]) \in Nat /\ DOMAIN buffer[c] = 1 .. Len(buffer[c])
      BY <3>2
    <3>8. ~(i <= Len(buffer[c]))
      BY <2>4, <3>1, <3>5, <3>6, <3>7 DEF InBuffer
    <3>9. i - Len(buffer[c]) \in 1 .. n /\ t[i - Len(buffer[c])] = Last(m)
      BY <3>5, <3>6, <3>7, <3>8, <2>2
    <3> QED  BY <3>1, <3>3, <3>9, <2>2 DEF InWire
  <2>5. ASSUME NEW m \in Msgs, NEW i \in Nat, NEW j \in Nat,
               InBuffer(m, c, i)', ~InBuffer(m, c, i), InBuffer(m, c, j)', ~InBuffer(m, c, j)
        PROVE  i = j
    <3>1. PICK k \in 1 .. n : k = i - Len(buffer[c]) /\ InWire(m, c, k)
      BY <2>4, <2>5
    <3>2. PICK l \in 1 .. n : l = j - Len(buffer[c]) /\ InWire(m, c, l)
      BY <2>4, <2>5
    <3>3. k = l
      BY <3>1, <3>2, <2>2 DEF CopyInv
    <3>4. Len(buffer[c]) \in Nat
      BY <2>2
    <3> QED  BY <3>1, <3>2, <3>3, <3>4
  <2>6. \A m \in Msgs, d \in Conns, i \in Nat :
           InBuffer(m, d, i)' => InBuffer(m, d, i) \/ (d = c /\ \E k \in 1 .. n : InWire(m, c, k))
    BY <2>4
  <2> QED  BY <1>k, <1>g, <2>2, <2>3, <2>5, <2>6, CopyMove
<1>10. ASSUME NEW c \in Conns, ReadSlice(c)  PROVE CopyInv'
  <2> DEFINE slice == Head(wire[c])
  <2>1. /\ local /\ local' = local /\ got' = got /\ wire \in [Conns -> Seq(Seq(Bytes))] /\ wire[c] # <<>>
        /\ buffer \in [Conns -> Seq(Bytes)] /\ wire' = [wire EXCEPT ![c] = Tail(wire[c])]
        /\ (Fits(slice) /\ buffer' = [buffer EXCEPT ![c] = buffer[c] \o slice]) \/ buffer' = buffer
    BY <1>10 DEF ReadSlice, producers, TypeOK
  <2>2. /\ slice \in Seq(Bytes) /\ Tail(wire[c]) \in Seq(Seq(Bytes)) /\ Len(Tail(wire[c])) = Len(wire[c]) - 1
        /\ \A i \in 1 .. Len(Tail(wire[c])) : Tail(wire[c])[i] = wire[c][i + 1]
    BY <2>1, HeadTailProperties
  <2>3. 1 \in DOMAIN wire[c] /\ slice = wire[c][1] /\ DOMAIN wire[c] = 1 .. Len(wire[c]) /\ Len(wire[c]) \in Nat
    BY <2>1
  <2>4. ASSUME NEW m \in Msgs, NEW d \in Conns, NEW i \in Nat, InWire(m, d, i)'
        PROVE  InWire(m, d, IF d = c THEN i + 1 ELSE i) /\ (d = c => i >= 1)
    <3>1. CASE d = c
      <4>1. i \in 1 .. Len(Tail(wire[c])) /\ Tail(wire[c])[i] = Body(m)
        BY <2>1, <2>2, <2>4, <3>1 DEF InWire
      <4>2. i >= 1 /\ i + 1 \in DOMAIN wire[c] /\ wire[c][i + 1] = Body(m)
        BY <4>1, <2>2, <2>3
      <4> QED  BY <4>2, <3>1, <2>1 DEF InWire
    <3>2. CASE d # c
      BY <2>1, <2>4, <3>2 DEF InWire
    <3> QED  BY <3>1, <3>2
  <2>5. PICK x \in Msgs : slice \in {Size(x), Body(x)}
    BY <2>1, <2>3, SMTT(30) DEF SliceInv
  <2> HIDE DEF slice
  <2>6. ASSUME NEW m \in Msgs, NEW d \in Conns, NEW i \in Nat, InBuffer(m, d, i)', ~InBuffer(m, d, i)
        PROVE  d = c /\ i = Len(buffer[c]) + BodySize[m] /\ InWire(m, c, 1)
    <3>0. buffer' = [buffer EXCEPT ![c] = buffer[c] \o slice]
      BY <2>1, <2>6 DEF InBuffer
    <3>1. d = c
      BY <3>0, <2>1, <2>6 DEF InBuffer
    <3>2. buffer'[c] = buffer[c] \o slice /\ buffer[c] \in Seq(Bytes)
      BY <3>0, <2>1
    <3>3. /\ Len(buffer'[c]) = Len(buffer[c]) + Len(slice) /\ buffer'[c] \in Seq(Bytes)
          /\ \A k \in 1 .. Len(buffer[c]) + Len(slice) : buffer'[c][k] = IF k <= Len(buffer[c]) THEN buffer[c][k] ELSE slice[k - Len(buffer[c])]
      BY <3>2, <2>2, ConcatProperties
    <3>4. i \in 1 .. Len(buffer[c]) + Len(slice) /\ buffer'[c][i] = Last(m)
      BY <2>6, <3>1, <3>3 DEF InBuffer
    <3>5. Len(buffer[c]) \in Nat /\ DOMAIN buffer[c] = 1 .. Len(buffer[c]) /\ Len(slice) \in Nat
      BY <3>2, <2>2
    <3>6. ~(i <= Len(buffer[c]))
      BY <2>6, <3>1, <3>3, <3>4, <3>5 DEF InBuffer
    <3>7. PICK k \in 1 .. Len(slice) : k = i - Len(buffer[c]) /\ slice[k] = Last(m)
      BY <3>3, <3>4, <3>5, <3>6
    <3>8. HeaderSize \in Nat /\ \A z \in Msgs : BodySize[z] \in Nat /\ BodySize[z] >= 1
      BY Lengths
    <3>9. slice = Body(x)
      <4> SUFFICES ASSUME slice = Size(x)  PROVE FALSE
        BY <2>5
      <4>1. k \in 1 .. HeaderSize /\ slice[k] = <<x, k>>
        BY <3>7, FrameParts
      <4>2. k = HeaderSize + BodySize[m]
        BY <4>1, <3>7 DEF Last
      <4> QED  BY <4>1, <4>2, <3>8
    <3>10. k \in 1 .. BodySize[x] /\ slice[k] = <<x, HeaderSize + k>>
      BY <3>7, <3>9, FrameParts
    <3>11. x = m /\ HeaderSize + k = HeaderSize + BodySize[m]
      BY <3>10, <3>7 DEF Last
    <3>12. k = BodySize[m]
      BY <3>11, <3>8, <3>10
    <3>13. InWire(m, c, 1)
      BY <2>1, <2>3, <3>9, <3>11 DEF InWire
    <3>14. i = Len(buffer[c]) + BodySize[m]
      BY <3>12, <3>7, <3>5
    <3> QED  BY <3>1, <3>13, <3>14
  <2>7. \A m \in Msgs, d \in Conns, i \in Nat :
           InBuffer(m, d, i)' => InBuffer(m, d, i) \/ (d = c /\ \E k \in 1 .. 1 : InWire(m, c, k))
    BY <2>6
  <2>8. \A m \in Msgs, i, j \in Nat :
           InBuffer(m, c, i)' /\ ~InBuffer(m, c, i) /\ InBuffer(m, c, j)' /\ ~InBuffer(m, c, j) => i = j
    BY <2>6
  <2> QED  BY <1>k, <1>g, <2>1, <2>4, <2>7, <2>8, CopyMove
<1>11. ASSUME NEW c \in Conns, GetMqMsg(c)  PROVE CopyInv'
  <2>1. PICK m \in Msgs : /\ StartsWith(buffer[c], Frame(m)) /\ got' = [got EXCEPT ![c] = Append(got[c], m)]
                          /\ Skip(c, Len(Frame(m)))
    BY <1>11 DEF GetMqMsg
  <2>2. local' = local /\ wire' = wire
    BY <1>11 DEF GetMqMsg, producers
  <2>3. PICK n \in Nat : n = Len(Frame(m)) /\ n = HeaderSize + BodySize[m] /\ n >= 1
    BY FrameParts, Lengths
  <2>4. buffer[c] \in Seq(Bytes) /\ got \in [Conns -> Seq(Msgs \cup {None})]
    BY DEF TypeOK
  <2>5. n \in DOMAIN buffer[c] /\ buffer[c][n] = Last(m)
    <3>1. n <= Len(buffer[c]) /\ \A k \in 1 .. n : buffer[c][k] = <<m, k>>
      BY <2>1, <2>3, <2>4, StartsWithFrame
    <3>2. n \in 1 .. n /\ n \in 1 .. Len(buffer[c]) /\ DOMAIN buffer[c] = 1 .. Len(buffer[c])
      BY <2>3, <2>4, <3>1
    <3> QED  BY <2>3, <3>1, <3>2 DEF Last
  <2>6. n \in 1 .. n /\ InBuffer(m, c, n)
    BY <2>3, <2>5 DEF InBuffer
  <2>7. ASSUME NEW x \in Msgs, NEW d \in Conns, NEW i \in Nat
        PROVE  InBuffer(x, d, i)' => InBuffer(x, d, IF d = c THEN i + n ELSE i) /\ (d = c => i >= 1)
    BY <2>1, <2>3, SkipPlaces
  <2>8. ASSUME NEW x \in Msgs, NEW d \in Conns, NEW i \in Nat, InGot(x, d, i)', ~InGot(x, d, i)
        PROVE  x = m /\ d = c /\ i = Len(got[c]) + 1
    <3>1. d = c
      BY <2>1, <2>4, <2>8 DEF InGot
    <3>2. got'[c] = Append(got[c], m) /\ got[c] \in Seq(Msgs \cup {None}) /\ m \in Msgs \cup {None}
      BY <2>1, <2>4
    <3> QED  BY <2>8, <3>1, <3>2, AppendProperties DEF InGot
  <2>9. \A x \in Msgs, d \in Conns, i \in Nat : InGot(x, d, i)' => InGot(x, d, i) \/ (x = m /\ d = c /\ i = Len(got[c]) + 1)
    BY <2>8
  <2>10. \A x \in Msgs, d \in Conns, i \in Nat :
            /\ InWire(x, d, i)' => InWire(x, d, i)
            /\ InBuffer(x, d, i)' => InBuffer(x, d, IF d = c THEN i + n ELSE i) /\ (d = c => i >= 1)
            /\ InGot(x, d, i)' => InGot(x, d, i) \/ (x = m /\ d = c /\ i = Len(got[c]) + 1)
    BY <1>s, <2>2, <2>7, <2>9
  <2>11. Skipped(c, n, m, Len(got[c]) + 1)
    BY <2>10 DEF Skipped
  <2> QED  BY <1>k, <2>6, <2>11, CopySkip
<1>12. ASSUME NEW c \in Conns, Garbled(c)  PROVE CopyInv'
  <2>1. local' = local /\ wire' = wire
    BY <1>12 DEF Garbled, producers
  <2>2. CASE UNCHANGED <<buffer, got>>
    BY <2>1, <2>2, <1>1
  <2>3. ASSUME NEW n \in HeaderSize + 1 .. Len(buffer[c]), Skip(c, n), got' = [got EXCEPT ![c] = Append(got[c], None)]
        PROVE  CopyInv'
    <3>1. n \in Nat /\ got \in [Conns -> Seq(Msgs \cup {None})] /\ None \notin Msgs
      BY Lengths DEF TypeOK
    <3>2. ASSUME NEW x \in Msgs, NEW d \in Conns, NEW i \in Nat
          PROVE  InBuffer(x, d, i)' => InBuffer(x, d, IF d = c THEN i + n ELSE i) /\ (d = c => i >= 1)
      BY <2>3, <3>1, SkipPlaces
    <3>3. ASSUME NEW x \in Msgs, NEW d \in Conns, NEW i \in Nat, InGot(x, d, i)'  PROVE InGot(x, d, i)
      <4>1. CASE d # c
        BY <2>3, <3>1, <3>3, <4>1 DEF InGot
      <4>2. CASE d = c
        <5>1. got'[c] = Append(got[c], None) /\ got[c] \in Seq(Msgs \cup {None}) /\ None \in Msgs \cup {None}
          BY <2>3, <3>1
        <5> QED  BY <3>1, <3>3, <4>2, <5>1, AppendProperties DEF InGot
      <4> QED  BY <4>1, <4>2
    <3>4. \A x \in Msgs, d \in Conns, i \in Nat : InGot(x, d, i)' => InGot(x, d, i) \/ (x = None /\ d = c /\ i = 0)
      BY <3>3
    <3>5. \A x \in Msgs, d \in Conns, i \in Nat :
             /\ InWire(x, d, i)' => InWire(x, d, i)
             /\ InBuffer(x, d, i)' => InBuffer(x, d, IF d = c THEN i + n ELSE i) /\ (d = c => i >= 1)
             /\ InGot(x, d, i)' => InGot(x, d, i) \/ (x = None /\ d = c /\ i = 0)
      BY <1>s, <2>1, <3>2, <3>4
    <3>6. Skipped(c, n, None, 0)
      BY <3>5 DEF Skipped
    <3> QED  BY <1>k, <3>1, <3>6, CopySkip
  <2> QED  BY <1>12, <2>2, <2>3 DEF Garbled
<1> QED
  BY <1>2, <1>3, <1>4, <1>5, <1>6, <1>7, <1>8, <1>9, <1>10, <1>11, <1>12 DEF Next, Write, ReadMqMsg

-----------------------------------------------------------------------------
(* Streams: what the actions do to Rest.                                   *)
LEMMA RestType ==
  ASSUME TypeOK, ~local, NEW c \in Conns
  PROVE  /\ buffer[c] \in Seq(Bytes) /\ wire[c] \in Seq(Bytes) /\ Rest(c) \in Seq(Bytes)
         /\ sent[c] \in Seq(Msgs) /\ got[c] \in Seq(Msgs \cup {None})
         /\ Len(Rest(c)) = Len(buffer[c]) + Len(wire[c])
         /\ \A i \in 1 .. Len(buffer[c]) + Len(wire[c]) :
               Rest(c)[i] = IF i <= Len(buffer[c]) THEN buffer[c][i] ELSE wire[c][i - Len(buffer[c])]
<1>1. buffer[c] \in Seq(Bytes) /\ wire[c] \in Seq(Bytes) /\ sent[c] \in Seq(Msgs) /\ got[c] \in Seq(Msgs \cup {None})
  BY DEF TypeOK
<1> QED  BY <1>1, ConcatProperties DEF Rest

LEMMA RestOnce ==
  ASSUME TypeOK, ~local, OwnInv, CopyInv, NEW c \in Conns
  PROVE  /\ OnceEach(Rest(c), sent[c])
         /\ \A m \in Msgs, i \in DOMAIN Rest(c) : Rest(c)[i] = Last(m) => Over(m)
<1> DEFINE r == Rest(c)
           b == Len(buffer[c])
<1>0. /\ r \in Seq(Bytes) /\ buffer[c] \in Seq(Bytes) /\ wire[c] \in Seq(Bytes) /\ Len(r) = b + Len(wire[c])
      /\ \A i \in 1 .. b + Len(wire[c]) : r[i] = IF i <= b THEN buffer[c][i] ELSE wire[c][i - b]
  BY RestType
<1>1. /\ r \in Seq(Bytes) /\ b \in Nat /\ DOMAIN buffer[c] = 1 .. b /\ DOMAIN wire[c] = 1 .. Len(wire[c])
      /\ DOMAIN r = 1 .. b + Len(wire[c]) /\ Len(wire[c]) \in Nat
      /\ \A i \in 1 .. b + Len(wire[c]) : r[i] = IF i <= b THEN buffer[c][i] ELSE wire[c][i - b]
  BY <1>0, LenProperties
<1> HIDE DEF r, b
<1>2. ASSUME NEW m \in Msgs, NEW i \in DOMAIN r, r[i] = Last(m)
      PROVE  (i <= b /\ i \in Nat /\ InBuffer(m, c, i)) \/ (i > b /\ i - b \in Nat /\ InWire(m, c, i - b))
  <2>1. CASE i <= b
    BY <1>1, <1>2, <2>1 DEF InBuffer
  <2>2. CASE i > b
    <3>1. i - b \in 1 .. Len(wire[c]) /\ ~(i <= b)
      BY <1>1, <2>2
    <3> QED  BY <1>1, <1>2, <2>2, <3>1 DEF InWire
  <2> QED  BY <2>1, <2>2, <1>1
<1>3. ASSUME NEW m \in Msgs, NEW i \in DOMAIN r, NEW j \in DOMAIN r, r[i] = Last(m), r[j] = Last(m)  PROVE i = j
  <2>1. CASE i <= b /\ j <= b
    BY <2>1, <1>1, <1>2, <1>3 DEF CopyInv
  <2>2. CASE i > b /\ j > b
    <3>1. i - b = j - b
      BY <2>2, <1>1, <1>2, <1>3 DEF CopyInv
    <3> QED  BY <3>1, <1>1
  <2>3. CASE i <= b /\ j > b
    BY <2>3, <1>1, <1>2, <1>3 DEF CopyInv
  <2>4. CASE i > b /\ j <= b
    BY <2>4, <1>1, <1>2, <1>3 DEF CopyInv
  <2> QED  BY <2>1, <2>2, <2>3, <2>4, <1>1
<1>4. \A i \in DOMAIN r : r[i][1] \in Msgs
  BY <1>1, BytesOf
<1>5. \A m \in Msgs, i \in DOMAIN r : r[i] = Last(m) => Over(m)
  BY <1>2 DEF CopyInv
<1>6. \A x, y \in DOMAIN sent[c] : sent[c][x] = sent[c][y] => x = y
  BY DEF OwnInv
<1>7. \A i, j \in DOMAIN r : r[i] = Last(r[i][1]) /\ r[j] = r[i] => i = j
  BY <1>3, <1>4
<1> QED  BY <1>5, <1>6, <1>7 DEF OnceEach, r

LEMMA RestPut ==
  ASSUME TypeOK, ~local, NEW p \in Producers, NEW bytes \in Seq(Bytes), Put(p, bytes), buffer' = buffer,
         NEW c \in Conns
  PROVE  /\ c = on[p] => Rest(c)' = Rest(c) \o bytes
         /\ c # on[p] => Rest(c)' = Rest(c)
<1>1. wire \in [Conns -> Seq(Bytes)] /\ wire' = [wire EXCEPT ![on[p]] = wire[on[p]] \o bytes]
  BY PutType DEF TypeOK
<1>2. c # on[p] => Rest(c)' = Rest(c)
  BY <1>1 DEF Rest
<1>3. ASSUME c = on[p]  PROVE Rest(c)' = Rest(c) \o bytes
  <2>1. wire'[c] = wire[c] \o bytes
    BY <1>1, <1>3
  <2>2. buffer[c] \in Seq(Bytes) /\ wire[c] \in Seq(Bytes)
    BY RestType
  <2>3. (buffer[c] \o wire[c]) \o bytes = buffer[c] \o (wire[c] \o bytes)
    <3>1. PICK b \in Seq(Bytes), w \in Seq(Bytes) : b = buffer[c] /\ w = wire[c]
      BY <2>2
    <3>2. (b \o w) \o bytes = b \o (w \o bytes)
      BY ConcatAssociative
    <3> QED  BY <3>1, <3>2
  <2> QED  BY <2>1, <2>3 DEF Rest
<1> QED  BY <1>2, <1>3

\* The frames of a connection whose bytes and writers are as before.
LEMMA FramedSame ==
  ASSUME NEW c \in Conns, Framed(c), Rest(c)' = Rest(c), sent'[c] = sent[c], got'[c] = got[c],
         c \in up' => /\ c \in up
                      /\ \A p \in Producers : (Inside(p, c)' <=> Inside(p, c)) /\ (Inside(p, c) => cur'[p] = cur[p])
  PROVE  Framed(c)'
<1>1. Chain(Rest(c), sent[c], Len(got[c]))'
  <2>1. Chain(Rest(c), sent[c], Len(got[c]))
    BY DEF Framed
  <2> QED  BY <2>1 DEF Chain, Runs, Begins, Follows, Last
<1>2. ASSUME c \in up', \A p \in Producers : ~Inside(p, c)'
      PROVE  EndsAt(Rest(c), sent[c], Len(got[c]), Len(Rest(c)))'
  <2>1. EndsAt(Rest(c), sent[c], Len(got[c]), Len(Rest(c)))
    BY <1>2 DEF Framed
  <2> QED  BY <2>1 DEF EndsAt, Last
<1>3. ASSUME c \in up', NEW p \in Producers, Inside(p, c)'
      PROVE  /\ EndsAt(Rest(c), sent[c], Len(got[c]), Len(Rest(c)) - HeaderSize)'
             /\ Opened(Rest(c), Len(Rest(c)) - HeaderSize, cur[p])'
  <2>1. /\ EndsAt(Rest(c), sent[c], Len(got[c]), Len(Rest(c)) - HeaderSize)
        /\ Opened(Rest(c), Len(Rest(c)) - HeaderSize, cur[p]) /\ cur'[p] = cur[p]
    BY <1>3 DEF Framed
  <2> QED  BY <2>1 DEF EndsAt, Opened, Last
<1> QED  BY <1>1, <1>2, <1>3 DEF Framed

\* A frame that is broken off before its last byte leaves the messages as they are.
LEMMA ChainUnsent ==
  ASSUME NEW r \in Seq(Bytes), NEW s \in Seq(Msgs), NEW g \in Nat, NEW m \in Msgs, Chain(r, Append(s, m), g),
         g <= Len(s), \A i \in DOMAIN r : r[i] # Last(m)
  PROVE  Chain(r, s, g)
<1> DEFINE u == Append(s, m)
<1>1. u \in Seq(Msgs) /\ Len(u) = Len(s) + 1 /\ u[Len(s) + 1] = m /\ \A a \in 1 .. Len(s) : u[a] = s[a]
  BY AppendProperties
<1>2. DOMAIN u = 1 .. Len(s) + 1 /\ DOMAIN s = 1 .. Len(s) /\ Len(s) \in Nat
  BY <1>1
<1>3. Chain(r, u, g)
  OBVIOUS
<1> HIDE DEF u
<1>4. r # <<>> => r[1][2] = 1 /\ (g < Len(s) => r[1][1] = s[g + 1])
  <2>1. g < Len(s) => g < Len(u) /\ g + 1 \in 1 .. Len(s)
    BY <1>1, <1>2
  <2> QED  BY <1>1, <1>3, <2>1 DEF Chain
<1>5. Follows(r, s, g)
  <2> SUFFICES ASSUME NEW i \in DOMAIN r, r[i] = Last(r[i][1])
               PROVE  \E a \in DOMAIN s : /\ a > g /\ s[a] = r[i][1]
                         /\ \A j \in DOMAIN r : j = i + 1 /\ a < Len(s) => r[j][1] = s[a + 1]
    BY DEF Follows
  <2>1. PICK a \in DOMAIN u : /\ a > g /\ u[a] = r[i][1]
                              /\ \A j \in DOMAIN r : j = i + 1 /\ a < Len(u) => r[j][1] = u[a + 1]
    BY <1>3 DEF Chain, Follows
  <2>2. a # Len(s) + 1
    BY <1>1, <2>1
  <2>3. a \in DOMAIN s /\ u[a] = s[a]
    BY <2>2, <1>1, <1>2
  <2>4. ASSUME NEW j \in DOMAIN r, j = i + 1, a < Len(s)  PROVE r[j][1] = s[a + 1]
    <3>1. a < Len(u) /\ a + 1 \in 1 .. Len(s)
      BY <2>4, <2>3, <1>1, <1>2
    <3> QED  BY <3>1, <2>1, <2>4, <1>1
  <2> QED  BY <2>1, <2>3, <2>4
<1> QED  BY <1>3, <1>4, <1>5 DEF Chain

\* The beginning of a concatenation.
LEMMA Beginning ==
  ASSUME NEW S, NEW s \in Seq(S), NEW t \in Seq(S), NEW n \in Nat, n <= Len(t)
  PROVE  SubSeq(s \o t, 1, Len(s) + n) = s \o SubSeq(t, 1, n) /\ Len(s) + n \in 0 .. Len(s \o t)
<1> DEFINE a == s \o t
           l == Len(s)
           x == SubSeq(t, 1, n)
           y == SubSeq(a, 1, l + n)
           z == s \o x
<1>1. l \in Nat /\ Len(t) \in Nat /\ a \in Seq(S) /\ Len(a) = l + Len(t)
      /\ \A i \in 1 .. l + Len(t) : a[i] = IF i <= l THEN s[i] ELSE t[i - l]
  BY ConcatProperties
<1>2. x \in Seq(S) /\ Len(x) = n /\ \A i \in 1 .. n : x[i] = t[i]
  BY Kept
<1>3. l + n \in Nat /\ l + n <= Len(a)
  BY <1>1
<1> HIDE DEF a, l
<1>4. y \in Seq(S) /\ Len(y) = l + n /\ \A i \in 1 .. l + n : y[i] = a[i]
  BY <1>1, <1>3, Kept
<1> HIDE DEF x
<1>5. z \in Seq(S) /\ Len(z) = l + n /\ \A i \in 1 .. l + n : z[i] = IF i <= l THEN s[i] ELSE x[i - l]
  <2>1. z \in Seq(S) /\ Len(z) = Len(s) + Len(x) /\ \A i \in 1 .. Len(s) + Len(x) : z[i] = IF i <= Len(s) THEN s[i] ELSE x[i - Len(s)]
    BY <1>2, ConcatProperties
  <2> QED  BY <2>1, <1>2 DEF l
<1> HIDE DEF y, z
<1>6. ASSUME NEW i \in 1 .. l + n  PROVE y[i] = z[i]
  <2>1. i \in 1 .. l + Len(t) /\ (~(i <= l) => i - l \in 1 .. n)
    BY <1>1
  <2> QED  BY <2>1, <1>1, <1>2, <1>4, <1>5
<1>7. y = z
  BY <1>4, <1>5, <1>6, SeqEqual
<1> QED  BY <1>1, <1>3, <1>7 DEF y, z, a, l, x

LEMMA RestRead ==
  ASSUME TypeOK, NEW c \in Conns, Read(c), NEW d \in Conns
  PROVE  Rest(d)' = Rest(d)
<1>1. PICK n \in 1 .. ReadMax :
         /\ n <= Len(wire[c])
         /\ buffer' = [buffer EXCEPT ![c] = buffer[c] \o SubSeq(wire[c], 1, n)]
         /\ wire' = [wire EXCEPT ![c] = SubSeq(wire[c], n + 1, Len(wire[c]))]
  BY DEF Read
<1>2. ~local /\ wire \in [Conns -> Seq(Bytes)] /\ buffer \in [Conns -> Seq(Bytes)] /\ n \in Nat
  BY Lengths DEF Read, TypeOK
<1>3. CASE d # c
  BY <1>1, <1>2, <1>3 DEF Rest
<1>4. CASE d = c
  <2>1. PICK b \in Seq(Bytes), w \in Seq(Bytes) : b = buffer[c] /\ w = wire[c]
    BY <1>2
  <2> DEFINE x == SubSeq(w, 1, n)
             y == SubSeq(w, n + 1, Len(w))
  <2>2. x \in Seq(Bytes) /\ Len(x) = n /\ \A i \in 1 .. n : x[i] = w[i]
    BY <1>1, <1>2, <2>1, Kept
  <2>3. y \in Seq(Bytes) /\ Len(y) = Len(w) - n /\ \A i \in DOMAIN y : y[i] = w[n + i]
    BY <1>1, <1>2, <2>1, Dropped
  <2>4. buffer'[c] = b \o x /\ wire'[c] = y
    BY <1>1, <1>2, <2>1
  <2> HIDE DEF x, y
  <2>5. (b \o x) \o y = b \o (x \o y)
    BY <2>2, <2>3, ConcatAssociative, SMTT(30)
  <2>6. x \o y = w
    <3>1. /\ x \o y \in Seq(Bytes) /\ Len(x \o y) = Len(x) + Len(y)
          /\ \A i \in 1 .. Len(x) + Len(y) : (x \o y)[i] = IF i <= Len(x) THEN x[i] ELSE y[i - Len(x)]
      BY <2>2, <2>3, ConcatProperties
    <3>2. Len(x \o y) = Len(w) /\ n <= Len(w) /\ Len(w) \in Nat /\ Len(x) = n /\ Len(y) = Len(w) - n
      BY <3>1, <2>1, <2>2, <2>3, <1>1, <1>2
    <3>3. ASSUME NEW i \in 1 .. Len(x \o y)  PROVE (x \o y)[i] = w[i]
      <4>1. CASE i <= n
        <5>1. i \in 1 .. n /\ i \in 1 .. Len(x) + Len(y) /\ i <= Len(x)
          BY <4>1, <3>2, <1>2
        <5> QED  BY <5>1, <3>1, <2>2
      <4>2. CASE i > n
        <5>1. i - n \in 1 .. Len(y) /\ i \in 1 .. Len(x) + Len(y) /\ ~(i <= Len(x)) /\ n + (i - n) = i
          BY <4>2, <3>2, <1>2
        <5>2. DOMAIN y = 1 .. Len(y)
          BY <2>3
        <5> QED  BY <5>1, <5>2, <3>1, <3>2, <2>3
      <4> QED  BY <4>1, <4>2, <1>2, <3>2
    <3> QED  BY <3>1, <3>2, <3>3, SeqEqual
  <2> QED  BY <1>4, <2>1, <2>4, <2>5, <2>6 DEF Rest
<1> QED  BY <1>3, <1>4

LEMMA RestBreak ==
  ASSUME TypeOK, ~local, NEW c \in Conns, Break(c)
  PROVE  /\ \E n \in 0 .. Len(Rest(c)) : Rest(c)' = SubSeq(Rest(c), 1, n)
         /\ \A d \in Conns : d # c => Rest(d)' = Rest(d)
<1>1. PICK n \in 0 .. Len(wire[c]) : wire' = [wire EXCEPT ![c] = SubSeq(wire[c], 1, n)]
  BY DEF Break
<1>2. wire \in [Conns -> Seq(Bytes)] /\ buffer \in [Conns -> Seq(Bytes)] /\ buffer' = buffer
  BY DEF Break, TypeOK
<1>3. \A d \in Conns : d # c => Rest(d)' = Rest(d)
  BY <1>1, <1>2 DEF Rest
<1>4. PICK b \in Seq(Bytes), w \in Seq(Bytes) : b = buffer[c] /\ w = wire[c] /\ n \in Nat /\ n <= Len(w)
  BY <1>1, <1>2
<1>5. SubSeq(b \o w, 1, Len(b) + n) = b \o SubSeq(w, 1, n) /\ Len(b) + n \in 0 .. Len(b \o w)
  BY <1>4, Beginning
<1>6. Rest(c) = b \o w /\ Rest(c)' = b \o SubSeq(w, 1, n)
  BY <1>1, <1>2, <1>4 DEF Rest
<1> QED  BY <1>3, <1>5, <1>6

\* What is left of a concatenation.
LEMMA Ending ==
  ASSUME NEW S, NEW b \in Seq(S), NEW w \in Seq(S), NEW n \in Nat, n <= Len(b)
  PROVE  SubSeq(b \o w, n + 1, Len(b \o w)) = SubSeq(b, n + 1, Len(b)) \o w
<1> DEFINE x == SubSeq(b, n + 1, Len(b))
           r == b \o w
           y == SubSeq(r, n + 1, Len(r))
           z == x \o w
<1>4. x \in Seq(S) /\ Len(x) = Len(b) - n /\ \A i \in DOMAIN x : x[i] = b[n + i]
  BY Dropped
<1>5. r \in Seq(S) /\ Len(r) = Len(b) + Len(w) /\ \A i \in 1 .. Len(b) + Len(w) : r[i] = IF i <= Len(b) THEN b[i] ELSE w[i - Len(b)]
  BY ConcatProperties
<1>l. Len(b) \in Nat /\ Len(w) \in Nat /\ DOMAIN x = 1 .. Len(x) /\ Len(x) = Len(b) - n
  BY <1>4
<1>r. r \in Seq(S) /\ Len(r) = Len(b) + Len(w)
  BY <1>5
<1> HIDE DEF x, r
<1>7. y \in Seq(S) /\ Len(y) = Len(r) - n /\ DOMAIN y = 1 .. Len(y) /\ \A i \in DOMAIN y : y[i] = r[n + i]
  <2>1. n <= Len(r)
    BY <1>r, <1>l
  <2> QED  BY <1>r, <2>1, Dropped, SMTT(30)
<1>8. z \in Seq(S) /\ Len(z) = Len(x) + Len(w) /\ \A i \in 1 .. Len(x) + Len(w) : z[i] = IF i <= Len(x) THEN x[i] ELSE w[i - Len(x)]
  BY <1>4, ConcatProperties
<1> HIDE DEF y, z
<1>9. Len(z) = Len(y)
  BY <1>4, <1>5, <1>7, <1>8, <1>l
<1>10. ASSUME NEW i \in 1 .. Len(z)  PROVE z[i] = y[i]
  <2>1. /\ i \in DOMAIN y /\ i \in 1 .. Len(x) + Len(w) /\ n + i \in 1 .. Len(b) + Len(w)
        /\ n + i - Len(b) = i - Len(x) /\ (i <= Len(x) => i \in DOMAIN x /\ n + i <= Len(b))
        /\ (~(i <= Len(x)) => ~(n + i <= Len(b)))
    <3>1. DOMAIN y = 1 .. Len(y) /\ Len(y) = Len(r) - n /\ Len(z) = Len(x) + Len(w)
      BY <1>7, <1>8
    <3> QED  BY <3>1, <1>9, <1>l, <1>r
  <2>2. y[i] = r[n + i] /\ r[n + i] = (IF n + i <= Len(b) THEN b[n + i] ELSE w[n + i - Len(b)])
    <3>1. y[i] = r[n + i]
      BY <2>1, <1>7
    <3>2. n + i \in 1 .. Len(b) + Len(w)
      BY <2>1
    <3>3. r[n + i] = (IF n + i <= Len(b) THEN b[n + i] ELSE w[n + i - Len(b)])
      BY <3>2, <1>5
    <3> QED  BY <3>1, <3>3
  <2>3. z[i] = (IF i <= Len(x) THEN x[i] ELSE w[i - Len(x)])
    BY <2>1, <1>8
  <2> QED  BY <2>1, <2>2, <2>3, <1>4
<1>11. z = y
  BY <1>7, <1>8, <1>9, <1>10, SeqEqual
<1> QED  BY <1>11 DEF y, z, x, r

LEMMA RestSkip ==
  ASSUME TypeOK, ~local, NEW c \in Conns, NEW n \in Nat, n <= Len(buffer[c]), Skip(c, n), wire' = wire
  PROVE  /\ Rest(c)' = SubSeq(Rest(c), n + 1, Len(Rest(c)))
         /\ \A d \in Conns : d # c => Rest(d)' = Rest(d)
<1>1. /\ wire \in [Conns -> Seq(Bytes)] /\ buffer \in [Conns -> Seq(Bytes)]
      /\ buffer' = [buffer EXCEPT ![c] = SubSeq(buffer[c], n + 1, Len(buffer[c]))]
  BY DEF Skip, TypeOK
<1>2. \A d \in Conns : d # c => Rest(d)' = Rest(d)
  BY <1>1 DEF Rest
<1>3. PICK b \in Seq(Bytes), w \in Seq(Bytes) : b = buffer[c] /\ w = wire[c]
  BY <1>1
<1>4. SubSeq(b \o w, n + 1, Len(b \o w)) = SubSeq(b, n + 1, Len(b)) \o w
  BY <1>3, Ending
<1>5. Rest(c) = b \o w /\ Rest(c)' = SubSeq(b, n + 1, Len(b)) \o w
  BY <1>1, <1>3 DEF Rest
<1> QED  BY <1>2, <1>4, <1>5

LEMMA Behind ==
  ASSUME NEW S, NEW b \in Seq(S), NEW w \in Seq(S), NEW i \in DOMAIN b
  PROVE  i \in DOMAIN (b \o w) /\ (b \o w)[i] = b[i]
<1>1. i \in 1 .. Len(b) /\ Len(b) \in Nat /\ Len(w) \in Nat
  OBVIOUS
<1>2. i \in 1 .. Len(b) + Len(w) /\ i <= Len(b)
  BY <1>1
<1>3. DOMAIN (b \o w) = 1 .. Len(b) + Len(w)
  BY ConcatProperties, LenProperties
<1> QED  BY <1>2, <1>3, ConcatProperties

\* Nothing is taken for a message that is none.
LEMMA NotGarbled ==
  ASSUME TypeOK, ~local, NEW c \in Conns, Framed(c)
  PROVE  ~Garbled(c)
<1> SUFFICES ASSUME Garbled(c)  PROVE FALSE
  OBVIOUS
<1>1. ~Incomplete(c) /\ \A m \in Msgs : ~StartsWith(buffer[c], Frame(m))
  BY DEF Garbled
<1>2. /\ buffer[c] \in Seq(Bytes) /\ wire[c] \in Seq(Bytes) /\ Rest(c) \in Seq(Bytes)
      /\ Len(Rest(c)) = Len(buffer[c]) + Len(wire[c])
      /\ \A i \in 1 .. Len(buffer[c]) + Len(wire[c]) :
            Rest(c)[i] = IF i <= Len(buffer[c]) THEN buffer[c][i] ELSE wire[c][i - Len(buffer[c])]
  BY RestType
<1>3. Len(buffer[c]) \in Nat /\ Len(wire[c]) \in Nat /\ DOMAIN buffer[c] = 1 .. Len(buffer[c]) /\ DOMAIN Rest(c) = 1 .. Len(Rest(c))
  BY <1>2
<1>4. \A i \in DOMAIN buffer[c] : i \in DOMAIN Rest(c) /\ Rest(c)[i] = buffer[c][i]
  BY <1>2, Behind DEF Rest
<1>5. Runs(Rest(c)) /\ (Rest(c) # <<>> => Rest(c)[1][2] = 1)
  BY DEF Framed, Chain
<1>6. Runs(buffer[c])
  BY <1>4, <1>5 DEF Runs
<1>7. buffer[c] # <<>> => buffer[c][1][2] = 1
  <2> SUFFICES ASSUME buffer[c] # <<>>  PROVE buffer[c][1][2] = 1
    OBVIOUS
  <2>1. 1 \in DOMAIN buffer[c]
    BY <1>2, <1>3
  <2>2. 1 \in DOMAIN Rest(c) /\ Rest(c)[1] = buffer[c][1]
    BY <2>1, <1>4
  <2>3. Rest(c) # <<>>
    BY <2>2
  <2> QED  BY <2>2, <2>3, <1>5
<1>8. Len(buffer[c]) >= HeaderSize
  BY <1>1, <1>3, Lengths DEF Incomplete
<1>9. PICK m \in Msgs : StartsWith(buffer[c], Size(m)) /\ (Len(buffer[c]) >= Len(Frame(m)) => StartsWith(buffer[c], Frame(m)))
  BY <1>2, <1>6, <1>7, <1>8, ChainReads
<1>10. CheckSize(c, m)
  BY <1>1, <1>9 DEF Incomplete, Sized
<1> QED  BY <1>1, <1>9, <1>10 DEF CheckSize

LEMMA PrefixGrow ==
  ASSUME NEW s \in Seq(Msgs), NEW t \in Seq(Msgs \cup {None}), StartsWith(s, t), NEW m \in Msgs
  PROVE  StartsWith(Append(s, m), t)
<1> DEFINE u == Append(s, m)
<1>1. Len(t) <= Len(s) /\ SubSeq(s, 1, Len(t)) = t /\ Len(t) \in Nat /\ Len(s) \in Nat
  BY DEF StartsWith
<1>2. u \in Seq(Msgs) /\ Len(u) = Len(s) + 1 /\ \A i \in 1 .. Len(s) : u[i] = s[i]
  BY AppendProperties
<1> HIDE DEF u
<1>3. /\ SubSeq(u, 1, Len(t)) \in Seq(Msgs) /\ Len(SubSeq(u, 1, Len(t))) = Len(t)
      /\ \A i \in 1 .. Len(t) : SubSeq(u, 1, Len(t))[i] = u[i]
  <2>1. Len(t) <= Len(u)
    BY <1>1, <1>2
  <2> QED  BY <1>1, <1>2, <2>1, Kept
<1>4. /\ SubSeq(s, 1, Len(t)) \in Seq(Msgs) /\ Len(SubSeq(s, 1, Len(t))) = Len(t)
      /\ \A i \in 1 .. Len(t) : SubSeq(s, 1, Len(t))[i] = s[i]
  BY <1>1, Kept
<1>5. \A i \in 1 .. Len(t) : SubSeq(u, 1, Len(t))[i] = SubSeq(s, 1, Len(t))[i]
  BY <1>1, <1>2, <1>3, <1>4
<1>6. SubSeq(u, 1, Len(t)) = SubSeq(s, 1, Len(t))
  BY <1>3, <1>4, <1>5, SeqEqual
<1>7. Len(t) <= Len(u)
  BY <1>1, <1>2
<1> QED  BY <1>1, <1>6, <1>7 DEF StartsWith, u

LEMMA PrefixNext ==
  ASSUME NEW s \in Seq(Msgs), NEW t \in Seq(Msgs \cup {None}), StartsWith(s, t), Len(t) < Len(s)
  PROVE  StartsWith(s, Append(t, s[Len(t) + 1]))
<1> DEFINE n == Len(t) + 1
           u == Append(t, s[n])
           v == SubSeq(s, 1, n)
<1>1. SubSeq(s, 1, Len(t)) = t /\ Len(t) \in Nat /\ Len(s) \in Nat /\ n \in Nat /\ n \in 1 .. Len(s) /\ n <= Len(s) /\ Len(t) <= Len(s)
  BY DEF StartsWith
<1>2. s[n] \in Msgs \cup {None}
  BY <1>1
<1>3. u \in Seq(Msgs \cup {None}) /\ Len(u) = Len(t) + 1 /\ u[Len(t) + 1] = s[n] /\ \A i \in 1 .. Len(t) : u[i] = t[i]
  BY <1>2, AppendProperties
<1>4. v \in Seq(Msgs) /\ Len(v) = n /\ \A i \in 1 .. n : v[i] = s[i]
  BY <1>1, Kept
<1>5. \A i \in 1 .. Len(t) : t[i] = s[i]
  BY <1>1, Kept
<1>6. v \in Seq(Msgs \cup {None})
  BY <1>4, SeqMonotonic
<1>7. Len(v) = Len(u)
  BY <1>3, <1>4
<1>8. ASSUME NEW i \in 1 .. Len(v)  PROVE v[i] = u[i]
  <2>1. i = n \/ i \in 1 .. Len(t)
    BY <1>1, <1>4
  <2>2. i \in 1 .. n
    BY <1>4
  <2> QED  BY <2>1, <2>2, <1>3, <1>4, <1>5
<1>9. v = u
  BY <1>3, <1>6, <1>7, <1>8, SeqEqual
<1> QED  BY <1>1, <1>3, <1>9 DEF StartsWith

-----------------------------------------------------------------------------
(* Streams: every step leaves frames.                                      *)
LEMMA FramedBy ==
  ASSUME NEW c \in Conns, NEW r, NEW s, NEW g, Rest(c)' = r, sent'[c] = s, Len(got'[c]) = g, Chain(r, s, g),
         c \in up' /\ (\A p \in Producers : ~Inside(p, c)') => EndsAt(r, s, g, Len(r)),
         \A p \in Producers : c \in up' /\ Inside(p, c)' =>
            EndsAt(r, s, g, Len(r) - HeaderSize) /\ Opened(r, Len(r) - HeaderSize, cur'[p])
  PROVE  Framed(c)'
<1>1. Chain(Rest(c), sent[c], Len(got[c]))'
  BY DEF Chain, Runs, Begins, Follows, Last
<1>2. ASSUME c \in up', \A p \in Producers : ~Inside(p, c)'
      PROVE  EndsAt(Rest(c), sent[c], Len(got[c]), Len(Rest(c)))'
  <2>1. EndsAt(r, s, g, Len(r))
    BY <1>2
  <2> QED  BY <2>1 DEF EndsAt, Last
<1>3. ASSUME c \in up', NEW p \in Producers, Inside(p, c)'
      PROVE  /\ EndsAt(Rest(c), sent[c], Len(got[c]), Len(Rest(c)) - HeaderSize)'
             /\ Opened(Rest(c), Len(Rest(c)) - HeaderSize, cur[p])'
  <2>1. EndsAt(r, s, g, Len(r) - HeaderSize) /\ Opened(r, Len(r) - HeaderSize, cur'[p])
    BY <1>3
  <2> QED  BY <2>1 DEF EndsAt, Opened, Last
<1> QED  BY <1>1, <1>2, <1>3 DEF Framed

\* What is known of the frames of a connection.
LEMMA FramedFacts ==
  ASSUME TypeOK, ~local, OwnInv, CopyInv, PrefixInv, NEW c \in Conns, ~mixed[c], Framed(c)
  PROVE  \E r \in Seq(Bytes), s \in Seq(Msgs), g \in Nat :
            /\ r = Rest(c) /\ s = sent[c] /\ g = Len(got[c]) /\ g <= Len(s)
            /\ Chain(r, s, g) /\ OnceEach(r, s)
            /\ \A m \in Msgs, i \in DOMAIN r : r[i] = Last(m) => Over(m)
            /\ c \in up /\ (\A p \in Producers : ~Inside(p, c)) => EndsAt(r, s, g, Len(r))
            /\ \A p \in Producers : c \in up /\ Inside(p, c) =>
                  EndsAt(r, s, g, Len(r) - HeaderSize) /\ Opened(r, Len(r) - HeaderSize, cur[p])
<1>1. Rest(c) \in Seq(Bytes) /\ sent[c] \in Seq(Msgs) /\ got[c] \in Seq(Msgs \cup {None})
  BY RestType
<1>2. Len(got[c]) \in Nat
  BY <1>1
<1>3. Len(got[c]) <= Len(sent[c])
  BY DEF PrefixInv, StartsWith
<1>4. OnceEach(Rest(c), sent[c]) /\ \A m \in Msgs, i \in DOMAIN Rest(c) : Rest(c)[i] = Last(m) => Over(m)
  BY RestOnce
<1>5. /\ Chain(Rest(c), sent[c], Len(got[c]))
      /\ c \in up /\ (\A p \in Producers : ~Inside(p, c)) => EndsAt(Rest(c), sent[c], Len(got[c]), Len(Rest(c)))
      /\ \A p \in Producers : c \in up /\ Inside(p, c) =>
            /\ EndsAt(Rest(c), sent[c], Len(got[c]), Len(Rest(c)) - HeaderSize)
            /\ Opened(Rest(c), Len(Rest(c)) - HeaderSize, cur[p])
  BY DEF Framed
<1> QED  BY <1>1, <1>2, <1>3, <1>4, <1>5, Zenon

LEMMA FrameWriteSize ==
  ASSUME TypeOK, ~local, OwnInv, CopyInv, PrefixInv, NEW p \in Producers, WriteSize(p),
         NEW c \in Conns, c = on[p], ~mixed'[c], Framed(c)
  PROVE  Framed(c)'
<1>1. /\ pc[p] = "size" /\ c \in up /\ Put(p, Size(cur[p])) /\ mixed' = [mixed EXCEPT ![c] = @ \/ Within(p)]
      /\ pc' = [pc EXCEPT ![p] = "body"]
      /\ cur' = cur /\ on' = on /\ up' = up /\ buffer' = buffer /\ sent' = sent /\ got' = got
  BY DEF WriteSize
<1>2. cur[p] \in Msgs /\ pc \in [Producers -> {"idle", "size", "body", "retry"}] /\ mixed \in [Conns -> BOOLEAN]
  BY <1>1, HasMessage DEF TypeOK
<1>3. ~mixed[c] /\ ~Within(p)
  BY <1>1, <1>2
<1>4. \A q \in Producers : ~Inside(q, c) /\ (Inside(q, c)' => q = p)
  BY <1>1, <1>2, <1>3 DEF Inside, Within
<1>5. PICK r \in Seq(Bytes), s \in Seq(Msgs), g \in Nat :
            /\ r = Rest(c) /\ s = sent[c] /\ g = Len(got[c]) /\ g <= Len(s)
            /\ Chain(r, s, g) /\ OnceEach(r, s)
            /\ EndsAt(r, s, g, Len(r))
  BY <1>1, <1>3, <1>4, FramedFacts
<1>6. PICK m \in Msgs : m = cur[p]
  BY <1>2
<1>7. PICK t : t = r \o Size(m)
  OBVIOUS
<1>8. Chain(t, s, g) /\ EndsAt(t, s, g, Len(r)) /\ Opened(t, Len(r), m)
  BY <1>5, <1>7, ChainSize
<1>9. Rest(c)' = t
  <2>1. Size(cur[p]) \in Seq(Bytes)
    BY <1>2, FrameParts
  <2> QED  BY <1>1, <1>5, <1>6, <1>7, <2>1, RestPut
<1>10. Len(t) - HeaderSize = Len(r)
  <2>1. Len(t) = Len(r) + HeaderSize /\ HeaderSize \in Nat /\ Len(r) \in Nat
    BY <1>8, Lengths DEF Opened
  <2> QED  BY <2>1
<1>11. sent'[c] = s /\ Len(got'[c]) = g
  BY <1>1, <1>5
<1>12. Inside(p, c)'
  BY <1>1, <1>2 DEF Inside
<1>13. ~(\A q \in Producers : ~Inside(q, c)')
  BY <1>12
<1>14. \A q \in Producers : c \in up' /\ Inside(q, c)' =>
            EndsAt(t, s, g, Len(t) - HeaderSize) /\ Opened(t, Len(t) - HeaderSize, cur'[q])
  BY <1>1, <1>4, <1>6, <1>8, <1>10
<1> QED  BY <1>8, <1>9, <1>11, <1>13, <1>14, FramedBy

LEMMA FrameWriteBody ==
  ASSUME TypeOK, ~local, OwnInv, CopyInv, AloneInv, PrefixInv, NEW p \in Producers, WriteBody(p),
         NEW c \in Conns, c = on[p], ~mixed'[c], Framed(c)
  PROVE  Framed(c)'
<1>1. /\ pc[p] = "body" /\ c \in up /\ Put(p, Body(cur[p])) /\ mixed' = mixed
      /\ pc' = [pc EXCEPT ![p] = "idle"] /\ sent' = [sent EXCEPT ![c] = Append(sent[c], cur[p])]
      /\ on' = on /\ up' = up /\ buffer' = buffer /\ got' = got
  BY DEF WriteBody, Written
<1>2. cur[p] \in Msgs /\ pc \in [Producers -> {"idle", "size", "body", "retry"}] /\ sent \in [Conns -> Seq(Msgs)]
  BY <1>1, HasMessage DEF TypeOK
<1>3. ~mixed[c] /\ Inside(p, c)
  BY <1>1 DEF Inside
<1>4. \A q \in Producers : ~Inside(q, c)'
  BY <1>1, <1>2, <1>3 DEF Inside, AloneInv
<1>5. PICK r \in Seq(Bytes), s \in Seq(Msgs), g \in Nat :
            /\ r = Rest(c) /\ s = sent[c] /\ g = Len(got[c]) /\ g <= Len(s)
            /\ Chain(r, s, g) /\ OnceEach(r, s)
            /\ EndsAt(r, s, g, Len(r) - HeaderSize) /\ Opened(r, Len(r) - HeaderSize, cur[p])
  BY <1>1, <1>3, FramedFacts
<1>6. PICK m \in Msgs : m = cur[p]
  BY <1>2
<1>7. PICK e \in Nat : e = Len(r) - HeaderSize
  BY <1>5 DEF EndsAt
<1>8. PICK t, u : t = r \o Body(m) /\ u = Append(s, m)
  OBVIOUS
<1>9. EndsAt(r, s, g, e) /\ Opened(r, e, m)
  BY <1>5, <1>6, <1>7
<1>10. Chain(t, u, g) /\ EndsAt(t, u, g, Len(t))
  BY <1>5, <1>8, <1>9, ChainBody
<1>11. Rest(c)' = t
  <2>1. Body(cur[p]) \in Seq(Bytes)
    BY <1>2, FrameParts
  <2> QED  BY <1>1, <1>5, <1>6, <1>8, <2>1, RestPut
<1>12. sent'[c] = u /\ Len(got'[c]) = g
  BY <1>1, <1>2, <1>5, <1>6, <1>8
<1>13. \A q \in Producers : c \in up' /\ Inside(q, c)' =>
            EndsAt(t, u, g, Len(t) - HeaderSize) /\ Opened(t, Len(t) - HeaderSize, cur'[q])
  BY <1>4
<1> QED  BY <1>10, <1>11, <1>12, <1>13, FramedBy

LEMMA FrameWritePart ==
  ASSUME TypeOK, ~local, OwnInv, CopyInv, AloneInv, PrefixInv, NEW p \in Producers, WritePart(p),
         NEW c \in Conns, c = on[p], ~mixed'[c], Framed(c)
  PROVE  Framed(c)'
<1> DEFINE bytes == IF pc[p] = "size" THEN Size(cur[p]) ELSE Body(cur[p])
<1>1. /\ pc[p] \in {"size", "body"} /\ c \in up /\ mixed' = [mixed EXCEPT ![c] = @ \/ Within(p)]
      /\ up' = up \ {c} /\ buffer' = buffer /\ sent' = sent /\ got' = got
  BY DEF WritePart
<1>2. cur[p] \in Msgs /\ pc \in [Producers -> {"idle", "size", "body", "retry"}] /\ mixed \in [Conns -> BOOLEAN]
  BY <1>1, HasMessage DEF TypeOK
<1>3. ~mixed[c] /\ ~Within(p)
  BY <1>1, <1>2
<1>4. PICK r \in Seq(Bytes), s \in Seq(Msgs), g \in Nat :
            /\ r = Rest(c) /\ s = sent[c] /\ g = Len(got[c]) /\ g <= Len(s)
            /\ Chain(r, s, g) /\ OnceEach(r, s)
            /\ \A m \in Msgs, i \in DOMAIN r : r[i] = Last(m) => Over(m)
            /\ c \in up /\ (\A q \in Producers : ~Inside(q, c)) => EndsAt(r, s, g, Len(r))
            /\ \A q \in Producers : c \in up /\ Inside(q, c) =>
                  EndsAt(r, s, g, Len(r) - HeaderSize) /\ Opened(r, Len(r) - HeaderSize, cur[q])
  BY <1>3, FramedFacts, Zenon
<1>5. PICK m \in Msgs : m = cur[p]
  BY <1>2
<1>6. PICK b \in Seq(Bytes) : b = bytes
  <2>1. Size(cur[p]) \in Seq(Bytes) /\ Body(cur[p]) \in Seq(Bytes)
    BY <1>2, FrameParts
  <2> QED  BY <2>1
<1>7. PICK n \in 0 .. Len(b) - 1 : Put(p, SubSeq(b, 1, n))
  BY <1>6 DEF WritePart
<1>8. n \in Nat /\ n < Len(b) /\ n <= Len(b) /\ Len(b) \in Nat
  <2>1. Len(b) \in Nat /\ n \in 0 .. Len(b) - 1
    BY <1>7
  <2> QED  BY <2>1
<1>9. PICK x : x = SubSeq(b, 1, n)
  OBVIOUS
<1>10. x \in Seq(Bytes) /\ Len(x) = n /\ \A i \in 1 .. n : x[i] = b[i]
  BY <1>8, <1>9, Kept
<1>11. PICK t : t = r \o x
  OBVIOUS
<1>12. Rest(c)' = t
  BY <1>1, <1>4, <1>7, <1>9, <1>10, <1>11, RestPut
<1>13. sent'[c] = s /\ Len(got'[c]) = g /\ c \notin up'
  BY <1>1, <1>4
<1>14. t = SubSeq(r \o b, 1, Len(r) + n) /\ Len(r) + n \in 0 .. Len(r \o b) /\ r \o b \in Seq(Bytes)
  <2>1. SubSeq(r \o b, 1, Len(r) + n) = r \o SubSeq(b, 1, n) /\ Len(r) + n \in 0 .. Len(r \o b)
    BY <1>8, Beginning
  <2> QED  BY <2>1, <1>9, <1>11, ConcatProperties
<1>15. Chain(t, s, g)
  <2>1. CASE pc[p] = "size"
    <3>1. \A q \in Producers : ~Inside(q, c)
      BY <2>1, <1>3 DEF Inside, Within
    <3>2. EndsAt(r, s, g, Len(r)) /\ b = Size(m)
      BY <3>1, <2>1, <1>1, <1>4, <1>5, <1>6
    <3>3. Chain(r \o b, s, g)
      BY <3>2, <1>4, ChainSize
    <3> QED  BY <3>3, <1>4, <1>14, ChainCut
  <2>2. CASE pc[p] = "body"
    <3>1. Inside(p, c) /\ b = Body(m)
      BY <2>2, <1>5, <1>6 DEF Inside
    <3>2. EndsAt(r, s, g, Len(r) - HeaderSize) /\ Opened(r, Len(r) - HeaderSize, m)
      BY <3>1, <1>1, <1>4, <1>5
    <3>3. PICK e \in Nat : e = Len(r) - HeaderSize
      BY <3>2 DEF EndsAt
    <3>4. EndsAt(r, s, g, e) /\ Opened(r, e, m)
      BY <3>2, <3>3
    <3>5. Chain(r \o Body(m), Append(s, m), g)
      BY <3>4, <1>4, ChainBody
    <3>6. Append(s, m) \in Seq(Msgs)
      BY AppendProperties
    <3>7. Chain(t, Append(s, m), g)
      BY <3>1, <3>5, <3>6, <1>14, ChainCut
    <3>8. t \in Seq(Bytes) /\ DOMAIN t = 1 .. Len(r) + n /\ \A i \in 1 .. Len(r) + n : t[i] = IF i <= Len(r) THEN r[i] ELSE x[i - Len(r)]
      <4>1. /\ t \in Seq(Bytes) /\ Len(t) = Len(r) + Len(x)
            /\ \A i \in 1 .. Len(r) + Len(x) : t[i] = IF i <= Len(r) THEN r[i] ELSE x[i - Len(r)]
        BY <1>10, <1>11, ConcatProperties
      <4> QED  BY <4>1, <1>10, LenProperties
    <3>9. ASSUME NEW i \in DOMAIN t  PROVE t[i] # Last(m)
      <4>0. Len(r) \in Nat /\ i \in 1 .. Len(r) + n
        BY <3>8
      <4>1. CASE i <= Len(r)
        <5>1. i \in DOMAIN r /\ t[i] = r[i]
          BY <4>0, <4>1, <3>8
        <5>2. ~Over(m)
          BY <1>5 DEF Over
        <5> QED  BY <5>1, <5>2, <1>4
      <4>2. CASE ~(i <= Len(r))
        <5>1. PICK k \in 1 .. n : k = i - Len(r)
          BY <4>0, <4>2, <1>8
        <5>2. t[i] = x[k]
          BY <5>1, <4>0, <4>2, <3>8
        <5>3. Len(b) = BodySize[m] /\ \A j \in 1 .. BodySize[m] : b[j] = <<m, HeaderSize + j>>
          BY <3>1, FrameParts
        <5>4. k \in 1 .. BodySize[m] /\ k < BodySize[m] /\ HeaderSize \in Nat
          BY <1>8, <5>1, <5>3, Lengths
        <5>5. t[i] = <<m, HeaderSize + k>>
          BY <5>1, <5>2, <5>3, <5>4, <1>10
        <5>6. HeaderSize + k # HeaderSize + BodySize[m]
          BY <5>4, Lengths
        <5> QED  BY <5>5, <5>6 DEF Last
      <4> QED  BY <4>1, <4>2
    <3> QED  BY <3>7, <3>8, <3>9, <1>4, ChainUnsent
  <2> QED  BY <2>1, <2>2, <1>1
<1> QED  BY <1>12, <1>13, <1>15, FramedBy

LEMMA FrameBreak ==
  ASSUME TypeOK, ~local, OwnInv, CopyInv, PrefixInv, NEW c \in Conns, Break(c), ~mixed'[c], Framed(c)
  PROVE  Framed(c)'
<1>1. mixed' = mixed /\ sent' = sent /\ got' = got /\ up' = up \ {c}
  BY DEF Break
<1>2. PICK r \in Seq(Bytes), s \in Seq(Msgs), g \in Nat : r = Rest(c) /\ s = sent[c] /\ g = Len(got[c]) /\ Chain(r, s, g)
  BY <1>1, FramedFacts
<1>3. PICK n \in 0 .. Len(r) : Rest(c)' = SubSeq(r, 1, n)
  BY <1>2, RestBreak
<1>4. Chain(SubSeq(r, 1, n), s, g)
  BY <1>2, ChainCut
<1>5. sent'[c] = s /\ Len(got'[c]) = g /\ c \notin up'
  BY <1>1, <1>2
<1> QED  BY <1>3, <1>4, <1>5, FramedBy

LEMMA StartsMore ==
  ASSUME NEW S, NEW b \in Seq(S), NEW w \in Seq(S), NEW f \in Seq(S), StartsWith(b, f)
  PROVE  StartsWith(b \o w, f)
<1> DEFINE n == Len(f)
           r == b \o w
<1>1. n \in Nat /\ n <= Len(b) /\ SubSeq(b, 1, n) = f /\ Len(b) \in Nat /\ Len(w) \in Nat
  BY DEF StartsWith
<1>2. r \in Seq(S) /\ Len(r) = Len(b) + Len(w) /\ \A i \in 1 .. Len(b) + Len(w) : r[i] = IF i <= Len(b) THEN b[i] ELSE w[i - Len(b)]
  BY ConcatProperties
<1>3. n <= Len(r)
  BY <1>1, <1>2
<1> HIDE DEF r
<1>4. SubSeq(r, 1, n) \in Seq(S) /\ Len(SubSeq(r, 1, n)) = n /\ \A i \in 1 .. n : SubSeq(r, 1, n)[i] = r[i]
  BY <1>1, <1>2, <1>3, Kept
<1>5. \A i \in 1 .. n : f[i] = b[i]
  BY <1>1, Kept
<1>6. ASSUME NEW i \in 1 .. n  PROVE SubSeq(r, 1, n)[i] = f[i]
  <2>1. i \in 1 .. Len(b) + Len(w) /\ i <= Len(b)
    BY <1>1
  <2> QED  BY <2>1, <1>2, <1>4, <1>5
<1>7. SubSeq(r, 1, n) = f
  BY <1>4, <1>6, SeqEqual
<1> QED  BY <1>3, <1>7 DEF StartsWith, r

LEMMA FrameGet ==
  ASSUME TypeOK, ~local, OwnInv, CopyInv, PrefixInv, NEW c \in Conns, GetMqMsg(c), ~mixed'[c], Framed(c)
  PROVE  /\ Framed(c)'
         /\ \E m \in Msgs : got' = [got EXCEPT ![c] = Append(@, m)]
               /\ Len(got[c]) < Len(sent[c]) /\ sent[c][Len(got[c]) + 1] = m
         /\ \A d \in Conns : d # c => Rest(d)' = Rest(d)
<1>1. PICK m \in Msgs : /\ StartsWith(buffer[c], Frame(m))
                        /\ got' = [got EXCEPT ![c] = Append(@, m)] /\ Skip(c, Len(Frame(m)))
  BY DEF GetMqMsg
<1>2. mixed' = mixed /\ sent' = sent /\ wire' = wire /\ up' = up /\ pc' = pc /\ on' = on /\ cur' = cur
  BY DEF GetMqMsg, producers
<1>3. PICK r \in Seq(Bytes), s \in Seq(Msgs), g \in Nat :
            /\ r = Rest(c) /\ s = sent[c] /\ g = Len(got[c]) /\ g <= Len(s)
            /\ Chain(r, s, g) /\ OnceEach(r, s)
            /\ c \in up /\ (\A p \in Producers : ~Inside(p, c)) => EndsAt(r, s, g, Len(r))
            /\ \A p \in Producers : c \in up /\ Inside(p, c) =>
                  EndsAt(r, s, g, Len(r) - HeaderSize) /\ Opened(r, Len(r) - HeaderSize, cur[p])
  BY <1>2, FramedFacts, Zenon
<1>4. PICK n \in Nat : n = Len(Frame(m))
  <2>1. Len(Frame(m)) = HeaderSize + BodySize[m]
    BY FrameParts
  <2>2. HeaderSize + BodySize[m] \in Nat
    BY Lengths
  <2> QED  BY <2>1, <2>2
<1>5. n <= Len(buffer[c]) /\ buffer[c] \in Seq(Bytes) /\ wire[c] \in Seq(Bytes)
  BY <1>1, <1>4, RestType DEF StartsWith
<1>6. PICK t : t = SubSeq(r, n + 1, Len(r))
  OBVIOUS
<1>7. Rest(c)' = t /\ \A d \in Conns : d # c => Rest(d)' = Rest(d)
  BY <1>1, <1>2, <1>3, <1>4, <1>5, <1>6, RestSkip
<1>8. StartsWith(r, Frame(m))
  <2>1. Frame(m) \in Seq(Bytes)
    BY FrameParts
  <2> QED  BY <2>1, <1>1, <1>3, <1>5, StartsMore DEF Rest
<1>9. /\ g < Len(s) /\ s[g + 1] = m /\ Chain(t, s, g + 1)
      /\ \A e \in Nat : EndsAt(r, s, g, e) => e >= n /\ EndsAt(t, s, g + 1, e - n)
  <2>1. /\ g < Len(s) /\ s[g + 1] = m
        /\ Chain(SubSeq(r, Len(Frame(m)) + 1, Len(r)), s, g + 1)
        /\ \A e \in Nat : EndsAt(r, s, g, e) =>
              e >= Len(Frame(m)) /\ EndsAt(SubSeq(r, Len(Frame(m)) + 1, Len(r)), s, g + 1, e - Len(Frame(m)))
    BY <1>3, <1>8, ChainSkip
  <2> QED  BY <2>1, <1>4, <1>6
<1>10. n <= Len(r) /\ Len(r) \in Nat
  BY <1>3, <1>4, <1>8 DEF StartsWith
<1>11. t \in Seq(Bytes) /\ DOMAIN t = 1 .. Len(t) /\ Len(t) = Len(r) - n /\ \A i \in DOMAIN t : t[i] = r[n + i]
  BY <1>3, <1>6, <1>10, Dropped
<1>12. sent'[c] = s /\ Len(got'[c]) = g + 1
  <2>1. got \in [Conns -> Seq(Msgs \cup {None})] /\ got[c] \in Seq(Msgs \cup {None})
    BY DEF TypeOK
  <2>2. got'[c] = Append(got[c], m)
    BY <1>1, <2>1
  <2>3. Len(got'[c]) = Len(got[c]) + 1
    BY <2>1, <2>2, AppendProperties
  <2> QED  BY <2>3, <1>2, <1>3
<1>13. ASSUME c \in up', \A p \in Producers : ~Inside(p, c)'  PROVE EndsAt(t, s, g + 1, Len(t))
  <2>1. EndsAt(r, s, g, Len(r))
    BY <1>2, <1>3, <1>13 DEF Inside
  <2> QED  BY <2>1, <1>9, <1>10, <1>11
<1>14. ASSUME NEW p \in Producers, c \in up', Inside(p, c)'
       PROVE  EndsAt(t, s, g + 1, Len(t) - HeaderSize) /\ Opened(t, Len(t) - HeaderSize, cur'[p])
  <2>1. Inside(p, c) /\ c \in up /\ cur'[p] = cur[p]
    BY <1>2, <1>14 DEF Inside
  <2>2. EndsAt(r, s, g, Len(r) - HeaderSize) /\ Opened(r, Len(r) - HeaderSize, cur[p])
    BY <2>1, <1>3
  <2>3. PICK e \in Nat : e = Len(r) - HeaderSize
    BY <2>2 DEF EndsAt
  <2>4. EndsAt(r, s, g, e) /\ Opened(r, e, cur[p])
    BY <2>2, <2>3
  <2>5. e >= n /\ EndsAt(t, s, g + 1, e - n)
    BY <2>4, <1>9
  <2>6. PICK f \in Nat : f = e - n
    BY <2>5
  <2>7. HeaderSize \in Nat /\ Len(r) = e + HeaderSize
    BY <2>4, Lengths DEF Opened
  <2>8. Len(t) = f + HeaderSize /\ Len(t) - HeaderSize = f
    BY <2>5, <2>6, <2>7, <1>11
  <2>9. ASSUME NEW k \in 1 .. HeaderSize  PROVE t[f + k] = <<cur[p], k>>
    <3>1. f + k \in 1 .. Len(t) /\ n + (f + k) = e + k
      BY <2>5, <2>6, <2>7, <2>8
    <3>2. t[f + k] = r[e + k]
      BY <3>1, <1>11
    <3> QED  BY <3>2, <2>4 DEF Opened
  <2>10. Opened(t, f, cur[p])
    BY <2>8, <2>9 DEF Opened
  <2> QED  BY <2>1, <2>5, <2>6, <2>8, <2>10
<1>15. Framed(c)'
  BY <1>7, <1>9, <1>12, <1>13, <1>14, FramedBy
<1> QED  BY <1>1, <1>3, <1>7, <1>9, <1>15

LEMMA FrameStep ==
  TypeOK /\ OwnInv /\ CopyInv /\ AloneInv /\ FrameInv /\ PrefixInv /\ [Next]_vars => FrameInv'
<1> SUFFICES ASSUME TypeOK, OwnInv, CopyInv, AloneInv, FrameInv, PrefixInv, [Next]_vars,
                    ~local', NEW c \in Conns, reader'[c] = "on", ~mixed'[c]
             PROVE  Framed(c)'
  BY DEF FrameInv
<1>t. /\ pc \in [Producers -> {"idle", "size", "body", "retry"}] /\ on \in [Producers -> Conns]
      /\ cur \in [Producers -> Msgs \cup {None}] /\ mixed \in [Conns -> BOOLEAN] /\ up \subseteq Conns
      /\ reader \in [Conns -> {"on", "stuck", "gone"}]
      /\ sent \in [Conns -> Seq(Msgs)] /\ got \in [Conns -> Seq(Msgs \cup {None})] /\ buffer \in [Conns -> Seq(Bytes)]
  BY DEF TypeOK
<1>f. reader[c] = "on" /\ ~mixed[c] /\ ~local => Framed(c)
  BY DEF FrameInv
<1>1. ASSUME NEW p \in Producers, NEW m \in Msgs, Take(p, m)  PROVE Framed(c)'
  <2>1. /\ UNCHANGED <<local, up, wire, buffer, reader, sent, got, mixed>>
        /\ pc[p] = "idle" /\ pc' = [pc EXCEPT ![p] = "size"] /\ cur' = [cur EXCEPT ![p] = m]
        /\ on' = [on EXCEPT ![p] = current]
    BY <1>1 DEF Take
  <2>2. Framed(c)
    BY <2>1, <1>f
  <2>3. Rest(c)' = Rest(c) /\ sent'[c] = sent[c] /\ got'[c] = got[c]
    BY <2>1 DEF Rest
  <2>4. \A q \in Producers : (Inside(q, c)' <=> Inside(q, c)) /\ (Inside(q, c) => cur'[q] = cur[q])
    BY <2>1, <1>t DEF Inside
  <2>5. c \in up' => c \in up
    BY <2>1
  <2> QED  BY <2>2, <2>3, <2>4, <2>5, FramedSame
<1>2. ASSUME NEW p \in Producers, WriteSize(p) \/ WriteBody(p) \/ WritePart(p)  PROVE Framed(c)'
  <2>1. /\ UNCHANGED <<local, on, buffer, reader, got>> /\ (mixed[c] => mixed'[c]) /\ up' \subseteq up
    BY <1>2, <1>t DEF WriteSize, WriteBody, WritePart
  <2>2. Framed(c) /\ ~local
    BY <2>1, <1>f
  <2>3. CASE c = on[p]
    BY <2>2, <2>3, <1>2, FrameWriteSize, FrameWriteBody, FrameWritePart
  <2>4. CASE c # on[p]
    <3>1. pc' = [pc EXCEPT ![p] = pc'[p]] /\ cur' = [cur EXCEPT ![p] = cur'[p]] /\ sent'[c] = sent[c]
      BY <2>4, <1>2, <1>t DEF WriteSize, WriteBody, WritePart, Written
    <3>2. \A q \in Producers : (Inside(q, c)' <=> Inside(q, c)) /\ (Inside(q, c) => cur'[q] = cur[q])
      BY <3>1, <2>1, <2>4, <1>t DEF Inside
    <3>3. Rest(c)' = Rest(c)
      <4>1. cur[p] \in Msgs
        BY <1>2, HasMessage DEF WriteSize, WriteBody, WritePart
      <4>2. PICK bytes \in Seq(Bytes) : Put(p, bytes)
        <5>1. Size(cur[p]) \in Seq(Bytes) /\ Body(cur[p]) \in Seq(Bytes)
          BY <4>1, FrameParts
        <5>2. CASE WriteSize(p) \/ WriteBody(p)
          BY <5>1, <5>2 DEF WriteSize, WriteBody
        <5>3. CASE WritePart(p)
          <6>1. PICK b \in Seq(Bytes) : b = IF pc[p] = "size" THEN Size(cur[p]) ELSE Body(cur[p])
            BY <5>1
          <6>2. PICK n \in 0 .. Len(b) - 1 : Put(p, SubSeq(b, 1, n))
            BY <5>3, <6>1 DEF WritePart
          <6>3. n \in Nat /\ n <= Len(b)
            <7>1. Len(b) \in Nat
              OBVIOUS
            <7> QED  BY <7>1
          <6> QED  BY <6>2, <6>3, SubSeqType
        <5> QED  BY <5>2, <5>3, <1>2
      <4> QED  BY <4>2, <2>1, <2>2, <2>4, RestPut
    <3> QED  BY <2>1, <2>2, <3>1, <3>2, <3>3, FramedSame
  <2> QED  BY <2>3, <2>4
<1>3. ASSUME NEW p \in Producers, WriteFails(p) \/ Retry(p)  PROVE Framed(c)'
  <2>1. UNCHANGED <<local, cur, up, wire, buffer, reader, sent, got, mixed>>
    BY <1>3 DEF WriteFails, Retry
  <2>2. Framed(c) /\ Rest(c)' = Rest(c) /\ sent'[c] = sent[c] /\ got'[c] = got[c]
    BY <2>1, <1>f DEF Rest
  <2>3. c \in up' => \A q \in Producers : (Inside(q, c)' <=> Inside(q, c)) /\ (Inside(q, c) => cur'[q] = cur[q])
    <3>1. CASE WriteFails(p)
      BY <2>1, <3>1, <1>t DEF Inside, WriteFails
    <3>2. CASE Retry(p)
      BY <2>1, <3>2, <1>t DEF Inside, Retry, Restart
    <3> QED  BY <1>3, <3>1, <3>2
  <2> QED  BY <2>1, <2>2, <2>3, FramedSame
<1>4. ASSUME UNCHANGED <<local, pc, cur, on, sent, mixed>>, reader'[c] = "on" => reader[c] = "on", up' \subseteq up,
             Rest(c)' = Rest(c), got'[c] = got[c]
      PROVE  Framed(c)'
  <2>1. Framed(c)
    BY <1>4, <1>f
  <2>2. \A q \in Producers : (Inside(q, c)' <=> Inside(q, c)) /\ (Inside(q, c) => cur'[q] = cur[q])
    BY <1>4 DEF Inside
  <2> QED  BY <2>1, <2>2, <1>4, FramedSame
<1>5. ASSUME Connect \/ UNCHANGED vars  PROVE Framed(c)'
  <2>1. UNCHANGED <<local, pc, cur, on, sent, mixed, reader, up, buffer, wire, got>>
    BY <1>5 DEF Connect, vars, producers
  <2> QED  BY <1>4, <2>1 DEF Rest
<1>6. ASSUME NEW e \in Conns, Break(e)  PROVE Framed(c)'
  <2>1. UNCHANGED <<local, pc, cur, on, sent, mixed, reader, got>> /\ up' \subseteq up
    BY <1>6 DEF Break, producers
  <2>2. Framed(c) /\ ~local
    BY <2>1, <1>f
  <2>3. CASE e = c
    BY <2>2, <2>3, <1>6, FrameBreak
  <2>4. CASE e # c
    <3>1. Rest(c)' = Rest(c)
      BY <2>2, <2>4, <1>6, RestBreak
    <3> QED  BY <2>1, <3>1, <1>4
  <2> QED  BY <2>3, <2>4
<1>7. ASSUME NEW e \in Conns, Read(e) \/ ReadFails(e)  PROVE Framed(c)'
  <2>1. UNCHANGED <<local, pc, cur, on, sent, mixed, up, got>> /\ (reader'[c] = "on" => reader[c] = "on")
    BY <1>7, <1>t DEF Read, ReadFails, producers
  <2>2. Rest(c)' = Rest(c)
    <3>1. CASE Read(e)
      BY <3>1, RestRead
    <3>2. CASE ReadFails(e)
      BY <3>2 DEF ReadFails, Rest
    <3> QED  BY <3>1, <3>2, <1>7
  <2> QED  BY <2>1, <2>2, <1>4
<1>8. ASSUME NEW e \in Conns, GetMqMsg(e)  PROVE Framed(c)'
  <2>1. UNCHANGED <<local, pc, cur, on, sent, mixed, up, reader, wire>>
    BY <1>8 DEF GetMqMsg, producers
  <2>2. Framed(c) /\ ~local
    BY <2>1, <1>f
  <2>3. CASE e = c
    BY <2>2, <2>3, <1>8, FrameGet
  <2>4. CASE e # c
    <3>1. got'[c] = got[c] /\ buffer'[c] = buffer[c]
      BY <2>4, <1>8, <1>t DEF GetMqMsg, Skip
    <3> QED  BY <2>1, <3>1, <1>4 DEF Rest
  <2> QED  BY <2>3, <2>4
<1>9. ASSUME NEW e \in Conns, Garbled(e)  PROVE Framed(c)'
  <2>1. UNCHANGED <<local, pc, cur, on, sent, mixed, wire>> /\ reader[e] = "on"
    BY <1>9 DEF Garbled, producers
  <2>2. c # e
    <3> SUFFICES ASSUME c = e  PROVE FALSE
      OBVIOUS
    <3>1. Framed(e) /\ ~local
      BY <2>1, <1>f
    <3> QED  BY <3>1, <1>9, NotGarbled
  <2>3. up' \subseteq up /\ buffer'[c] = buffer[c] /\ got'[c] = got[c] /\ reader'[c] = reader[c]
    BY <1>9, <1>t, <2>2 DEF Garbled, Skip
  <2> QED  BY <2>1, <2>3, <1>4 DEF Rest
<1>10. ASSUME NEW e \in Conns, ReadSlice(e)  PROVE Framed(c)'
  BY <1>10 DEF ReadSlice, producers
<1> QED
  BY <1>1, <1>2, <1>3, <1>5, <1>6, <1>7, <1>8, <1>9, <1>10 DEF Next, Write, ReadMqMsg

-----------------------------------------------------------------------------
(* Slices: what happens to them.                                           *)
\* A frame is its size and its body.
LEMMA SizeBody ==
  ASSUME NEW m \in Msgs
  PROVE  Size(m) \o Body(m) = Frame(m)
<1>1. /\ Len(Frame(m)) = HeaderSize + BodySize[m]
      /\ Frame(m) \in Seq(Bytes) /\ Size(m) \in Seq(Bytes) /\ Body(m) \in Seq(Bytes)
      /\ Len(Size(m)) = HeaderSize /\ Len(Body(m)) = BodySize[m]
      /\ \A k \in 1 .. HeaderSize + BodySize[m] : Frame(m)[k] = <<m, k>>
      /\ \A k \in 1 .. HeaderSize : Size(m)[k] = <<m, k>>
      /\ \A k \in 1 .. BodySize[m] : Body(m)[k] = <<m, HeaderSize + k>>
  BY FrameParts
<1>0. HeaderSize \in Nat /\ BodySize[m] \in Nat
  BY Lengths
<1>2. PICK f, x, y : f = Frame(m) /\ x = Size(m) /\ y = Body(m)
  OBVIOUS
<1>3. PICK t : t = x \o y
  OBVIOUS
<1>4. /\ t \in Seq(Bytes) /\ Len(t) = HeaderSize + BodySize[m]
      /\ \A i \in 1 .. HeaderSize + BodySize[m] : t[i] = IF i <= HeaderSize THEN x[i] ELSE y[i - HeaderSize]
  <2>1. /\ t \in Seq(Bytes) /\ Len(t) = Len(x) + Len(y)
        /\ \A i \in 1 .. Len(x) + Len(y) : t[i] = IF i <= Len(x) THEN x[i] ELSE y[i - Len(x)]
    BY <1>1, <1>2, <1>3, ConcatProperties
  <2> QED  BY <2>1, <1>1, <1>2
<1>5. ASSUME NEW i \in 1 .. HeaderSize + BodySize[m]  PROVE t[i] = f[i]
  <2>1. f[i] = <<m, i>>
    BY <1>1, <1>2
  <2>2. CASE i <= HeaderSize
    <3>1. i \in 1 .. HeaderSize
      BY <2>2, <1>0
    <3> QED  BY <3>1, <2>1, <2>2, <1>1, <1>2, <1>4
  <2>3. CASE ~(i <= HeaderSize)
    <3>1. i - HeaderSize \in 1 .. BodySize[m] /\ HeaderSize + (i - HeaderSize) = i
      BY <2>3, <1>0
    <3>2. t[i] = y[i - HeaderSize]
      BY <2>3, <1>4
    <3>3. y[i - HeaderSize] = <<m, HeaderSize + (i - HeaderSize)>>
      BY <3>1, <1>1, <1>2
    <3> QED  BY <3>1, <3>2, <3>3, <2>1
  <2> QED  BY <2>2, <2>3
<1>6. f \in Seq(Bytes) /\ Len(f) = HeaderSize + BodySize[m]
  BY <1>1, <1>2
<1>7. t = f
  BY <1>4, <1>5, <1>6, SeqEqual
<1> QED  BY <1>2, <1>3, <1>7

\* A slice at the end.
LEMMA Appended ==
  ASSUME NEW S, NEW w \in Seq(S), NEW x \in S
  PROVE  /\ w \o <<x>> \in Seq(S) /\ Len(w \o <<x>>) = Len(w) + 1 /\ DOMAIN (w \o <<x>>) = 1 .. Len(w) + 1
         /\ (w \o <<x>>)[Len(w) + 1] = x /\ \A i \in 1 .. Len(w) : (w \o <<x>>)[i] = w[i]
<1>1. <<x>> \in Seq(S) /\ Len(<<x>>) = 1 /\ <<x>>[1] = x /\ Len(w) \in Nat
  OBVIOUS
<1>2. /\ w \o <<x>> \in Seq(S) /\ Len(w \o <<x>>) = Len(w) + 1
      /\ \A i \in 1 .. Len(w) + 1 : (w \o <<x>>)[i] = IF i <= Len(w) THEN w[i] ELSE <<x>>[i - Len(w)]
  BY <1>1, ConcatProperties
<1>3. Len(w) + 1 \in 1 .. Len(w) + 1 /\ ~(Len(w) + 1 <= Len(w)) /\ Len(w) + 1 - Len(w) = 1
  BY <1>1
<1>4. \A i \in 1 .. Len(w) : i \in 1 .. Len(w) + 1 /\ i <= Len(w)
  BY <1>1
<1> QED  BY <1>1, <1>2, <1>3, <1>4, LenProperties

LEMMA SlicesSize ==
  ASSUME NEW b, NEW w \in Seq(Seq(Bytes)), NEW s \in Seq(Msgs), NEW g \in Nat, NEW h \in 0 .. 2, Slices(b, w, s, g, h),
         Ended(w, s, g, h), NEW m \in Msgs, NEW x, x = w \o <<Size(m)>>
  PROVE  Slices(b, x, s, g, h) /\ Begun(x, s, g, h) /\ SizeIn(b, x, m)
<1>0. Len(w) \in Nat /\ Len(s) \in Nat /\ DOMAIN s = 1 .. Len(s) /\ DOMAIN w = 1 .. Len(w) /\ h \in Nat /\ Size(m) \in Seq(Bytes)
  BY FrameParts
<1>1. /\ Len(x) = Len(w) + 1 /\ DOMAIN x = 1 .. Len(w) + 1 /\ x[Len(w) + 1] = Size(m) /\ x \in Seq(Seq(Bytes))
      /\ \A i \in 1 .. Len(w) : x[i] = w[i]
  BY <1>0, Appended
<1>2. Len(w) + h = 2 * (Len(s) - g)
  BY DEF Ended
<1>3. Begun(x, s, g, h)
  BY <1>0, <1>1, <1>2 DEF Begun
<1>4. ASSUME NEW a \in DOMAIN s, a > g, NEW i \in DOMAIN x
      PROVE  /\ i + h + 1 = 2 * (a - g) => x[i] = Size(s[a])
             /\ i + h = 2 * (a - g) => x[i] = Body(s[a])
  <2>1. CASE i = Len(w) + 1
    <3>1. i + h + 1 # 2 * (a - g) /\ i + h # 2 * (a - g)
      BY <2>1, <1>0, <1>2
    <3> QED  BY <3>1
  <2>2. CASE i # Len(w) + 1
    <3>1. i \in 1 .. Len(w)
      BY <2>2, <1>0, <1>1
    <3> QED  BY <3>1, <1>0, <1>1, <1>4 DEF Slices
  <2> QED  BY <2>1, <2>2
<1>5. Slices(b, x, s, g, h)
  BY <1>1, <1>3, <1>4 DEF Slices
<1>6. x # <<>>
  BY <1>0, <1>1
<1> QED  BY <1>1, <1>3, <1>5, <1>6 DEF SizeIn

LEMMA SlicesBody ==
  ASSUME NEW b, NEW w \in Seq(Seq(Bytes)), NEW s \in Seq(Msgs), NEW g \in Nat, NEW h \in 0 .. 2, Slices(b, w, s, g, h),
         NEW m \in Msgs, Begun(w, s, g, h), SizeIn(b, w, m), NEW x, x = w \o <<Body(m)>>, NEW u, u = Append(s, m)
  PROVE  Slices(b, x, u, g, h) /\ Ended(x, u, g, h) /\ ~Begun(x, u, g, h)
<1>0. Len(w) \in Nat /\ Len(s) \in Nat /\ DOMAIN s = 1 .. Len(s) /\ DOMAIN w = 1 .. Len(w) /\ h \in Nat /\ Body(m) \in Seq(Bytes)
  BY FrameParts
<1>1. /\ Len(x) = Len(w) + 1 /\ DOMAIN x = 1 .. Len(w) + 1 /\ x[Len(w) + 1] = Body(m)
      /\ \A i \in 1 .. Len(w) : x[i] = w[i]
  BY <1>0, Appended
<1>2. /\ Len(u) = Len(s) + 1 /\ DOMAIN u = 1 .. Len(s) + 1 /\ u[Len(s) + 1] = m
      /\ \A a \in 1 .. Len(s) : u[a] = s[a]
  BY AppendProperties, LenProperties
<1>3. Len(w) + h = 2 * (Len(s) - g) + 1
  BY DEF Begun
<1>4. Ended(x, u, g, h) /\ ~Begun(x, u, g, h)
  <2>1. PICK k \in Nat, n \in Nat : k = Len(w) /\ n = Len(s)
    BY <1>0
  <2>2. k + h = 2 * (n - g) + 1 /\ Len(x) = k + 1 /\ Len(u) = n + 1
    BY <2>1, <1>1, <1>2, <1>3
  <2>3. k + 1 + h = 2 * (n + 1 - g)
    BY <2>2, <1>0
  <2>4. k + 1 + h # 2 * (n + 1 - g) + 1
    BY <2>2, <1>0
  <2> QED  BY <2>2, <2>3, <2>4 DEF Ended, Begun
<1>5. ASSUME NEW a \in DOMAIN u, a > g, NEW i \in DOMAIN x
      PROVE  /\ i + h + 1 = 2 * (a - g) => x[i] = Size(u[a])
             /\ i + h = 2 * (a - g) => x[i] = Body(u[a])
  <2>1. CASE i = Len(w) + 1
    <3>1. i + h + 1 # 2 * (a - g) /\ (i + h = 2 * (a - g) => a = Len(s) + 1)
      BY <2>1, <1>0, <1>2, <1>3, SMTT(30)
    <3> QED  BY <3>1, <2>1, <1>1, <1>2
  <2>2. CASE i # Len(w) + 1
    <3>1. i \in 1 .. Len(w) /\ x[i] = w[i]
      BY <2>2, <1>0, <1>1
    <3>2. CASE a = Len(s) + 1
      <4>1. i + h # 2 * (a - g) /\ (i + h + 1 = 2 * (a - g) => i = Len(w))
        BY <3>1, <3>2, <1>0, <1>3, SMTT(30)
      <4>2. w # <<>>
        BY <3>1, <1>0
      <4>3. w[Len(w)] = Size(m)
        BY <4>2 DEF SizeIn
      <4> QED  BY <4>1, <4>3, <3>1, <3>2, <1>2
    <3>3. CASE a # Len(s) + 1
      <4>1. a \in DOMAIN s /\ u[a] = s[a]
        BY <3>3, <1>0, <1>2
      <4> QED  BY <4>1, <3>1, <1>0, <1>5 DEF Slices
    <3> QED  BY <3>2, <3>3
  <2> QED  BY <2>1, <2>2
<1>6. ASSUME h = 1  PROVE \E y \in Msgs : b = Size(y) /\ (g < Len(u) => y = u[g + 1])
  <2>1. PICK y \in Msgs : b = Size(y) /\ (g < Len(s) => y = s[g + 1])
    BY <1>6 DEF Slices
  <2>2. CASE g < Len(s)
    <3>1. g + 1 \in 1 .. Len(s)
      BY <2>2, <1>0
    <3> QED  BY <3>1, <2>1, <2>2, <1>2
  <2>3. CASE ~(g < Len(s))
    <3>1. g = Len(s) /\ Len(w) = 0
      <4>1. PICK k \in Nat, n \in Nat : k = Len(w) /\ n = Len(s)
        BY <1>0
      <4>2. k + 1 = 2 * (n - g) + 1 /\ ~(g < n)
        BY <4>1, <2>3, <1>3, <1>6
      <4>3. g = n /\ k = 0
        BY <4>2
      <4> QED  BY <4>1, <4>3
    <3>2. b = Size(m)
      BY <3>1, <1>0 DEF SizeIn
    <3>3. u[g + 1] = m
      BY <3>1, <1>2
    <3> QED  BY <3>2, <3>3
  <2> QED  BY <2>2, <2>3
<1>7. ASSUME h = 2  PROVE g < Len(u) /\ b = Frame(u[g + 1])
  <2>1. g < Len(s) /\ b = Frame(s[g + 1])
    BY <1>7 DEF Slices
  <2>2. g + 1 \in 1 .. Len(s) /\ g < Len(u)
    BY <2>1, <1>0, <1>2
  <2> QED  BY <2>1, <2>2, <1>2
<1>8. h = 0 => b = <<>>
  BY DEF Slices
<1> QED  BY <1>4, <1>5, <1>6, <1>7, <1>8 DEF Slices

\* What a reader that waits for more finds in the next slice, and has then.
LEMMA SlicesRead ==
  ASSUME NEW b \in Seq(Bytes), NEW w \in Seq(Seq(Bytes)), NEW s \in Seq(Msgs), NEW g \in Nat, NEW h \in 0 .. 1,
         Slices(b, w, s, g, h), w # <<>>
  PROVE  /\ Slices(b \o Head(w), Tail(w), s, g, h + 1)
         /\ Begun(Tail(w), s, g, h + 1) <=> Begun(w, s, g, h)
         /\ \A m \in Msgs : Begun(w, s, g, h) /\ SizeIn(b, w, m) => SizeIn(b \o Head(w), Tail(w), m)
         /\ Len(Head(w)) > ReadMax => g + 1 \in DOMAIN s /\ BodySize[s[g + 1]] > ReadMax
<1>0. Len(w) \in Nat /\ Len(w) >= 1 /\ Len(s) \in Nat /\ DOMAIN s = 1 .. Len(s) /\ DOMAIN w = 1 .. Len(w) /\ h \in Nat
  BY EmptySeq
<1>h. Head(w) = w[1]
  OBVIOUS
<1>1. PICK x, t, e : x = w[1] /\ x = Head(w) /\ t = Tail(w) /\ e = b \o x
  BY <1>h
<1>2. t \in Seq(Seq(Bytes)) /\ Len(t) = Len(w) - 1 /\ DOMAIN t = 1 .. Len(w) - 1 /\ \A i \in 1 .. Len(w) - 1 : t[i] = w[i + 1]
  BY <1>0, <1>1, HeadTailProperties, LenProperties
<1>3. Len(w) + h = 2 * (Len(s) - g) + 1 \/ Len(w) + h = 2 * (Len(s) - g)
  BY DEF Slices, Begun, Ended
<1>l. Len(t) + (h + 1) = Len(w) + h
  BY <1>0, <1>2
<1>4. Begun(t, s, g, h + 1) <=> Begun(w, s, g, h)
  BY <1>l, Zenon DEF Begun
<1>5. Ended(t, s, g, h + 1) <=> Ended(w, s, g, h)
  BY <1>l, Zenon DEF Ended
<1>6. ASSUME NEW a \in DOMAIN s, a > g, NEW i \in DOMAIN t
      PROVE  /\ i + (h + 1) + 1 = 2 * (a - g) => t[i] = Size(s[a])
             /\ i + (h + 1) = 2 * (a - g) => t[i] = Body(s[a])
  <2>1. i \in 1 .. Len(w) - 1
    BY <1>2
  <2>2. PICK j \in 1 .. Len(w) : j = i + 1
    BY <2>1, <1>0
  <2>3. t[i] = w[j] /\ j \in DOMAIN w
    BY <2>1, <2>2, <1>0, <1>2
  <2>5. i + (h + 1) + 1 = j + h + 1 /\ i + (h + 1) = j + h
    <3>1. PICK k \in Int : k = i
      BY <2>1
    <3>2. k + (h + 1) + 1 = k + 1 + h + 1 /\ k + (h + 1) = k + 1 + h
      BY <1>0
    <3> QED  BY <3>1, <3>2, <2>2
  <2>4. (j + h + 1 = 2 * (a - g) => w[j] = Size(s[a])) /\ (j + h = 2 * (a - g) => w[j] = Body(s[a]))
    BY <2>3, <1>6 DEF Slices
  <2> QED  BY <2>3, <2>4, <2>5
<1>7. Len(t) > 0 => t[Len(t)] = w[Len(w)]
  BY <1>0, <1>2
<1>8. Len(t) > 0 /\ Begun(t, s, g, h + 1) => \E m \in Msgs : t[Len(t)] = Size(m)
  BY <1>0, <1>2, <1>4, <1>7 DEF Slices
<1>9. CASE h = 0
  <2>1. b = <<>>
    BY <1>9 DEF Slices
  <2>2. PICK m \in Msgs : x = Size(m) /\ (g < Len(s) => m = s[g + 1])
    <3>1. CASE g < Len(s)
      <4>1. PICK a \in DOMAIN s : a = g + 1 /\ a > g /\ 2 = 2 * (a - g)
        BY <3>1, <1>0
      <4>2. 1 \in DOMAIN w /\ 1 + h + 1 = 2
        BY <1>0, <1>9
      <4>3. w[1] = Size(s[a])
        BY <4>1, <4>2 DEF Slices
      <4>4. s[a] \in Msgs
        BY <4>1
      <4> QED  BY <4>1, <4>3, <4>4, <1>1
    <3>2. CASE ~(g < Len(s))
      <4>1. Len(w) = 1 /\ Len(w) + h = 2 * (Len(s) - g) + 1
        <5>1. PICK k \in Nat, n \in Nat : k = Len(w) /\ n = Len(s)
          BY <1>0
        <5>2. (k = 2 * (n - g) + 1 \/ k = 2 * (n - g)) /\ ~(g < n) /\ k >= 1
          BY <5>1, <3>2, <1>0, <1>3, <1>9
        <5>3. k = 1 /\ k = 2 * (n - g) + 1
          BY <5>2
        <5> QED  BY <5>1, <5>3, <1>9
      <4> QED  BY <4>1, <3>2, <1>1 DEF Slices, Begun
    <3> QED  BY <3>1, <3>2
  <2>3. x \in Seq(Bytes) /\ Len(x) = HeaderSize
    BY <2>2, FrameParts
  <2>4. e = x
    BY <2>1, <2>3, <1>1, ConcatEmptySeq
  <2>5. Slices(e, t, s, g, h + 1)
    <3>1. h + 1 # 0 /\ h + 1 # 2 /\ \E y \in Msgs : e = Size(y) /\ (g < Len(s) => y = s[g + 1])
      BY <2>2, <2>4, <1>9
    <3>2. Begun(t, s, g, h + 1) \/ Ended(t, s, g, h + 1)
      BY <1>4, <1>5 DEF Slices
    <3> QED  BY <3>1, <3>2, <1>6, <1>8 DEF Slices
  <2>6. ASSUME NEW y \in Msgs, Begun(w, s, g, h), SizeIn(b, w, y)  PROVE SizeIn(e, t, y)
    <3>1. w[Len(w)] = Size(y)
      BY <2>6 DEF SizeIn
    <3>2. CASE t = <<>>
      <4>1. Len(w) = 1
        <5>1. PICK k \in Nat : k = Len(w)
          BY <1>0
        <5>2. Len(t) = 0 /\ Len(t) = k - 1
          BY <5>1, <3>2, <1>2
        <5>3. k = 1
          BY <5>2
        <5> QED  BY <5>1, <5>3
      <4> QED  BY <4>1, <3>1, <3>2, <2>4, <1>1 DEF SizeIn
    <3>3. CASE t # <<>>
      <4>1. Len(t) > 0
        BY <3>3, <1>2, EmptySeq
      <4> QED  BY <4>1, <3>1, <3>3, <1>7 DEF SizeIn
    <3> QED  BY <3>2, <3>3
  <2>7. ~(Len(x) > ReadMax)
    BY <2>3, Lengths
  <2> QED  BY <2>5, <2>6, <2>7, <1>1, <1>4
<1>10. CASE h = 1
  <2>1. g < Len(s) /\ g + 1 \in DOMAIN s /\ 1 \in DOMAIN w /\ 1 + h = 2 * (g + 1 - g)
    BY <1>0, <1>3, <1>10
  <2>2. w[1] = Body(s[g + 1])
    BY <2>1 DEF Slices
  <2>3. b = Size(s[g + 1]) /\ s[g + 1] \in Msgs
    BY <2>1, <1>10 DEF Slices
  <2>4. e = Frame(s[g + 1])
    BY <2>2, <2>3, <1>1, SizeBody
  <2>5. Slices(e, t, s, g, h + 1)
    <3>1. h + 1 # 0 /\ h + 1 # 1
      BY <1>10
    <3>2. Begun(t, s, g, h + 1) \/ Ended(t, s, g, h + 1)
      BY <1>4, <1>5 DEF Slices
    <3> QED  BY <3>1, <3>2, <2>1, <2>4, <1>6, <1>8 DEF Slices
  <2>6. ASSUME NEW y \in Msgs, Begun(w, s, g, h), SizeIn(b, w, y)  PROVE SizeIn(e, t, y)
    <3>1. Len(w) + h = 2 * (Len(s) - g) + 1
      BY <2>6 DEF Begun
    <3>2. Len(t) > 0
      BY <3>1, <1>0, <1>2, <1>10
    <3>3. t # <<>>
      BY <3>2
    <3> QED  BY <2>6, <3>2, <3>3, <1>7 DEF SizeIn
  <2>7. Len(x) > ReadMax => BodySize[s[g + 1]] > ReadMax
    <3>1. PICK m \in Msgs : m = s[g + 1]
      BY <2>3
    <3>2. Len(Body(m)) = BodySize[m]
      BY FrameParts
    <3> QED  BY <3>1, <3>2, <2>2, <1>1
  <2> QED  BY <2>1, <2>5, <2>6, <2>7, <1>1, <1>4
<1> QED  BY <1>9, <1>10

LEMMA SlicesTake ==
  ASSUME NEW b, NEW w \in Seq(Seq(Bytes)), NEW s \in Seq(Msgs), NEW g \in Nat, Slices(b, w, s, g, 2)
  PROVE  /\ g < Len(s) /\ g + 1 \in DOMAIN s /\ s[g + 1] \in Msgs /\ b = Frame(s[g + 1])
         /\ Slices(<<>>, w, s, g + 1, 0)
         /\ Begun(w, s, g + 1, 0) <=> Begun(w, s, g, 2)
         /\ \A m \in Msgs : \A e : Begun(w, s, g, 2) /\ SizeIn(b, w, m) => SizeIn(e, w, m)
<1>0. Len(w) \in Nat /\ Len(s) \in Nat /\ DOMAIN s = 1 .. Len(s) /\ DOMAIN w = 1 .. Len(w)
  OBVIOUS
<1>1. g < Len(s) /\ b = Frame(s[g + 1])
  BY DEF Slices
<1>2. g + 1 \in DOMAIN s
  BY <1>0, <1>1
<1>3. /\ Begun(w, s, g + 1, 0) <=> Begun(w, s, g, 2)
      /\ Ended(w, s, g + 1, 0) <=> Ended(w, s, g, 2)
  <2>1. PICK k \in Nat, n \in Nat : k = Len(w) /\ n = Len(s)
    BY <1>0
  <2>2. k + 0 = 2 * (n - (g + 1)) + 1 <=> k + 2 = 2 * (n - g) + 1
    OBVIOUS
  <2>3. k + 0 = 2 * (n - (g + 1)) <=> k + 2 = 2 * (n - g)
    OBVIOUS
  <2> QED  BY <2>1, <2>2, <2>3 DEF Begun, Ended
<1>4. ASSUME NEW a \in DOMAIN s, a > g + 1, NEW i \in DOMAIN w
      PROVE  /\ i + 0 + 1 = 2 * (a - (g + 1)) => w[i] = Size(s[a])
             /\ i + 0 = 2 * (a - (g + 1)) => w[i] = Body(s[a])
  <2>1. /\ i + 0 + 1 = 2 * (a - (g + 1)) => i + 2 + 1 = 2 * (a - g)
        /\ i + 0 = 2 * (a - (g + 1)) => i + 2 = 2 * (a - g)
        /\ a > g
    <3>1. PICK k \in Nat, e \in Nat : k = i /\ e = a
      BY <1>0
    <3>2. /\ k + 0 + 1 = 2 * (e - (g + 1)) => k + 2 + 1 = 2 * (e - g)
          /\ k + 0 = 2 * (e - (g + 1)) => k + 2 = 2 * (e - g)
      OBVIOUS
    <3>3. e > g
      BY <3>1, <1>4
    <3> QED  BY <3>1, <3>2, <3>3
  <2> QED  BY <2>1 DEF Slices
<1>5. Slices(<<>>, w, s, g + 1, 0)
  BY <1>3, <1>4 DEF Slices
<1>6. ASSUME Begun(w, s, g, 2)  PROVE w # <<>>
  <2>1. Len(w) + 2 = 2 * (Len(s) - g) + 1
    BY <1>6 DEF Begun
  <2>2. Len(w) > 0
    BY <2>1, <1>0
  <2> QED  BY <2>2
<1> QED  BY <1>1, <1>2, <1>3, <1>5, <1>6 DEF SizeIn

\* What the reader does depends on how many slices it has.
LEMMA StartsSelf ==
  ASSUME NEW S, NEW s \in Seq(S)
  PROVE  StartsWith(s, s)
<1>1. Len(s) \in Nat /\ Len(s) <= Len(s)
  OBVIOUS
<1>2. /\ SubSeq(s, 1, Len(s)) \in Seq(S) /\ Len(SubSeq(s, 1, Len(s))) = Len(s)
      /\ \A i \in 1 .. Len(s) : SubSeq(s, 1, Len(s))[i] = s[i]
  BY <1>1, Kept
<1>3. SubSeq(s, 1, Len(s)) = s
  BY <1>2, SeqEqual
<1> QED  BY <1>1, <1>3 DEF StartsWith

LEMMA SlicesFrame ==
  ASSUME NEW b \in Seq(Bytes), NEW w, NEW s \in Seq(Msgs), NEW g \in Nat, NEW h \in 0 .. 2, Slices(b, w, s, g, h),
         NEW m \in Msgs, StartsWith(b, Frame(m))
  PROVE  h = 2 /\ m = s[g + 1]
<1>1. HeaderSize + BodySize[m] <= Len(b) /\ \A k \in 1 .. HeaderSize + BodySize[m] : b[k] = <<m, k>>
  BY StartsWithFrame
<1>2. HeaderSize \in Nat /\ HeaderSize >= 1 /\ BodySize[m] \in Nat /\ BodySize[m] >= 1
  BY Lengths
<1>3. h # 0
  <2> SUFFICES ASSUME h = 0  PROVE FALSE
    OBVIOUS
  <2>1. Len(b) = 0
    BY DEF Slices
  <2> QED  BY <2>1, <1>1, <1>2
<1>4. h # 1
  <2> SUFFICES ASSUME h = 1  PROVE FALSE
    OBVIOUS
  <2>1. Len(b) = HeaderSize
    BY FrameParts DEF Slices
  <2> QED  BY <2>1, <1>1, <1>2
<1>5. g < Len(s) /\ b = Frame(s[g + 1])
  BY <1>3, <1>4 DEF Slices
<1>6. PICK x \in Msgs : x = s[g + 1]
  <2>1. g + 1 \in 1 .. Len(s)
    BY <1>5
  <2> QED  BY <2>1
<1>7. 1 \in 1 .. HeaderSize + BodySize[x] /\ 1 \in 1 .. HeaderSize + BodySize[m]
  BY Lengths
<1>8. b[1] = <<x, 1>>
  BY <1>5, <1>6, <1>7, FrameParts
<1>9. b[1] = <<m, 1>>
  BY <1>1, <1>7
<1> QED  BY <1>3, <1>4, <1>6, <1>8, <1>9

LEMMA SlicesWait ==
  ASSUME TypeOK, NEW c \in Conns, NEW w, NEW s \in Seq(Msgs), NEW g \in Nat, NEW h \in 0 .. 2,
         Slices(buffer[c], w, s, g, h)
  PROVE  /\ Incomplete(c) <=> h # 2
         /\ h = 2 => \E m \in Msgs : StartsWith(buffer[c], Frame(m))
<1>1. PICK b \in Seq(Bytes) : b = buffer[c]
  BY DEF TypeOK
<1>2. Slices(b, w, s, g, h)
  BY <1>1
<1>3. ASSUME h = 0  PROVE Incomplete(c)
  <2>1. Len(b) = 0
    BY <1>2, <1>3 DEF Slices
  <2> QED  BY <2>1, <1>1, Lengths DEF Incomplete
<1>4. ASSUME h = 1  PROVE Incomplete(c)
  <2>1. PICK m \in Msgs : b = Size(m)
    BY <1>2, <1>4 DEF Slices
  <2>2. StartsWith(b, Size(m))
    BY <2>1, <1>1, StartsSelf
  <2>3. Len(b) = HeaderSize /\ Len(Frame(m)) = HeaderSize + BodySize[m]
    BY <2>1, FrameParts
  <2>4. ~(Len(b) >= Len(Frame(m)))
    BY <2>3, Lengths
  <2> QED  BY <2>2, <2>4, <1>1 DEF Incomplete, Sized, CheckSize
<1>5. ASSUME h = 2  PROVE ~Incomplete(c) /\ \E m \in Msgs : StartsWith(b, Frame(m))
  <2>1. g < Len(s) /\ b = Frame(s[g + 1])
    BY <1>2, <1>5 DEF Slices
  <2>2. PICK x \in Msgs : x = s[g + 1]
    <3>1. g + 1 \in 1 .. Len(s)
      BY <2>1
    <3> QED  BY <3>1
  <2>3. Len(b) = HeaderSize + BodySize[x] /\ Frame(x) \in Seq(Bytes) /\ Len(Size(x)) = HeaderSize
    BY <2>1, <2>2, FrameParts
  <2>4. ~(Len(b) < HeaderSize)
    BY <2>3, Lengths
  <2>5. ASSUME NEW m \in Msgs, StartsWith(b, Size(m))  PROVE m = x
    <3>1. SubSeq(b, 1, HeaderSize) = Size(m)
      BY <2>5, FrameParts DEF StartsWith
    <3>2. SubSeq(b, 1, HeaderSize) = Size(x)
      BY <2>1, <2>2 DEF Size
    <3> QED  BY <3>1, <3>2, SlicesDiffer
  <2>6. Len(Frame(x)) = Len(b) /\ Len(b) \in Nat
    BY <2>1, <2>2
  <2>7. ASSUME NEW m \in Msgs, StartsWith(b, Size(m))  PROVE Len(b) >= Len(Frame(m))
    BY <2>5, <2>6, <2>7
  <2>8. ~Incomplete(c)
    BY <2>4, <2>7, <1>1 DEF Incomplete, Sized, CheckSize
  <2> QED  BY <2>1, <2>2, <2>3, <2>8, StartsSelf
<1> QED  BY <1>1, <1>3, <1>4, <1>5

LEMMA SlicedBy ==
  ASSUME NEW c \in Conns, NEW b, NEW w, NEW s, NEW g, NEW h, buffer'[c] = b, wire'[c] = w, sent'[c] = s, Len(got'[c]) = g,
         Slices(b, w, s, g, h),
         c \in up' => ((\E p \in Producers : Inside(p, c)') <=> Begun(w, s, g, h)),
         \A p \in Producers : c \in up' /\ Inside(p, c)' => SizeIn(b, w, cur'[p])
  PROVE  Sliced(c, h)'
<1>1. Slices(buffer[c], wire[c], sent[c], Len(got[c]), h)'
  <2>1. (h = 0 => buffer[c] = <<>>)'
    BY DEF Slices
  <2>2. (h = 1 => \E m \in Msgs : buffer[c] = Size(m) /\ (Len(got[c]) < Len(sent[c]) => m = sent[c][Len(got[c]) + 1]))'
    BY DEF Slices
  <2>3. (h = 2 => Len(got[c]) < Len(sent[c]) /\ buffer[c] = Frame(sent[c][Len(got[c]) + 1]))'
    <3>1. h = 2 => g < Len(s) /\ b = Frame(s[g + 1])
      BY DEF Slices
    <3> QED  BY <3>1, Zenon DEF Frame
  <2>4. (Begun(wire[c], sent[c], Len(got[c]), h) \/ Ended(wire[c], sent[c], Len(got[c]), h))'
    BY DEF Slices, Begun, Ended
  <2>5. (\A a \in DOMAIN sent[c] : a > Len(got[c]) => \A i \in DOMAIN wire[c] :
             /\ i + h + 1 = 2 * (a - Len(got[c])) => wire[c][i] = Size(sent[c][a])
             /\ i + h = 2 * (a - Len(got[c])) => wire[c][i] = Body(sent[c][a]))'
    <3>1. \A a \in DOMAIN s : a > g => \A i \in DOMAIN w :
             /\ i + h + 1 = 2 * (a - g) => w[i] = Size(s[a])
             /\ i + h = 2 * (a - g) => w[i] = Body(s[a])
      BY DEF Slices
    <3> QED  BY <3>1, Zenon DEF Size, Body, Frame
  <2>6. (Len(wire[c]) > 0 /\ Begun(wire[c], sent[c], Len(got[c]), h) => \E m \in Msgs : wire[c][Len(wire[c])] = Size(m))'
    BY DEF Slices, Begun
  <2> QED  BY <2>1, <2>2, <2>3, <2>4, <2>5, <2>6 DEF Slices
<1>2. ASSUME c \in up'  PROVE ((\E p \in Producers : Inside(p, c)) <=> Begun(wire[c], sent[c], Len(got[c]), h))'
  BY <1>2 DEF Begun
<1>3. ASSUME c \in up', NEW p \in Producers, Inside(p, c)'  PROVE SizeIn(buffer[c], wire[c], cur[p])'
  <2>1. SizeIn(b, w, cur'[p])
    BY <1>3
  <2> QED  BY <2>1 DEF SizeIn, Size, Frame
<1> QED  BY <1>1, <1>2, <1>3 DEF Sliced

LEMMA SlicedFacts ==
  ASSUME TypeOK, local, NEW c \in Conns, NEW h, Sliced(c, h)
  PROVE  \E b \in Seq(Bytes), w \in Seq(Seq(Bytes)), s \in Seq(Msgs), g \in Nat :
            /\ b = buffer[c] /\ w = wire[c] /\ s = sent[c] /\ g = Len(got[c])
            /\ Slices(b, w, s, g, h)
            /\ c \in up => ((\E p \in Producers : Inside(p, c)) <=> Begun(w, s, g, h))
            /\ \A p \in Producers : c \in up /\ Inside(p, c) => SizeIn(b, w, cur[p])
<1>1. /\ buffer[c] \in Seq(Bytes) /\ wire[c] \in Seq(Seq(Bytes)) /\ sent[c] \in Seq(Msgs)
      /\ got[c] \in Seq(Msgs \cup {None})
  BY DEF TypeOK
<1>2. Len(got[c]) \in Nat
  BY <1>1
<1> QED  BY <1>1, <1>2, Zenon DEF Sliced

\* The slices of a connection whose slices and writers are as before.
LEMMA SlicedSame ==
  ASSUME TypeOK, local, NEW c \in Conns, NEW h, Sliced(c, h), buffer'[c] = buffer[c], wire'[c] = wire[c],
         sent'[c] = sent[c], got'[c] = got[c],
         c \in up' => /\ c \in up
                      /\ \A p \in Producers : (Inside(p, c)' <=> Inside(p, c)) /\ (Inside(p, c) => cur'[p] = cur[p])
  PROVE  Sliced(c, h)'
<1>1. PICK b \in Seq(Bytes), w \in Seq(Seq(Bytes)), s \in Seq(Msgs), g \in Nat :
            /\ b = buffer[c] /\ w = wire[c] /\ s = sent[c] /\ g = Len(got[c])
            /\ Slices(b, w, s, g, h)
            /\ c \in up => ((\E p \in Producers : Inside(p, c)) <=> Begun(w, s, g, h))
            /\ \A p \in Producers : c \in up /\ Inside(p, c) => SizeIn(b, w, cur[p])
  BY SlicedFacts, Zenon
<1>2. buffer'[c] = b /\ wire'[c] = w /\ sent'[c] = s /\ Len(got'[c]) = g
  BY <1>1
<1>3. c \in up' => ((\E p \in Producers : Inside(p, c)') <=> Begun(w, s, g, h))
  BY <1>1, Zenon
<1>4. \A p \in Producers : c \in up' /\ Inside(p, c)' => SizeIn(b, w, cur'[p])
  BY <1>1
<1> QED  BY <1>1, <1>2, <1>3, <1>4, SlicedBy

-----------------------------------------------------------------------------
(* Slices: every step leaves them counted.                                 *)
LEMMA SliceWrite ==
  ASSUME TypeOK, local, AloneInv, NEW p \in Producers, WriteSize(p) \/ WriteBody(p),
         NEW c \in Conns, c = on[p], ~mixed'[c], NEW h \in 0 .. 2, Sliced(c, h)
  PROVE  Sliced(c, h)'
<1>1. /\ c \in up /\ on' = on /\ up' = up /\ buffer' = buffer /\ got' = got
      /\ pc \in [Producers -> {"idle", "size", "body", "retry"}] /\ mixed \in [Conns -> BOOLEAN]
      /\ wire \in [Conns -> Seq(Seq(Bytes))] /\ sent \in [Conns -> Seq(Msgs)]
  BY DEF WriteSize, WriteBody, TypeOK
<1>2. PICK m \in Msgs : m = cur[p]
  BY HasMessage DEF WriteSize, WriteBody
<1>3. PICK b \in Seq(Bytes), w \in Seq(Seq(Bytes)), s \in Seq(Msgs), g \in Nat :
            /\ b = buffer[c] /\ w = wire[c] /\ s = sent[c] /\ g = Len(got[c])
            /\ Slices(b, w, s, g, h)
            /\ c \in up => ((\E q \in Producers : Inside(q, c)) <=> Begun(w, s, g, h))
            /\ \A q \in Producers : c \in up /\ Inside(q, c) => SizeIn(b, w, cur[q])
  BY SlicedFacts, Zenon
<1>4. buffer'[c] = b /\ Len(got'[c]) = g
  BY <1>1, <1>3
<1>5. CASE WriteSize(p)
  <2>1. /\ pc[p] = "size" /\ Put(p, Size(m)) /\ mixed' = [mixed EXCEPT ![c] = @ \/ Within(p)]
        /\ pc' = [pc EXCEPT ![p] = "body"] /\ cur' = cur /\ sent' = sent
    BY <1>2, <1>5 DEF WriteSize
  <2>2. ~mixed[c] /\ ~Within(p)
    BY <2>1, <1>1
  <2>3. \A q \in Producers : ~Inside(q, c) /\ (Inside(q, c)' <=> q = p)
    BY <2>1, <2>2, <1>1 DEF Inside, Within
  <2>4. Ended(w, s, g, h)
    BY <2>3, <1>1, <1>3 DEF Slices
  <2>5. PICK x : x = w \o <<Size(m)>>
    OBVIOUS
  <2>6. Slices(b, x, s, g, h) /\ Begun(x, s, g, h) /\ SizeIn(b, x, m)
    BY <2>4, <2>5, <1>3, SlicesSize
  <2>7. wire'[c] = x /\ sent'[c] = s
    BY <2>1, <2>5, <1>1, <1>3 DEF Put
  <2>8. c \in up' => ((\E q \in Producers : Inside(q, c)') <=> Begun(x, s, g, h))
    BY <2>3, <2>6
  <2>9. \A q \in Producers : c \in up' /\ Inside(q, c)' => SizeIn(b, x, cur'[q])
    BY <2>1, <2>3, <2>6, <1>2
  <2> QED  BY <2>6, <2>7, <2>8, <2>9, <1>4, SlicedBy
<1>6. CASE WriteBody(p)
  <2>1. /\ pc[p] = "body" /\ Put(p, Body(m)) /\ mixed' = mixed
        /\ pc' = [pc EXCEPT ![p] = "idle"] /\ sent' = [sent EXCEPT ![c] = Append(sent[c], m)]
    BY <1>2, <1>6 DEF WriteBody, Written
  <2>2. ~mixed[c] /\ Inside(p, c)
    BY <2>1 DEF Inside
  <2>3. \A q \in Producers : ~Inside(q, c)'
    BY <2>1, <2>2, <1>1 DEF Inside, AloneInv
  <2>4. Begun(w, s, g, h) /\ SizeIn(b, w, m)
    BY <2>2, <1>1, <1>2, <1>3
  <2>5. PICK x, u : x = w \o <<Body(m)>> /\ u = Append(s, m)
    OBVIOUS
  <2>6. Slices(b, x, u, g, h) /\ ~Begun(x, u, g, h)
    BY <2>4, <2>5, <1>3, SlicesBody
  <2>7. wire'[c] = x /\ sent'[c] = u
    BY <2>1, <2>5, <1>1, <1>3 DEF Put
  <2>8. c \in up' => ((\E q \in Producers : Inside(q, c)') <=> Begun(x, u, g, h))
    BY <2>3, <2>6
  <2>9. \A q \in Producers : c \in up' /\ Inside(q, c)' => SizeIn(b, x, cur'[q])
    BY <2>3
  <2> QED  BY <2>6, <2>7, <2>8, <2>9, <1>4, SlicedBy
<1> QED  BY <1>5, <1>6

LEMMA SliceRead ==
  ASSUME TypeOK, local, NEW c \in Conns, ReadSlice(c), NEW h \in 0 .. 2, Sliced(c, h)
  PROVE  /\ h \in 0 .. 1
         /\ Fits(Head(wire[c])) => Sliced(c, h + 1)'
         /\ ~Fits(Head(wire[c])) => TooLong(c)
<1>1. /\ Incomplete(c) /\ wire[c] # <<>> /\ wire' = [wire EXCEPT ![c] = Tail(@)]
      /\ Fits(Head(wire[c])) => buffer' = [buffer EXCEPT ![c] = @ \o Head(wire[c])]
      /\ pc' = pc /\ on' = on /\ cur' = cur /\ up' = up /\ sent' = sent /\ got' = got
  BY DEF ReadSlice, producers
<1>2. wire \in [Conns -> Seq(Seq(Bytes))] /\ buffer \in [Conns -> Seq(Bytes)]
  BY DEF TypeOK
<1>3. PICK b \in Seq(Bytes), w \in Seq(Seq(Bytes)), s \in Seq(Msgs), g \in Nat :
            /\ b = buffer[c] /\ w = wire[c] /\ s = sent[c] /\ g = Len(got[c])
            /\ Slices(b, w, s, g, h)
            /\ c \in up => ((\E p \in Producers : Inside(p, c)) <=> Begun(w, s, g, h))
            /\ \A p \in Producers : c \in up /\ Inside(p, c) => SizeIn(b, w, cur[p])
  BY SlicedFacts, Zenon
<1>4. h # 2
  BY <1>1, <1>3, SlicesWait
<1>5. h \in 0 .. 1
  BY <1>4
<1>6. PICK e, t : e = b \o Head(w) /\ t = Tail(w)
  OBVIOUS
<1>7. /\ Slices(e, t, s, g, h + 1)
      /\ Begun(t, s, g, h + 1) <=> Begun(w, s, g, h)
      /\ \A m \in Msgs : Begun(w, s, g, h) /\ SizeIn(b, w, m) => SizeIn(e, t, m)
      /\ Len(Head(w)) > ReadMax => g + 1 \in DOMAIN s /\ BodySize[s[g + 1]] > ReadMax
  BY <1>1, <1>3, <1>5, <1>6, SlicesRead
<1>8. ASSUME Fits(Head(wire[c]))  PROVE Sliced(c, h + 1)'
  <2>1. buffer'[c] = e /\ wire'[c] = t /\ sent'[c] = s /\ Len(got'[c]) = g
    BY <1>1, <1>2, <1>3, <1>6, <1>8
  <2>2. \A p \in Producers : (Inside(p, c)' <=> Inside(p, c)) /\ (Inside(p, c) => cur[p] \in Msgs)
    BY <1>1, HasMessage DEF Inside
  <2>3. c \in up' => ((\E p \in Producers : Inside(p, c)') <=> Begun(t, s, g, h + 1))
    BY <2>2, <1>1, <1>3, <1>7
  <2>4. \A p \in Producers : c \in up' /\ Inside(p, c)' => SizeIn(e, t, cur'[p])
    BY <2>2, <1>1, <1>3, <1>7
  <2>5. PICK k \in Nat : k = h + 1
    BY <1>5
  <2>6. Slices(e, t, s, g, k) /\ (c \in up' => ((\E p \in Producers : Inside(p, c)') <=> Begun(t, s, g, k)))
    BY <2>3, <2>5, <1>7
  <2>7. Sliced(c, k)'
    BY <2>1, <2>4, <2>6, SlicedBy
  <2> QED  BY <2>5, <2>7
<1>9. ASSUME ~Fits(Head(wire[c]))  PROVE TooLong(c)
  <2>1. Head(w) \in Seq(Bytes)
    BY <1>1, <1>3, HeadTailProperties
  <2>2. Len(Head(w)) > ReadMax
    <3>1. Len(Head(w)) \in Nat
      BY <2>1
    <3> QED  BY <3>1, <1>3, <1>9, Lengths DEF Fits
  <2>3. g + 1 \in DOMAIN s /\ BodySize[s[g + 1]] > ReadMax
    BY <2>2, <1>7
  <2> QED  BY <2>3, <1>3 DEF TooLong
<1> QED  BY <1>5, <1>8, <1>9

LEMMA SliceGet ==
  ASSUME TypeOK, local, NEW c \in Conns, GetMqMsg(c), NEW h \in 0 .. 2, Sliced(c, h)
  PROVE  /\ Sliced(c, 0)'
         /\ \E m \in Msgs : got' = [got EXCEPT ![c] = Append(@, m)]
               /\ Len(got[c]) < Len(sent[c]) /\ sent[c][Len(got[c]) + 1] = m
<1>1. PICK m \in Msgs : /\ StartsWith(buffer[c], Frame(m))
                        /\ got' = [got EXCEPT ![c] = Append(@, m)] /\ Skip(c, Len(Frame(m)))
  BY DEF GetMqMsg
<1>2. sent' = sent /\ wire' = wire /\ up' = up /\ pc' = pc /\ on' = on /\ cur' = cur
  BY DEF GetMqMsg, producers
<1>3. PICK b \in Seq(Bytes), w \in Seq(Seq(Bytes)), s \in Seq(Msgs), g \in Nat :
            /\ b = buffer[c] /\ w = wire[c] /\ s = sent[c] /\ g = Len(got[c])
            /\ Slices(b, w, s, g, h)
            /\ c \in up => ((\E p \in Producers : Inside(p, c)) <=> Begun(w, s, g, h))
            /\ \A p \in Producers : c \in up /\ Inside(p, c) => SizeIn(b, w, cur[p])
  BY SlicedFacts, Zenon
<1>4. h = 2 /\ m = s[g + 1]
  BY <1>1, <1>3, SlicesFrame, ZenonT(60)
<1>5. Slices(b, w, s, g, 2)
  BY <1>3, <1>4
<1>6. /\ g < Len(s) /\ g + 1 \in DOMAIN s /\ s[g + 1] \in Msgs /\ b = Frame(s[g + 1])
      /\ Slices(<<>>, w, s, g + 1, 0)
      /\ Begun(w, s, g + 1, 0) <=> Begun(w, s, g, 2)
      /\ \A y \in Msgs : \A e : Begun(w, s, g, 2) /\ SizeIn(b, w, y) => SizeIn(e, w, y)
  BY <1>5, SlicesTake, Zenon
<1>7. buffer'[c] = <<>>
  <2>1. buffer \in [Conns -> Seq(Bytes)] /\ b = Frame(m)
    BY <1>4, <1>6 DEF TypeOK
  <2>2. buffer'[c] = SubSeq(b, Len(b) + 1, Len(b))
    BY <2>1, <1>1, <1>3 DEF Skip
  <2>3. Len(b) \in Nat /\ Len(b) <= Len(b)
    OBVIOUS
  <2>4. PICK t : t = SubSeq(b, Len(b) + 1, Len(b))
    OBVIOUS
  <2>5. t \in Seq(Bytes) /\ Len(t) = Len(b) - Len(b)
    BY <2>3, <2>4, Dropped
  <2>6. Len(t) = 0
    BY <2>3, <2>5
  <2> QED  BY <2>2, <2>4, <2>5, <2>6, EmptySeq
<1>8. wire'[c] = w /\ sent'[c] = s
  BY <1>2, <1>3
<1>9. PICK k \in Nat : k = g + 1
  OBVIOUS
<1>10. Len(got'[c]) = k
  <2>1. got \in [Conns -> Seq(Msgs \cup {None})] /\ got[c] \in Seq(Msgs \cup {None})
    BY DEF TypeOK
  <2>2. got'[c] = Append(got[c], m)
    BY <1>1, <2>1
  <2>3. Len(got'[c]) = Len(got[c]) + 1
    BY <2>1, <2>2, AppendProperties
  <2> QED  BY <2>3, <1>3, <1>9
<1>11. Slices(<<>>, w, s, k, 0) /\ (Begun(w, s, k, 0) <=> Begun(w, s, g, 2))
  BY <1>6, <1>9
<1>12. \A p \in Producers : (Inside(p, c)' <=> Inside(p, c)) /\ (Inside(p, c) => cur[p] \in Msgs)
  BY <1>2, HasMessage DEF Inside
<1>13. c \in up' => ((\E p \in Producers : Inside(p, c)') <=> Begun(w, s, k, 0))
  BY <1>2, <1>3, <1>4, <1>11, <1>12
<1>14. \A p \in Producers : c \in up' /\ Inside(p, c)' => SizeIn(<<>>, w, cur'[p])
  BY <1>2, <1>3, <1>4, <1>6, <1>12
<1>15. Sliced(c, 0)'
  BY <1>7, <1>8, <1>10, <1>11, <1>13, <1>14, SlicedBy
<1> QED  BY <1>1, <1>3, <1>4, <1>6, <1>15

\* Nothing is taken for a message that is none.
LEMMA SliceNotGarbled ==
  ASSUME TypeOK, local, NEW c \in Conns, NEW h \in 0 .. 2, Sliced(c, h)
  PROVE  ~Garbled(c)
<1>1. PICK b \in Seq(Bytes), w \in Seq(Seq(Bytes)), s \in Seq(Msgs), g \in Nat :
            b = buffer[c] /\ w = wire[c] /\ s = sent[c] /\ g = Len(got[c]) /\ Slices(b, w, s, g, h)
  BY SlicedFacts
<1>2. Slices(buffer[c], w, s, g, h)
  BY <1>1
<1>3. Incomplete(c) \/ \E m \in Msgs : StartsWith(buffer[c], Frame(m))
  BY <1>2, SlicesWait
<1> QED  BY <1>3 DEF Garbled

LEMMA SliceStep ==
  TypeOK /\ AloneInv /\ SliceInv /\ [Next]_vars => SliceInv'
<1> SUFFICES ASSUME TypeOK, AloneInv, SliceInv, [Next]_vars, local'
             PROVE  /\ \A c \in Conns : \A i \in DOMAIN wire'[c] : \E m \in Msgs : wire'[c][i] \in {Size(m), Body(m)}
                    /\ \A c \in Conns : reader'[c] = "on" /\ ~mixed'[c] => \E h \in 0 .. 2 : Sliced(c, h)'
  BY DEF SliceInv
<1>t. /\ pc \in [Producers -> {"idle", "size", "body", "retry"}] /\ on \in [Producers -> Conns]
      /\ cur \in [Producers -> Msgs \cup {None}] /\ mixed \in [Conns -> BOOLEAN] /\ up \subseteq Conns
      /\ reader \in [Conns -> {"on", "stuck", "gone"}]
      /\ sent \in [Conns -> Seq(Msgs)] /\ got \in [Conns -> Seq(Msgs \cup {None})] /\ buffer \in [Conns -> Seq(Bytes)]
  BY DEF TypeOK
<1>l. local' = local
  BY DEF Next, Write, Take, WriteSize, WriteBody, WritePart, WriteFails, Retry, Break, Connect,
         ReadMqMsg, Read, ReadSlice, ReadFails, GetMqMsg, Garbled, vars, producers
<1>w. wire \in [Conns -> Seq(Seq(Bytes))] /\ local
  BY <1>l DEF TypeOK
<1>i. /\ \A c \in Conns : \A i \in DOMAIN wire[c] : \E m \in Msgs : wire[c][i] \in {Size(m), Body(m)}
      /\ \A c \in Conns : reader[c] = "on" /\ ~mixed[c] => \E h \in 0 .. 2 : Sliced(c, h)
  BY <1>w DEF SliceInv
<1>1. \A c \in Conns : \A i \in DOMAIN wire'[c] : \E m \in Msgs : wire'[c][i] \in {Size(m), Body(m)}
  <2>1. ASSUME NEW p \in Producers, WriteSize(p) \/ WriteBody(p), NEW c \in Conns, NEW i \in DOMAIN wire'[c]
        PROVE  \E m \in Msgs : wire'[c][i] \in {Size(m), Body(m)}
    <3>1. PICK m \in Msgs : m = cur[p]
      BY <2>1, HasMessage DEF WriteSize, WriteBody
    <3>2. PICK x \in Seq(Bytes) : x \in {Size(m), Body(m)} /\ wire' = [wire EXCEPT ![on[p]] = wire[on[p]] \o <<x>>]
      BY <2>1, <3>1, <1>w, FrameParts DEF WriteSize, WriteBody, Put
    <3>3. CASE c # on[p]
      BY <3>2, <3>3, <1>w, <1>i
    <3>4. CASE c = on[p]
      <4>1. PICK w \in Seq(Seq(Bytes)) : w = wire[c]
        BY <1>w
      <4>2. wire'[c] = w \o <<x>>
        BY <3>2, <3>4, <4>1, <1>w
      <4>3. /\ DOMAIN wire'[c] = 1 .. Len(w) + 1 /\ wire'[c][Len(w) + 1] = x
            /\ \A j \in 1 .. Len(w) : wire'[c][j] = w[j]
        BY <4>2, Appended
      <4>4. i = Len(w) + 1 \/ i \in 1 .. Len(w)
        BY <2>1, <4>3
      <4>5. \A j \in 1 .. Len(w) : \E y \in Msgs : w[j] \in {Size(y), Body(y)}
        BY <4>1, <1>i
      <4> QED  BY <4>3, <4>4, <4>5, <3>2
    <3> QED  BY <3>3, <3>4
  <2>2. ASSUME NEW e \in Conns, ReadSlice(e), NEW c \in Conns, NEW i \in DOMAIN wire'[c]
        PROVE  \E m \in Msgs : wire'[c][i] \in {Size(m), Body(m)}
    <3>1. wire[e] # <<>> /\ wire' = [wire EXCEPT ![e] = Tail(wire[e])]
      BY <2>2 DEF ReadSlice
    <3>2. CASE c # e
      BY <3>1, <3>2, <2>2, <1>w, <1>i
    <3>3. CASE c = e
      <4>1. PICK w \in Seq(Seq(Bytes)) : w = wire[c] /\ w # <<>>
        BY <3>1, <3>3, <1>w
      <4>2. wire'[c] = Tail(w)
        BY <3>1, <3>3, <4>1, <1>w
      <4>3. Tail(w) \in Seq(Seq(Bytes)) /\ Len(Tail(w)) = Len(w) - 1 /\ \A j \in 1 .. Len(w) - 1 : Tail(w)[j] = w[j + 1]
        BY <4>1, HeadTailProperties
      <4>4. i \in 1 .. Len(w) - 1
        BY <2>2, <4>2, <4>3
      <4>5. PICK j \in 1 .. Len(w) : j = i + 1
        <5>1. Len(w) \in Nat
          BY <4>1
        <5>2. i + 1 \in 1 .. Len(w)
          BY <4>4, <5>1
        <5> QED  BY <5>2
      <4>6. wire'[c][i] = wire[c][j] /\ j \in DOMAIN wire[c]
        BY <4>1, <4>2, <4>3, <4>4, <4>5
      <4> QED  BY <4>6, <1>i
    <3> QED  BY <3>2, <3>3
  <2>3. ASSUME NEW e \in Conns, Break(e)  PROVE wire' = wire
    <3>1. wire' = [wire EXCEPT ![e] = SubSeq(wire[e], 1, Len(wire[e]))]
      BY <2>3, <1>w DEF Break
    <3>2. PICK w \in Seq(Seq(Bytes)) : w = wire[e]
      BY <1>w
    <3>3. SubSeq(w, 1, Len(w)) = w
      BY StartsSelf DEF StartsWith
    <3> QED  BY <3>1, <3>2, <3>3, <1>w
  <2>4. ASSUME NEW e \in Conns, ReadFails(e) \/ GetMqMsg(e) \/ Garbled(e)  PROVE wire' = wire
    BY <2>4 DEF ReadFails, GetMqMsg, Garbled
  <2>5. ASSUME NEW p \in Producers, (\E m \in Msgs : Take(p, m)) \/ WriteFails(p) \/ Retry(p)  PROVE wire' = wire
    BY <2>5 DEF Take, WriteFails, Retry
  <2>6. Connect \/ UNCHANGED vars => wire' = wire
    BY DEF Connect, vars
  <2>7. wire' = wire => \A c \in Conns : \A i \in DOMAIN wire'[c] : \E m \in Msgs : wire'[c][i] \in {Size(m), Body(m)}
    BY <1>i
  <2>8. \A p \in Producers : ~WritePart(p)
    BY <1>w DEF WritePart
  <2>9. \A e \in Conns : ~Read(e)
    BY <1>w DEF Read
  <2> QED  BY <2>1, <2>2, <2>3, <2>4, <2>5, <2>6, <2>7, <2>8, <2>9 DEF Next, Write, ReadMqMsg
<1>2. ASSUME NEW c \in Conns, reader'[c] = "on", ~mixed'[c]  PROVE \E h \in 0 .. 2 : Sliced(c, h)'
  <2>f. reader[c] = "on" /\ ~mixed[c] => \E h \in 0 .. 2 : Sliced(c, h)
    BY <1>i
  <2>s. ASSUME reader'[c] = "on" => reader[c] = "on", mixed[c] => mixed'[c],
               buffer'[c] = buffer[c], wire'[c] = wire[c], sent'[c] = sent[c], got'[c] = got[c],
               c \in up' => /\ c \in up
                            /\ \A p \in Producers : (Inside(p, c)' <=> Inside(p, c)) /\ (Inside(p, c) => cur'[p] = cur[p])
        PROVE  \E h \in 0 .. 2 : Sliced(c, h)'
    <3>1. PICK h \in 0 .. 2 : Sliced(c, h)
      BY <2>s, <2>f, <1>2
    <3>2. Sliced(c, h)'
      BY <3>1, <2>s, <1>w, SlicedSame
    <3> QED  BY <3>2
  <2>1. ASSUME NEW p \in Producers, NEW m \in Msgs, Take(p, m)  PROVE \E h \in 0 .. 2 : Sliced(c, h)'
    <3>1. /\ UNCHANGED <<local, up, wire, buffer, reader, sent, got, mixed>>
          /\ pc[p] = "idle" /\ pc' = [pc EXCEPT ![p] = "size"] /\ cur' = [cur EXCEPT ![p] = m]
          /\ on' = [on EXCEPT ![p] = current]
      BY <2>1 DEF Take
    <3>2. \A q \in Producers : (Inside(q, c)' <=> Inside(q, c)) /\ (Inside(q, c) => cur'[q] = cur[q])
      BY <3>1, <1>t DEF Inside
    <3> QED  BY <3>1, <3>2, <2>s
  <2>2. ASSUME NEW p \in Producers, WriteSize(p) \/ WriteBody(p)  PROVE \E h \in 0 .. 2 : Sliced(c, h)'
    <3>1. UNCHANGED <<on, buffer, reader, got, up>> /\ (mixed[c] => mixed'[c])
      BY <2>2, <1>t DEF WriteSize, WriteBody
    <3>2. CASE c = on[p]
      <4>1. PICK h \in 0 .. 2 : Sliced(c, h)
        BY <3>1, <2>f, <1>2
      <4>2. Sliced(c, h)'
        BY <4>1, <3>2, <2>2, <1>2, <1>w, SliceWrite
      <4> QED  BY <4>2
    <3>3. CASE c # on[p]
      <4>1. pc' = [pc EXCEPT ![p] = pc'[p]] /\ cur' = [cur EXCEPT ![p] = cur'[p]] /\ sent'[c] = sent[c] /\ wire'[c] = wire[c]
        BY <3>3, <2>2, <1>t, <1>w DEF WriteSize, WriteBody, Written, Put
      <4>2. \A q \in Producers : (Inside(q, c)' <=> Inside(q, c)) /\ (Inside(q, c) => cur'[q] = cur[q])
        BY <4>1, <3>1, <3>3, <1>t DEF Inside
      <4> QED  BY <3>1, <4>1, <4>2, <2>s
    <3> QED  BY <3>2, <3>3
  <2>3. ASSUME NEW p \in Producers, WriteFails(p) \/ Retry(p)  PROVE \E h \in 0 .. 2 : Sliced(c, h)'
    <3>1. UNCHANGED <<local, cur, up, wire, buffer, reader, sent, got, mixed>>
      BY <2>3 DEF WriteFails, Retry
    <3>2. c \in up' => \A q \in Producers : (Inside(q, c)' <=> Inside(q, c)) /\ (Inside(q, c) => cur'[q] = cur[q])
      <4>1. CASE WriteFails(p)
        BY <3>1, <4>1, <1>t DEF Inside, WriteFails
      <4>2. CASE Retry(p)
        BY <3>1, <4>2, <1>t DEF Inside, Retry, Restart
      <4> QED  BY <2>3, <4>1, <4>2
    <3> QED  BY <3>1, <3>2, <2>s
  <2>4. ASSUME UNCHANGED <<pc, cur, on, sent, mixed>>, reader'[c] = "on" => reader[c] = "on", up' \subseteq up,
               buffer'[c] = buffer[c], wire'[c] = wire[c], got'[c] = got[c]
        PROVE  \E h \in 0 .. 2 : Sliced(c, h)'
    <3>1. \A q \in Producers : (Inside(q, c)' <=> Inside(q, c)) /\ (Inside(q, c) => cur'[q] = cur[q])
      BY <2>4 DEF Inside
    <3> QED  BY <3>1, <2>4, <2>s
  <2>5. ASSUME Connect \/ UNCHANGED vars  PROVE \E h \in 0 .. 2 : Sliced(c, h)'
    <3>1. UNCHANGED <<pc, cur, on, sent, mixed, reader, up, buffer, wire, got>>
      BY <2>5 DEF Connect, vars, producers
    <3> QED  BY <3>1, <2>4
  <2>6. ASSUME NEW e \in Conns, Break(e)  PROVE \E h \in 0 .. 2 : Sliced(c, h)'
    <3>1. UNCHANGED <<pc, cur, on, sent, mixed, reader, buffer, got>> /\ up' \subseteq up
      BY <2>6 DEF Break, producers
    <3>2. wire' = [wire EXCEPT ![e] = SubSeq(wire[e], 1, Len(wire[e]))]
      BY <2>6, <1>w DEF Break
    <3>3. PICK w \in Seq(Seq(Bytes)) : w = wire[e]
      BY <1>w
    <3>4. SubSeq(w, 1, Len(w)) = w
      BY StartsSelf DEF StartsWith
    <3>5. wire'[c] = wire[c]
      BY <3>2, <3>3, <3>4, <1>w
    <3> QED  BY <3>1, <3>5, <2>4
  <2>7. ASSUME NEW e \in Conns, ReadFails(e)  PROVE \E h \in 0 .. 2 : Sliced(c, h)'
    BY <2>7, <1>w DEF ReadFails
  <2>8. ASSUME NEW e \in Conns, ReadSlice(e)  PROVE \E h \in 0 .. 2 : Sliced(c, h)'
    <3>1. UNCHANGED <<pc, cur, on, sent, mixed, up, got>> /\ (reader'[c] = "on" => reader[c] = "on")
      BY <2>8, <1>t DEF ReadSlice, producers
    <3>2. CASE c = e
      <4>1. PICK h \in 0 .. 2 : Sliced(c, h)
        BY <3>1, <2>f, <1>2
      <4>2. Fits(Head(wire[c]))
        BY <3>2, <2>8, <1>2, <1>t DEF ReadSlice
      <4>3. h \in 0 .. 1 /\ Sliced(c, h + 1)'
        BY <4>1, <4>2, <3>2, <2>8, <1>w, SliceRead
      <4>4. h + 1 \in 0 .. 2
        BY <4>3
      <4> QED  BY <4>3, <4>4
    <3>3. CASE c # e
      <4>1. buffer'[c] = buffer[c] /\ wire'[c] = wire[c]
        BY <3>3, <2>8, <1>t, <1>w DEF ReadSlice
      <4> QED  BY <3>1, <4>1, <2>4
    <3> QED  BY <3>2, <3>3
  <2>9. ASSUME NEW e \in Conns, GetMqMsg(e)  PROVE \E h \in 0 .. 2 : Sliced(c, h)'
    <3>1. UNCHANGED <<pc, cur, on, sent, mixed, up, reader, wire>>
      BY <2>9 DEF GetMqMsg, producers
    <3>2. CASE c = e
      <4>1. PICK h \in 0 .. 2 : Sliced(c, h)
        BY <3>1, <2>f, <1>2
      <4>2. Sliced(c, 0)'
        BY <4>1, <3>2, <2>9, <1>w, SliceGet
      <4>3. 0 \in 0 .. 2
        OBVIOUS
      <4> QED  BY <4>2, <4>3
    <3>3. CASE c # e
      <4>1. got'[c] = got[c] /\ buffer'[c] = buffer[c]
        BY <3>3, <2>9, <1>t DEF GetMqMsg, Skip
      <4> QED  BY <3>1, <4>1, <2>4
    <3> QED  BY <3>2, <3>3
  <2>10. ASSUME NEW e \in Conns, Garbled(e)  PROVE \E h \in 0 .. 2 : Sliced(c, h)'
    <3>1. UNCHANGED <<pc, cur, on, sent, mixed, wire>> /\ reader[e] = "on"
      BY <2>10 DEF Garbled, producers
    <3>2. c # e
      <4> SUFFICES ASSUME c = e  PROVE FALSE
        OBVIOUS
      <4>1. PICK h \in 0 .. 2 : Sliced(c, h)
        BY <3>1, <2>f, <1>2
      <4> QED  BY <4>1, <2>10, <1>w, SliceNotGarbled
    <3>3. up' \subseteq up /\ buffer'[c] = buffer[c] /\ got'[c] = got[c] /\ reader'[c] = reader[c]
      BY <2>10, <1>t, <3>2 DEF Garbled, Skip
    <3> QED  BY <3>1, <3>3, <2>4
  <2>11. (\A p \in Producers : ~WritePart(p)) /\ \A e \in Conns : ~Read(e)
    BY <1>w DEF WritePart, Read
  <2> QED
    BY <2>1, <2>2, <2>3, <2>5, <2>6, <2>7, <2>8, <2>9, <2>10, <2>11 DEF Next, Write, ReadMqMsg
<1> QED  BY <1>1, <1>2

-----------------------------------------------------------------------------
(* The messages read are the first of those written.                       *)
LEMMA PrefixSame ==
  ASSUME PrefixInv, NEW c \in Conns, mixed[c] => mixed'[c], sent'[c] = sent[c], got'[c] = got[c], local' = local,
         reader'[c] = "stuck" => reader[c] = "stuck", ~mixed'[c]
  PROVE  StartsWith(sent'[c], got'[c]) /\ (reader'[c] = "stuck" => TooLong(c)')
  BY DEF PrefixInv, TooLong

LEMMA PrefixStep ==
  TypeOK /\ OwnInv /\ CopyInv /\ FrameInv /\ SliceInv /\ PrefixInv /\ [Next]_vars => PrefixInv'
<1> SUFFICES ASSUME TypeOK, OwnInv, CopyInv, FrameInv, SliceInv, PrefixInv, [Next]_vars, NEW c \in Conns, ~mixed'[c]
             PROVE  StartsWith(sent'[c], got'[c]) /\ (reader'[c] = "stuck" => TooLong(c)')
  BY DEF PrefixInv, StartsWith
<1>t. /\ mixed \in [Conns -> BOOLEAN] /\ reader \in [Conns -> {"on", "stuck", "gone"}]
      /\ sent \in [Conns -> Seq(Msgs)] /\ got \in [Conns -> Seq(Msgs \cup {None})]
  BY DEF TypeOK
<1>f. ~local /\ reader[c] = "on" /\ ~mixed[c] => Framed(c)
  BY DEF FrameInv
<1>s. local /\ reader[c] = "on" /\ ~mixed[c] => \E h \in 0 .. 2 : Sliced(c, h)
  BY DEF SliceInv
<1>1. ASSUME NEW p \in Producers,
             (\E m \in Msgs : Take(p, m)) \/ WriteSize(p) \/ WritePart(p) \/ WriteFails(p) \/ Retry(p)
      PROVE  StartsWith(sent'[c], got'[c]) /\ (reader'[c] = "stuck" => TooLong(c)')
  <2>1. UNCHANGED <<local, sent, got, reader>> /\ (mixed[c] => mixed'[c])
    BY <1>1, <1>t DEF Take, WriteSize, WritePart, WriteFails, Retry
  <2> QED  BY <2>1, PrefixSame
<1>2. ASSUME NEW e \in Conns, Break(e) \/ Read(e) \/ ReadFails(e)
      PROVE  StartsWith(sent'[c], got'[c]) /\ (reader'[c] = "stuck" => TooLong(c)')
  <2>1. UNCHANGED <<local, sent, got, mixed>> /\ (reader'[c] = "stuck" => reader[c] = "stuck")
    BY <1>2, <1>t DEF Break, Read, ReadFails, producers
  <2> QED  BY <2>1, PrefixSame
<1>3. ASSUME Connect \/ UNCHANGED vars
      PROVE  StartsWith(sent'[c], got'[c]) /\ (reader'[c] = "stuck" => TooLong(c)')
  <2>1. UNCHANGED <<local, sent, got, mixed, reader>>
    BY <1>3 DEF Connect, vars, producers
  <2> QED  BY <2>1, PrefixSame
<1>4. ASSUME NEW p \in Producers, WriteBody(p)
      PROVE  StartsWith(sent'[c], got'[c]) /\ (reader'[c] = "stuck" => TooLong(c)')
  <2>1. UNCHANGED <<local, got, mixed, reader>> /\ sent' = [sent EXCEPT ![on[p]] = Append(sent[on[p]], cur[p])]
    BY <1>4 DEF WriteBody
  <2>2. CASE c # on[p]
    BY <2>1, <2>2, <1>t, PrefixSame
  <2>3. CASE c = on[p]
    <3>1. PICK m \in Msgs, s \in Seq(Msgs), t \in Seq(Msgs \cup {None}) : m = cur[p] /\ s = sent[c] /\ t = got[c]
      BY <1>4, <1>t, HasMessage DEF WriteBody
    <3>2. sent'[c] = Append(s, m) /\ got'[c] = t
      BY <2>1, <2>3, <3>1, <1>t
    <3>3. StartsWith(s, t) /\ (reader[c] = "stuck" => TooLong(c))
      BY <2>1, <3>1 DEF PrefixInv
    <3>4. StartsWith(Append(s, m), t)
      BY <3>3, PrefixGrow
    <3>5. ASSUME reader'[c] = "stuck"  PROVE TooLong(c)'
      <4>1. local /\ \E i \in DOMAIN s : BodySize[s[i]] > ReadMax
        BY <3>5, <3>3, <3>1, <2>1 DEF TooLong
      <4>2. PICK i \in DOMAIN s : BodySize[s[i]] > ReadMax
        BY <4>1
      <4>3. i \in DOMAIN Append(s, m) /\ Append(s, m)[i] = s[i]
        <5>1. PICK u : u = Append(s, m)
          OBVIOUS
        <5>2. u \in Seq(Msgs) /\ Len(u) = Len(s) + 1 /\ \A j \in 1 .. Len(s) : u[j] = s[j]
          BY <5>1, AppendProperties
        <5>3. i \in 1 .. Len(s) /\ Len(s) \in Nat
          OBVIOUS
        <5> QED  BY <5>1, <5>2, <5>3
      <4> QED  BY <4>1, <4>2, <4>3, <3>2, <2>1 DEF TooLong
    <3> QED  BY <3>2, <3>4, <3>5
  <2> QED  BY <2>2, <2>3
<1>5. ASSUME NEW e \in Conns, ReadSlice(e)
      PROVE  StartsWith(sent'[c], got'[c]) /\ (reader'[c] = "stuck" => TooLong(c)')
  <2>1. UNCHANGED <<local, sent, got, mixed>> /\ local /\ reader[e] = "on"
    BY <1>5 DEF ReadSlice, producers
  <2>2. StartsWith(sent'[c], got'[c])
    BY <2>1 DEF PrefixInv
  <2>3. ASSUME reader'[c] = "stuck"  PROVE TooLong(c)'
    <3>1. CASE reader[c] = "stuck"
      BY <3>1, <2>1 DEF PrefixInv, TooLong
    <3>2. CASE reader[c] # "stuck"
      <4>1. c = e /\ ~Fits(Head(wire[c]))
        BY <3>2, <2>3, <1>5, <1>t DEF ReadSlice
      <4>2. PICK h \in 0 .. 2 : Sliced(c, h)
        BY <4>1, <2>1, <1>s
      <4>3. TooLong(c)
        BY <4>1, <4>2, <2>1, <1>5, SliceRead
      <4> QED  BY <4>3, <2>1 DEF TooLong
    <3> QED  BY <3>1, <3>2
  <2> QED  BY <2>2, <2>3
<1>6. ASSUME NEW e \in Conns, GetMqMsg(e)
      PROVE  StartsWith(sent'[c], got'[c]) /\ (reader'[c] = "stuck" => TooLong(c)')
  <2>1. UNCHANGED <<local, sent, mixed, reader>> /\ reader[e] = "on"
    BY <1>6 DEF GetMqMsg, producers
  <2>2. CASE c # e
    <3>1. got'[c] = got[c]
      BY <2>2, <1>6, <1>t DEF GetMqMsg
    <3> QED  BY <2>1, <3>1, PrefixSame
  <2>3. CASE c = e
    <3>1. PICK m \in Msgs : got' = [got EXCEPT ![c] = Append(@, m)]
               /\ Len(got[c]) < Len(sent[c]) /\ sent[c][Len(got[c]) + 1] = m
      <4>1. CASE local
        <5>1. PICK h \in 0 .. 2 : Sliced(c, h)
          BY <4>1, <2>1, <2>3, <1>s
        <5> QED  BY <4>1, <5>1, <2>3, <1>6, SliceGet
      <4>2. CASE ~local
        BY <4>2, <2>1, <2>3, <1>f, <1>6, FrameGet
      <4> QED  BY <4>1, <4>2
    <3>2. PICK s \in Seq(Msgs), t \in Seq(Msgs \cup {None}) : s = sent[c] /\ t = got[c]
      BY <1>t
    <3>3. got'[c] = Append(t, s[Len(t) + 1]) /\ Len(t) < Len(s)
      BY <3>1, <3>2, <1>t
    <3>4. StartsWith(s, t)
      BY <2>1, <3>2 DEF PrefixInv
    <3>5. StartsWith(s, Append(t, s[Len(t) + 1]))
      BY <3>3, <3>4, PrefixNext
    <3>6. reader'[c] = "stuck" => TooLong(c)'
      BY <2>1 DEF PrefixInv, TooLong
    <3> QED  BY <3>2, <3>3, <3>5, <3>6, <2>1
  <2> QED  BY <2>2, <2>3
<1>7. ASSUME NEW e \in Conns, Garbled(e)
      PROVE  StartsWith(sent'[c], got'[c]) /\ (reader'[c] = "stuck" => TooLong(c)')
  <2>1. UNCHANGED <<local, sent, mixed>> /\ reader[e] = "on"
    BY <1>7 DEF Garbled, producers
  <2>2. c # e
    <3> SUFFICES ASSUME c = e  PROVE FALSE
      OBVIOUS
    <3>1. CASE local
      <4>1. PICK h \in 0 .. 2 : Sliced(c, h)
        BY <3>1, <2>1, <1>s
      <4> QED  BY <3>1, <4>1, <1>7, SliceNotGarbled
    <3>2. CASE ~local
      BY <3>2, <2>1, <1>f, <1>7, NotGarbled
    <3> QED  BY <3>1, <3>2
  <2>3. got'[c] = got[c] /\ reader'[c] = reader[c]
    BY <2>2, <1>7, <1>t DEF Garbled
  <2> QED  BY <2>1, <2>3, PrefixSame
<1> QED  BY <1>1, <1>2, <1>3, <1>4, <1>5, <1>6, <1>7 DEF Next, Write, ReadMqMsg

-----------------------------------------------------------------------------
(* The theorems.                                                           *)
LEMMA FInit == Init => FInv
<1> SUFFICES ASSUME Init  PROVE FInv
  OBVIOUS
<1>1. /\ todo = Msgs /\ pc = [p \in Producers |-> "idle"] /\ cur = [p \in Producers |-> None]
      /\ wire = [c \in Conns |-> <<>>] /\ buffer = [c \in Conns |-> <<>>] /\ reader = [c \in Conns |-> "on"]
      /\ sent = [c \in Conns |-> <<>>] /\ got = [c \in Conns |-> <<>>]
  BY DEF Init
<1>2. OwnInv
  BY <1>1, Lengths DEF OwnInv
<1>3. CopyInv
  BY CopyInit
<1>4. \A p \in Producers, c \in Conns : ~Inside(p, c)
  BY <1>1 DEF Inside
<1>5. AloneInv
  BY <1>4 DEF AloneInv
<1>6. ASSUME NEW c \in Conns  PROVE Framed(c)
  <2>1. Rest(c) = <<>> /\ sent[c] = <<>> /\ got[c] = <<>>
    BY <1>1, ConcatEmptySeq DEF Rest
  <2>2. Chain(Rest(c), sent[c], Len(got[c]))
    BY <2>1 DEF Chain, Runs, Begins, Follows
  <2>3. EndsAt(Rest(c), sent[c], Len(got[c]), Len(Rest(c)))
    BY <2>1 DEF EndsAt
  <2> QED  BY <2>2, <2>3, <1>4 DEF Framed
<1>7. ASSUME NEW c \in Conns  PROVE Sliced(c, 0)
  <2>1. buffer[c] = <<>> /\ wire[c] = <<>> /\ sent[c] = <<>> /\ Len(got[c]) = 0 /\ Len(wire[c]) = 0 /\ Len(sent[c]) = 0
    BY <1>1
  <2>2. Ended(wire[c], sent[c], Len(got[c]), 0) /\ ~Begun(wire[c], sent[c], Len(got[c]), 0)
    BY <2>1 DEF Ended, Begun
  <2>3. Slices(buffer[c], wire[c], sent[c], Len(got[c]), 0)
    BY <2>1, <2>2 DEF Slices
  <2> QED  BY <2>2, <2>3, <1>4 DEF Sliced
<1>8. \A c \in Conns : StartsWith(sent[c], got[c]) /\ reader[c] # "stuck"
  <2> SUFFICES ASSUME NEW c \in Conns  PROVE StartsWith(sent[c], got[c]) /\ reader[c] # "stuck"
    OBVIOUS
  <2>1. sent[c] = <<>> /\ got[c] = <<>> /\ reader[c] = "on" /\ <<>> \in Seq(Msgs)
    BY <1>1
  <2> QED  BY <2>1, StartsSelf
<1>9. SliceInv
  <2>1. \A c \in Conns : DOMAIN wire[c] = {}
    BY <1>1
  <2> QED  BY <2>1, <1>7 DEF SliceInv
<1> QED  BY <1>2, <1>3, <1>5, <1>6, <1>8, <1>9 DEF FInv, FrameInv, PrefixInv

(* The invariant is inductive: the steps of OnWriteMqMsg, ReadMqMsg and    *)
(* getMqMsg keep whose a message is, where its end is, and the frames.     *)
THEOREM Invariance == Spec => [](TypeOK /\ FInv)
<1>1. Init => TypeOK /\ FInv
  BY TypeInit, FInit
<1>2. TypeOK /\ FInv /\ [Next]_vars => TypeOK' /\ FInv'
  BY TypeStep, OwnStep, CopyStep, AloneStep, FrameStep, SliceStep, PrefixStep DEF FInv
<1> QED  BY <1>1, <1>2, PTL DEF Spec

(* On a connection on which no frame was begun within another one, what    *)
(* ReadMqMsg returns is a beginning of what was written, and it waits for  *)
(* ever only behind a message too long for ConnChan.Read; no message is    *)
(* read twice, on whatever connections.                                    *)
THEOREM FramesArriveWhole == Spec => []FramesWhole
<1>1. TypeOK /\ FInv => FramesWhole
  <2> SUFFICES ASSUME TypeOK, FInv  PROVE FramesWhole
    OBVIOUS
  <2>1. \A c \in Conns : ~mixed[c] => StartsWith(sent[c], got[c]) /\ (reader[c] = "stuck" => TooLong(c))
    BY DEF FInv, PrefixInv
  <2>2. ASSUME NEW c \in Conns, NEW d \in Conns, NEW i \in DOMAIN got[c], NEW j \in DOMAIN got[d],
               got[c][i] = got[d][j], got[c][i] # None
        PROVE  c = d /\ i = j
    <3>1. got[c] \in Seq(Msgs \cup {None}) /\ got[d] \in Seq(Msgs \cup {None})
      BY DEF TypeOK
    <3>2. i \in Nat /\ j \in Nat /\ got[c][i] \in Msgs
      BY <3>1, <2>2
    <3>3. InGot(got[c][i], c, i) /\ InGot(got[c][i], d, j)
      BY <2>2 DEF InGot
    <3> QED  BY <3>2, <3>3 DEF FInv, CopyInv
  <2> QED  BY <2>1, <2>2 DEF FramesWhole
<1> QED  BY <1>1, Invariance, PTL
================================================================================
