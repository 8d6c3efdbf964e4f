------------------------------- MODULE MqStream -------------------------------
(***************************************************************************)
(* Messages on a connection of the message queue: how WriteMqMsg frames    *)
(* them and how ReadMqMsg finds them again (mq/mqConn.go, mq/vector.go).   *)
(*                                                                         *)
(* A message is its size in a few bytes and then its body, in two calls of *)
(* Write.  Each call is whole with regard to other calls (a net.TCPConn    *)
(* locks, a channel takes a slice), the two together are not: in the       *)
(* server, the client's own writer and the writers of all queues that have *)
(* found the client write to the same connection.  The reader appends what *)
(* Read returns to a buffer and takes messages off it.                     *)
(*                                                                         *)
(* A connection is a net.TCPConn, a stream of bytes, or a ConnChan         *)
(* (mq/conn.go) to a client in the same process, a channel of slices.  A   *)
(* producer whose Write fails starts again on the next connection it gets; *)
(* the readers of two connections do not know of each other.  The k-th     *)
(* byte of the frame of m is <<m, k>>.  A read that times out changes      *)
(* nothing, and is left out.                                               *)
(***************************************************************************)
EXTENDS Naturals, Sequences

CONSTANTS Producers, Msgs,
          HeaderSize,   \* bytes of the size (4)
          BodySize,     \* of each message
          ReadMax,      \* bytes of connBuffer (4096)
          CacheMax,     \* slices that Cache of a ConnChan holds (1000)
          MaxConns,     \* BOUND: connections in all; the last one does not break
          None

Conns == 1 .. MaxConns

ASSUME StreamAssumption ==
    /\ HeaderSize \in 1 .. ReadMax /\ {ReadMax, CacheMax, MaxConns} \subseteq Nat \ {0}
    /\ BodySize \in [Msgs -> Nat \ {0}]
    /\ None \notin Msgs

VARIABLES
    local,    \* the connections are ConnChans
    todo,     \* messages no producer has taken yet
    pc, cur, on,   \* of a producer: where it is, its message, its connection
    current,  \* the connection producers get
    up,       \* the connections that are not broken
    wire,     \* bytes on their way, or slices
    buffer,   \* v.buffer of the connection's reader
    reader,   \* "on", "stuck" waiting for what will not come, "gone"
    sent,     \* history: messages written, in order
    got,      \* history: messages read, in order
    mixed     \* history: a frame was begun within another one

producers == <<local, todo, pc, cur, on>>
vars == <<producers, current, up, wire, buffer, reader, sent, got, mixed>>

Frame(m) == [k \in 1 .. HeaderSize + BodySize[m] |-> <<m, k>>]
Size(m) == SubSeq(Frame(m), 1, HeaderSize)
Body(m) == SubSeq(Frame(m), HeaderSize + 1, HeaderSize + BodySize[m])

Init ==
    /\ local \in BOOLEAN /\ todo = Msgs
    /\ pc = [p \in Producers |-> "idle"]
    /\ cur = [p \in Producers |-> None] /\ on = [p \in Producers |-> 1]
    /\ current = 1 /\ up = Conns
    /\ wire = [c \in Conns |-> <<>>] /\ buffer = [c \in Conns |-> <<>>]
    /\ reader = [c \in Conns |-> "on"]
    /\ sent = [c \in Conns |-> <<>>] /\ got = [c \in Conns |-> <<>>]
    /\ mixed = [c \in Conns |-> FALSE]

-----------------------------------------------------------------------------
(* Writing.                                                                *)
\* OnWriteMqMsg: the next message, and the connection there is.
Take(p, m) ==
    /\ pc[p] = "idle" /\ m \in todo
    /\ todo' = todo \ {m}
    /\ cur' = [cur EXCEPT ![p] = m]
    /\ on' = [on EXCEPT ![p] = current]
    /\ pc' = [pc EXCEPT ![p] = "size"]
    /\ UNCHANGED <<local, current, up, wire, buffer, reader, sent, got, mixed>>

(* A stream takes the bytes, a channel the slice, when there is room.      *)
Put(p, bytes) ==
    /\ local => Len(wire[on[p]]) < CacheMax
    /\ wire' = [wire EXCEPT ![on[p]] = @ \o IF local THEN <<bytes>> ELSE bytes]

\* Another producer is between the size and the body of its message.
Within(p) == \E q \in Producers \ {p} : pc[q] = "body" /\ on[q] = on[p]

WriteSize(p) ==
    /\ pc[p] = "size" /\ on[p] \in up
    /\ Put(p, Size(cur[p]))
    /\ mixed' = [mixed EXCEPT ![on[p]] = @ \/ Within(p)]
    /\ pc' = [pc EXCEPT ![p] = "body"]
    /\ UNCHANGED <<local, todo, cur, on, current, up, buffer, reader, sent, got>>

Written(p) == pc' = [pc EXCEPT ![p] = "idle"] /\ cur' = [cur EXCEPT ![p] = None]

WriteBody(p) ==
    /\ pc[p] = "body" /\ on[p] \in up
    /\ Put(p, Body(cur[p]))
    /\ sent' = [sent EXCEPT ![on[p]] = Append(@, cur[p])]
    /\ Written(p)
    /\ UNCHANGED <<local, todo, on, current, up, buffer, reader, got, mixed>>

(* The connection breaks in the middle of a Write, of which some bytes may *)
(* arrive, or was broken before (a ConnChan closed: the panic of the send  *)
(* is made an error).                                                      *)
WritePart(p) ==
    /\ ~local /\ pc[p] \in {"size", "body"} /\ on[p] \in up /\ on[p] < MaxConns
    /\ LET bytes == IF pc[p] = "size" THEN Size(cur[p]) ELSE Body(cur[p])
       IN \E n \in 0 .. Len(bytes) - 1 : Put(p, SubSeq(bytes, 1, n))
    /\ up' = up \ {on[p]}
    /\ mixed' = [mixed EXCEPT ![on[p]] = @ \/ Within(p)]
    /\ pc' = [pc EXCEPT ![p] = "retry"]
    /\ UNCHANGED <<local, todo, cur, on, current, buffer, reader, sent, got>>

WriteFails(p) ==
    /\ pc[p] \in {"size", "body"} /\ on[p] \notin up
    /\ pc' = [pc EXCEPT ![p] = "retry"]
    /\ UNCHANGED <<local, todo, cur, on, current, up, wire, buffer, reader, sent, got, mixed>>

RetryAt(p) == "body"     \* mutant: the retry goes on where the write failed
Restart(p) == "size"

Retry(p) ==
    /\ pc[p] = "retry" /\ on[p] # current
    /\ on' = [on EXCEPT ![p] = current]
    /\ pc' = [pc EXCEPT ![p] = Restart(p)]
    /\ UNCHANGED <<local, todo, cur, current, up, wire, buffer, reader, sent, got, mixed>>

-----------------------------------------------------------------------------
(* Connections.                                                            *)
\* The bytes on their way are lost from some point on; or the producers' side
\* closes its ConnChan, and what is in it remains.
Break(c) ==
    /\ c \in up /\ c = current /\ c < MaxConns
    /\ up' = up \ {c}
    /\ \E n \in 0 .. Len(wire[c]) :
          /\ local => n = Len(wire[c])
          /\ wire' = [wire EXCEPT ![c] = SubSeq(@, 1, n)]
    /\ UNCHANGED <<producers, current, buffer, reader, sent, got, mixed>>

\* The producers find another client, or the peer comes back as a new one.
Connect ==
    /\ current \notin up /\ current < MaxConns
    /\ current' = current + 1
    /\ UNCHANGED <<producers, up, wire, buffer, reader, sent, got, mixed>>

-----------------------------------------------------------------------------
(* Reading.                                                                *)
StartsWith(s, t) == Len(t) <= Len(s) /\ SubSeq(s, 1, Len(t)) = t
Sized(c, m) == StartsWith(buffer[c], Size(m))
CheckMore(c, m) == Len(buffer[c]) > Len(Frame(m))    \* mutant: off by one
CheckSize(c, m) == Len(buffer[c]) >= Len(Frame(m))
Skip(c, n) == buffer' = [buffer EXCEPT ![c] = SubSeq(@, n + 1, Len(@))]

\* getMqMsg finds nothing it can decide on.
Incomplete(c) ==
    \/ Len(buffer[c]) < HeaderSize
    \/ \E m \in Msgs : Sized(c, m) /\ ~CheckSize(c, m)

(* Vector.Read: some of the bytes that have arrived, up to the size of     *)
(* connBuffer, or an error when there are no more.                         *)
Read(c) ==
    /\ ~local /\ reader[c] = "on" /\ Incomplete(c)
    /\ \E n \in 1 .. ReadMax :
          /\ n <= Len(wire[c])
          /\ buffer' = [buffer EXCEPT ![c] = @ \o SubSeq(wire[c], 1, n)]
          /\ wire' = [wire EXCEPT ![c] = SubSeq(@, n + 1, Len(@))]
    /\ UNCHANGED <<producers, current, up, reader, sent, got, mixed>>

Fits(slice) == Len(slice) <= ReadMax

(* ConnChan.Read: one slice, and its length although a longer one than     *)
(* connBuffer was not copied as a whole: connBuffer[:size] panics, and the *)
(* message that reads is lost, not to be sent again.                       *)
ReadSlice(c) ==
    LET slice == Head(wire[c]) IN
    /\ local /\ reader[c] = "on" /\ Incomplete(c) /\ wire[c] # <<>>
    /\ wire' = [wire EXCEPT ![c] = Tail(@)]
    /\ IF Fits(slice) THEN buffer' = [buffer EXCEPT ![c] = @ \o slice] /\ UNCHANGED reader
                      ELSE reader' = [reader EXCEPT ![c] = "stuck"] /\ UNCHANGED buffer
    /\ UNCHANGED <<producers, current, up, sent, got, mixed>>

\* A ConnChan that was closed never fails: it returns empty slices for ever.
ReadFails(c) ==
    /\ ~local
    /\ reader[c] = "on" /\ Incomplete(c) /\ c \notin up /\ wire[c] = <<>>
    /\ reader' = [reader EXCEPT ![c] = "gone"]
    /\ UNCHANGED <<producers, current, up, wire, buffer, sent, got, mixed>>

GetMqMsg(c) ==
    /\ reader[c] = "on"
    /\ \E m \in Msgs :
          /\ Sized(c, m) /\ CheckSize(c, m) /\ StartsWith(buffer[c], Frame(m))
          /\ got' = [got EXCEPT ![c] = Append(@, m)]
          /\ Skip(c, Len(Frame(m)))
    /\ UNCHANGED <<producers, current, up, wire, reader, sent, mixed>>

(* What is taken for a message is none: its size is some number, which may *)
(* never be reached, and its body is refused, or passes for a message.     *)
Garbled(c) ==
    /\ reader[c] = "on" /\ ~Incomplete(c)
    /\ \A m \in Msgs : ~StartsWith(buffer[c], Frame(m))
    /\ \/ /\ \A m \in Msgs : ~Sized(c, m)
          /\ reader' = [reader EXCEPT ![c] = "stuck"] /\ UNCHANGED <<buffer, got, up>>
       \/ /\ reader' = [reader EXCEPT ![c] = "gone"] /\ up' = up \ {c}
          /\ UNCHANGED <<buffer, got>>
       \/ /\ \E n \in HeaderSize + 1 .. Len(buffer[c]) :
                /\ \A m \in Msgs : Sized(c, m) => n = Len(Frame(m))
                /\ Skip(c, n)
          /\ got' = [got EXCEPT ![c] = Append(@, None)]
          /\ UNCHANGED <<reader, up>>
    /\ UNCHANGED <<producers, current, wire, sent, mixed>>

-----------------------------------------------------------------------------
Write(p) == WriteSize(p) \/ WriteBody(p) \/ WriteFails(p) \/ Retry(p)
ReadMqMsg(c) == Read(c) \/ ReadSlice(c) \/ ReadFails(c) \/ GetMqMsg(c) \/ Garbled(c)

Next ==
    \/ \E p \in Producers : Write(p) \/ WritePart(p) \/ \E m \in Msgs : Take(p, m)
    \/ \E c \in Conns : Break(c) \/ ReadMqMsg(c)
    \/ Connect

Spec == Init /\ [][Next]_vars

\* Writers and readers go on; a new connection is made.
FairSpec ==
    /\ Spec
    /\ \A p \in Producers : WF_vars(Write(p))
    /\ \A c \in Conns : WF_vars(ReadMqMsg(c))
    /\ WF_vars(Connect)

-----------------------------------------------------------------------------
(* Every variable has its type.                                            *)
Bytes == UNION {{<<m, k>> : k \in 1 .. Len(Frame(m))} : m \in Msgs}
TypeOK ==
    /\ local \in BOOLEAN /\ todo \subseteq Msgs
    /\ pc \in [Producers -> {"idle", "size", "body", "retry"}]
    /\ cur \in [Producers -> Msgs \cup {None}]
    /\ \A p \in Producers : cur[p] = None <=> pc[p] = "idle"
    /\ on \in [Producers -> Conns] /\ current \in Conns /\ up \subseteq Conns
    /\ wire \in [Conns -> IF local THEN Seq(Seq(Bytes)) ELSE Seq(Bytes)]
    /\ buffer \in [Conns -> Seq(Bytes)]
    /\ reader \in [Conns -> {"on", "stuck", "gone"}]
    /\ sent \in [Conns -> Seq(Msgs)] /\ got \in [Conns -> Seq(Msgs \cup {None})]
    /\ mixed \in [Conns -> BOOLEAN]

\* A message longer than a read was written to a ConnChan.
TooLong(c) == local /\ \E i \in DOMAIN sent[c] : BodySize[sent[c][i]] > ReadMax

(* Unless a frame was begun within another one, the messages read from a   *)
(* connection are the first of those written to it, in order, however the  *)
(* bytes were cut up, and the reader is never stuck, but on a message too  *)
(* long for ConnChan.Read; and no message is read twice, although a        *)
(* producer starts again after an error and the reader of the broken       *)
(* connection still reads.                                                 *)
FramesWhole ==
    /\ \A c \in Conns : ~mixed[c] =>
          /\ StartsWith(sent[c], got[c])
          /\ reader[c] = "stuck" => TooLong(c)
    /\ \A c, d \in Conns : \A i \in DOMAIN got[c], j \in DOMAIN got[d] :
          got[c][i] = got[d][j] /\ got[c][i] # None => c = d /\ i = j

(* What was written is read in the end, if the connection stands, no frame *)
(* was begun within another one, and every message could be read.          *)
Arrives ==
    <>[](\A c \in Conns : c \in up /\ ~mixed[c] /\ ~TooLong(c) => got[c] = sent[c])
==============================================================================
