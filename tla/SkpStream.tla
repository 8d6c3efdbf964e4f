------------------------------- MODULE SkpStream -------------------------------
(***************************************************************************)
(* The bytes of one connection of skpProxy, skpRoute or skpMonitor, from   *)
(* the peer to the socket they are passed on to: SkpRead, the run loop and *)
(* SkpWriteChan of skpTcpSocket.go, the heads of skpProtocol.go.           *)
(*                                                                         *)
(* SkpRead appends what it reads to Datas and pushes each packet that is   *)
(* whole to ReadChan, not as a copy: as a slice of the array that Datas is *)
(* a slice of.  The run loop writes the address of the socket into the     *)
(* head of a client's packet, in the same array, and pushes the slice to   *)
(* WriteChan of another socket, whose run loop writes it out.  Meanwhile   *)
(* SkpRead goes on appending.  So the memory is modelled: arrays of bytes, *)
(* and slices [array, from, len] of them.                                  *)
(*                                                                         *)
(* SkpData and SkpServerConn spread the packets: one that nobody handles   *)
(* is dropped, the answer of the monitor stays here, and the others go to  *)
(* a socket of their server ID, at random, or to one that is dialled for   *)
(* them.  Each of these sockets gets some of the packets; one of them is   *)
(* followed, and the packets in away are those that go elsewhere, which is *)
(* left open.                                                              *)
(*                                                                         *)
(* Peers keep to the protocol: HeadSize in a head is the size of a head of *)
(* that kind, DataSize that of what follows it.                            *)
(*                                                                         *)
(* The k-th byte of packet p is <<p, k, FALSE>>, with TRUE for bytes of    *)
(* the address that the run loop has written.                              *)
(***************************************************************************)
EXTENDS Naturals, Sequences

CONSTANTS Packets,      \* the peer sends packets 1 .. Packets
          Size,         \* of each packet, with its head
          HeadSize,     \* of the two kinds of head, "conn" and "data" (40 and 80)
          AddrAt,       \* where a head has the address (bytes 24-27 and 32-39)
          DataCacheMax, \* Data_Chace_Max (16 K)
          ReadMax,      \* Read_Max (4 K)
          ChanMax       \* Read_Chan_Max and Write_Chan_Max (1000)

ASSUME StreamAssumption ==
    /\ {Packets, DataCacheMax, ReadMax, ChanMax} \subseteq Nat \ {0}
    /\ HeadSize \in [{"conn", "data"} -> Nat \ {0}]
    /\ AddrAt \subseteq 1 .. HeadSize["data"]
    /\ Size \in [1 .. Packets -> Nat \ {0}]
    /\ ReadMax < DataCacheMax

VARIABLES
    peer,     \* "client" or "server", which connected here; "owned": we did
    away,     \* the packets that do not go to the socket followed here
    read,     \* number of bytes that SkpRead has read
    heap,     \* the arrays
    datas,    \* Datas
    reader,   \* of SkpRead: "read", "check", "gone"
    isConn,   \* isConn of SkpRead
    readChan, \* slices
    loop,     \* of the run loop: "loop", "mark", "forward", "ended"
    data,     \* the slice it handles
    IsConn,   \* IsConn of the socket
    next,     \* WriteChan of the socket it passes packets on to
    out       \* history: what that socket writes, byte by byte

vars == <<peer, away, read, heap, datas, reader, isConn, readChan, loop, data, IsConn, next, out>>

-----------------------------------------------------------------------------
(* What the peer sends: a head that says who it is, if it connected, and   *)
(* packets.                                                                *)
Kind(p) == IF p = 1 /\ peer # "owned" THEN "conn" ELSE "data"

Bytes(p) == [k \in 1 .. Size[p] |-> <<p, k, FALSE>>]

Sent[p \in 0 .. Packets] == IF p = 0 THEN <<>> ELSE Sent[p - 1] \o Bytes(p)

-----------------------------------------------------------------------------
(* Memory.                                                                 *)
Nil == [array |-> 1, from |-> 1, len |-> 0]

Content(s) == SubSeq(heap[s.array], s.from, s.from + s.len - 1)

Room(s) == Len(heap[s.array]) - (s.from + s.len - 1)      \* cap - len

Blank(n) == [k \in 1 .. n |-> <<0, 0, FALSE>>]

(* SkpCheckConnHead and SkpCheckHead: a packet whose head is of that kind  *)
(* stands at the beginning, as a whole.                                    *)
SkpCheck(bytes, kind, p) ==
    /\ Len(bytes) >= HeadSize[kind]
    /\ Kind(p) = kind
    /\ \A k \in 1 .. HeadSize[kind] : <<bytes[k][1], bytes[k][2]>> = <<p, k>>
    /\ Len(bytes) >= Size[p]

Init ==
    /\ peer \in {"client", "server", "owned"} /\ away \in SUBSET (1 .. Packets)
    /\ read = 0
    /\ heap = <<Blank(DataCacheMax)>> /\ datas = Nil
    /\ reader = "read" /\ isConn = (peer = "owned")
    /\ readChan = <<>> /\ next = <<>>
    /\ loop = "loop" /\ data = Nil /\ IsConn = (peer = "owned")
    /\ out = <<>>

-----------------------------------------------------------------------------
(* SkpRead.                                                                *)
Overwrite(array, at, bytes) ==
    [k \in DOMAIN array |-> IF k \in at .. at + Len(bytes) - 1 THEN bytes[k - at + 1]
                                                               ELSE array[k]]

\* mutant: what is left is moved to the front of the array
SkpAppendFront(bytes) ==
    LET all == Content(datas) \o bytes IN
    /\ heap' = [heap EXCEPT ![datas.array] =
                  Overwrite(Blank(Len(@) + Len(all)), 1, Overwrite(@, 1, all))]
    /\ datas' = [datas EXCEPT !.from = 1, !.len = Len(all)]

\* In place while there is room, and else in a new array.
SkpAppendData(bytes) ==
    LET all == Content(datas) \o bytes IN
    IF Room(datas) > Len(bytes)
    THEN /\ heap' = [heap EXCEPT ![datas.array] = Overwrite(@, datas.from + datas.len, bytes)]
         /\ datas' = [datas EXCEPT !.len = Len(all)]
    ELSE /\ heap' = Append(heap, Overwrite(Blank(Len(all) + DataCacheMax), 1, all))
         /\ datas' = [array |-> Len(heap) + 1, from |-> 1, len |-> Len(all)]

(* Conn.Read: some of the bytes sent, up to the size of its buffer.        *)
Read ==
    /\ reader = "read" /\ loop # "ended"
    /\ \E n \in 1 .. ReadMax :
          /\ read + n <= Len(Sent[Packets])
          /\ read' = read + n
          /\ SkpAppendData(SubSeq(Sent[Packets], read + 1, read + n))
    /\ reader' = "check"
    /\ UNCHANGED <<peer, away, isConn, readChan, loop, data, IsConn, next, out>>

(* The connection fails, what was not read is lost; or the run loop has    *)
(* closed it.                                                              *)
ReadFails ==
    /\ reader = "read" /\ reader' = "gone"
    /\ UNCHANGED <<peer, away, read, heap, datas, isConn, readChan, loop, data,
                   IsConn, next, out>>

Expected(connected) == IF connected THEN "data" ELSE "conn"

Whole(p) == SkpCheck(Content(datas), Expected(isConn), p)

AfterOne == "read"     \* mutant: one packet for each read
AfterPush == "check"   \* SkpRead looks for the next packet at once.

\* SkpGetData, to ReadChan, and SkpSkipData.
PushPacket ==
    /\ reader = "check" /\ Len(readChan) < ChanMax
    /\ \E p \in 1 .. Packets :
          /\ Whole(p)
          /\ readChan' = Append(readChan, [datas EXCEPT !.len = Size[p]])
          /\ datas' = [datas EXCEPT !.from = @ + Size[p], !.len = @ - Size[p]]
    /\ isConn' = TRUE /\ reader' = AfterPush
    /\ UNCHANGED <<peer, away, read, heap, loop, data, IsConn, next, out>>

ReadOn ==
    /\ reader = "check" /\ \A p \in 1 .. Packets : ~Whole(p)
    /\ reader' = "read"
    /\ UNCHANGED <<peer, away, read, heap, datas, isConn, readChan, loop, data,
                   IsConn, next, out>>

-----------------------------------------------------------------------------
(* SkpRun.                                                                 *)
(* SkpLoadConnHead for the first packet, SkpLoadHead for the others; what  *)
(* has no such head ends the socket.                                       *)
TakePacket ==
    /\ loop = "loop" /\ readChan # <<>>
    /\ readChan' = Tail(readChan)
    /\ data' = Head(readChan)
    /\ IF \E p \in 1 .. Packets : SkpCheck(Content(Head(readChan)), Expected(IsConn), p)
       THEN loop' = (IF IsConn THEN "mark" ELSE "loop") /\ IsConn' = TRUE
       ELSE loop' = "ended" /\ UNCHANGED IsConn
    /\ UNCHANGED <<peer, away, read, heap, datas, reader, isConn, next, out>>

SkpSetAddrSocket ==
    /\ loop = "mark" /\ loop' = "forward"
    /\ heap' = IF peer # "client" THEN heap
               ELSE [heap EXCEPT ![data.array] =
                       [k \in DOMAIN @ |-> IF k - data.from + 1 \in AddrAt
                                           THEN <<@[k][1], @[k][2], TRUE>> ELSE @[k]]]
    /\ UNCHANGED <<peer, away, read, datas, reader, isConn, readChan, data,
                   IsConn, next, out>>

\* SkpData passes the packet on, SkpWriteChan pushes it; or it goes elsewhere.
SkpData ==
    /\ loop = "forward" /\ loop' = "loop"
    /\ LET p == Content(data)[1][1] IN
       \/ p \in away /\ UNCHANGED next
       \/ p \notin away /\ Len(next) < ChanMax /\ next' = Append(next, data)
    /\ UNCHANGED <<peer, away, read, heap, datas, reader, isConn, readChan, data,
                   IsConn, out>>

(* There is a token in CloseChan, also for a packet that SkpData refuses;  *)
(* the packets in ReadChan are lost.                                       *)
EndLoop ==
    /\ loop \in {"loop", "forward"} /\ loop' = "ended"
    /\ UNCHANGED <<peer, away, read, heap, datas, reader, isConn, readChan, data,
                   IsConn, next, out>>

\* The run loop of the other socket: Conn.Write of a packet of WriteChan.
NextWrites ==
    /\ next # <<>>
    /\ out' = out \o Content(Head(next))
    /\ next' = Tail(next)
    /\ UNCHANGED <<peer, away, read, heap, datas, reader, isConn, readChan, loop,
                   data, IsConn>>

-----------------------------------------------------------------------------
SkpRead == Read \/ PushPacket \/ ReadOn
SkpRun == TakePacket \/ SkpSetAddrSocket \/ SkpData

Next == SkpRead \/ ReadFails \/ SkpRun \/ EndLoop \/ NextWrites

Spec == Init /\ [][Next]_vars

\* The goroutines go on.
FairSpec == Spec /\ WF_vars(SkpRead) /\ WF_vars(SkpRun) /\ WF_vars(NextWrites)

-----------------------------------------------------------------------------
\* Packet p as it leaves: with the address in its head if a client sent it.
Passed(p) == [k \in 1 .. Size[p] |-> <<p, k, peer = "client" /\ k \in AddrAt>>]

\* What should leave of packets p and before: not conn heads, which stay here.
Due[p \in 0 .. Packets] ==
    IF p = 0 THEN <<>>
    ELSE IF Kind(p) = "conn" \/ p \in away THEN Due[p - 1] ELSE Due[p - 1] \o Passed(p)

(* What is passed on are the packets that go there, whole, once and in     *)
(* order, each with the address the run loop wrote, however the reads cut  *)
(* the stream up and although SkpRead goes on writing to the arrays that   *)
(* the packets on their way lie in; and no head of a connection is passed  *)
(* on.  (SkpAppendData, SkpGetData, SkpSkipData; SkpSetAddrSocket.)        *)
RelayedWhole == \E p \in 0 .. Packets : out = Due[p]

(* Each of them is passed on in the end, unless the connection or its run  *)
(* loop ends before: SkpRead looks for packets until there is none.        *)
AllRelayed == <>(out = Due[Packets] \/ reader = "gone" \/ loop = "ended")
==============================================================================
