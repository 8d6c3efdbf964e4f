------------------------------- MODULE SkpSocket -------------------------------
(***************************************************************************)
(* The connections of skpProxy, skpRoute and skpMonitor: skpTcpSocket.go,  *)
(* the lists of sockets per server ID in skpManage.go, and the start and   *)
(* end of the service in skpTcpService.go.                                 *)
(*                                                                         *)
(* A socket has two goroutines: SkpRead takes packets off the connection   *)
(* and pushes them to ReadChan; SkpRun, the run loop, handles what is in   *)
(* ReadChan, writes what is in WriteChan to the connection, and ends when  *)
(* there is a token in CloseChan.  Handling a packet may write to another  *)
(* socket (SkpWriteChan), which pushes to that socket's WriteChan while    *)
(* holding its CloseChanMutex.  Packets are counted, not told apart.  The  *)
(* peers read what is written to them.                                     *)
(***************************************************************************)
EXTENDS Naturals, FiniteSets

CONSTANTS Accepted,   \* sockets the listener accepts
          Owned,      \* sockets SkpServerConn dials
          Agents,     \* server IDs that sockets are listed under
          ReadMax, WriteMax,   \* Read_Chan_Max and Write_Chan_Max (1000)
          MonitorMax, \* the room in WaitMonitorChan (5)
          ListMax,    \* Socket_List_Max (50)
          Faults,     \* what may end a connection: "peer", "refused"
          TimesOut,   \* BOUND: the sockets whose timer may run out
          MaxData,    \* BOUND: the peers send MaxData packets in all
          Nobody

Sockets == Accepted \cup Owned
IDs == Agents \cup {Nobody}   \* server ID 0 is that of nobody

ASSUME SocketAssumption ==
    /\ IsFiniteSet(Sockets) /\ Accepted \cap Owned = {} /\ Sockets \cap Agents = {}
    /\ {ReadMax, WriteMax, MonitorMax} \subseteq Nat \ {0}
    /\ {ListMax, MaxData} \subseteq Nat
    /\ Faults \subseteq {"peer", "refused"} /\ TimesOut \subseteq Sockets
    /\ Nobody \notin Sockets \cup Agents

VARIABLES
    run,        \* where the run loop of a socket is
    goal,       \* the server ID of the packet it handles
    dst,        \* the socket it writes to
    id,         \* the server ID the socket is listed under, Nobody before
    reader,     \* where SkpRead is
    conn,       \* the connection: "open", "failed" (by the peer), "closed"
    left,       \* bound: packets the peers may still send
    readChan, writeChan,   \* number of packets in the channels
    monitor,    \* number of tokens in WaitMonitorChan
    isCloseChan, \* IsCloseChan
    token,      \* number of tokens in CloseChan
    holder,     \* the socket whose run loop holds CloseChanMutex in SkpWriteChan
    agents,     \* the agents in the ServerIDMap
    list,       \* TcpSockets of each agent
    isListerClose, \* the agents with IsListerClose
    service,    \* where SkpService is
    toClose,    \* what is left of SkpCloseAllTcpSocket: agents and sockets
    now         \* the socket it is about to close

chans == <<readChan, writeChan, isCloseChan, token, holder>>
manage == <<agents, list, isListerClose>>
ends == <<service, toClose, now>>
vars == <<run, goal, dst, id, reader, conn, left, monitor, chans, manage, ends>>

Goto(s, l) == run' = [run EXCEPT ![s] = l]

Init ==
    /\ run = [s \in Sockets |-> "none"]
    /\ goal = [s \in Sockets |-> Nobody]
    /\ dst = [s \in Sockets |-> Nobody]
    /\ id = [s \in Sockets |-> Nobody]
    /\ reader = [s \in Sockets |-> "none"]
    /\ conn = [s \in Sockets |-> "open"]
    /\ left = MaxData
    /\ monitor = [s \in Sockets |-> 0]
    /\ readChan = [s \in Sockets |-> 0] /\ writeChan = [s \in Sockets |-> 0]
    /\ isCloseChan = [s \in Sockets |-> FALSE]
    /\ token = [s \in Sockets |-> 0]
    /\ holder = [s \in Sockets |-> Nobody]
    /\ agents = {} /\ isListerClose = {}
    /\ list = [a \in IDs |-> {}]
    /\ service = "serve" /\ toClose = {} /\ now = Nobody

(* SkpAccept: a new socket, and a goroutine for its run loop.  What was    *)
(* accepted before the listener was closed may get here at any time.       *)
SkpAccept(s) ==
    /\ s \in Accepted /\ run[s] = "none"
    /\ Goto(s, "go")
    /\ UNCHANGED <<goal, dst, id, reader, conn, left, monitor, chans, manage, ends>>

(* The peer closes the connection, or the network does.                    *)
PeerFails(s) ==
    /\ "peer" \in Faults /\ run[s] # "none" /\ conn[s] = "open"
    /\ conn' = [conn EXCEPT ![s] = "failed"]
    /\ UNCHANGED <<run, goal, dst, id, reader, left, monitor, chans, manage, ends>>

-----------------------------------------------------------------------------
(* SkpRead.                                                                *)
ReadStart(s) ==
    /\ reader[s] = "go"
    /\ reader' = [reader EXCEPT ![s] = "read"]
    /\ UNCHANGED <<run, goal, dst, id, conn, left, monitor, chans, manage, ends>>

ReadPacket(s) ==
    /\ reader[s] = "read" /\ conn[s] = "open" /\ left # 0
    /\ left' = left - 1
    /\ reader' = [reader EXCEPT ![s] = "push"]
    /\ UNCHANGED <<run, goal, dst, id, conn, monitor, chans, manage, ends>>

\* The next packet of what was read, if there is one, is pushed whatever has
\* become of the connection.
NextPacket(s) ==
    \/ reader' = [reader EXCEPT ![s] = "read"] /\ UNCHANGED left
    \/ left # 0 /\ left' = left - 1 /\ UNCHANGED reader

\* mutant: ReadChan is never full
ReadPushAlways(s) ==
    /\ reader[s] = "push"
    /\ readChan' = [readChan EXCEPT ![s] = @ + 1]
    /\ NextPacket(s)
    /\ UNCHANGED <<run, goal, dst, id, conn, monitor, writeChan, isCloseChan, token,
                   holder, manage, ends>>

ReadPush(s) ==
    /\ reader[s] = "push" /\ readChan[s] < ReadMax
    /\ readChan' = [readChan EXCEPT ![s] = @ + 1]
    /\ NextPacket(s)
    /\ UNCHANGED <<run, goal, dst, id, conn, monitor, writeChan, isCloseChan,
                   token, holder, manage, ends>>

\* CloseChanMutex is not held by a writer that waits for room in WriteChan.
Unlocked(s) == holder[s] = Nobody

\* mutant: the flag is set and the token forgotten
MarkClosed(s) == isCloseChan' = [isCloseChan EXCEPT ![s] = TRUE] /\ UNCHANGED token
\* mutant: a token, whatever the flag says
TokenAgain(s) ==
    /\ isCloseChan' = [isCloseChan EXCEPT ![s] = TRUE]
    /\ token' = [token EXCEPT ![s] = @ + 1]
(* SkpCloseChan, for a caller that has got the mutex.                      *)
SkpCloseChan(s) ==
    /\ isCloseChan' = [isCloseChan EXCEPT ![s] = TRUE]
    /\ token' = IF isCloseChan[s] THEN token ELSE [token EXCEPT ![s] = @ + 1]

ReadFails(s) ==
    /\ reader[s] = "read" /\ conn[s] # "open" /\ Unlocked(s)
    /\ SkpCloseChan(s)
    /\ reader' = [reader EXCEPT ![s] = "gone"]
    /\ UNCHANGED <<run, goal, dst, id, conn, left, monitor, readChan,
                   writeChan, holder,
                   manage, ends>>

-----------------------------------------------------------------------------
(* SkpRun.                                                                 *)
RunStart(s) ==
    /\ run[s] = "go"
    /\ Goto(s, "loop")
    /\ reader' = [reader EXCEPT ![s] = "go"]
    /\ UNCHANGED <<goal, dst, id, conn, left, monitor, chans, manage, ends>>

\* The agent of a server ID is made on demand; SkpCloseAllTcpSocket keeps
\* the map locked while it closes the sockets.
GetAgent(a) ==
    /\ a \in agents \/ service # "closing"
    /\ agents' = agents \cup {a}

\* mutant: the agent does not look at IsListerClose
AlwaysListed(a) == TRUE
\* SkpAddTcpSocket refuses sockets once the listener is closed.
MayList(a) == a \notin isListerClose

SkpAddTcpSocket(a, s) ==
    IF MayList(a) THEN list' = [list EXCEPT ![a] = @ \cup {s}] ELSE UNCHANGED list

(* A packet is taken from ReadChan; it is for server ID a, or from it.     *)
TakePacket(s, a) ==
    /\ run[s] = "loop" /\ readChan[s] > 0
    /\ readChan' = [readChan EXCEPT ![s] = @ - 1]
    /\ goal' = [goal EXCEPT ![s] = a]
    /\ Goto(s, "handle")
    /\ UNCHANGED <<dst, id, reader, conn, left, monitor, writeChan,
                   isCloseChan, token,
                   holder, manage, ends>>

(* The first packet of an accepted socket says who it is (SkpLoadConnHead).*)
LoadConnHead(s) ==
    LET a == goal[s] IN
    /\ run[s] = "handle" /\ id[s] = Nobody
    /\ id' = [id EXCEPT ![s] = a]
    /\ GetAgent(a) /\ SkpAddTcpSocket(a, s)
    /\ Goto(s, IF MayList(a) THEN "loop" ELSE "close")
    /\ goal' = [goal EXCEPT ![s] = Nobody]
    /\ UNCHANGED <<dst, reader, conn, left, monitor, chans, isListerClose, ends>>

(* A later packet may hold the addresses that the monitor knows: every one *)
(* of these leaves a token in WaitMonitorChan (SkpAddMonitorIPList).  Only *)
(* SkpGetMonitorIPList takes one, before the service starts.               *)
TakeIPList(s) ==
    /\ run[s] = "handle" /\ id[s] # Nobody
    /\ Goto(s, "monitor")
    /\ goal' = [goal EXCEPT ![s] = Nobody]
    /\ UNCHANGED <<dst, id, reader, conn, left, monitor, chans, manage, ends>>

SkpAddMonitorIPList(s) ==
    /\ run[s] = "monitor" /\ monitor[s] < MonitorMax
    /\ monitor' = [monitor EXCEPT ![s] = @ + 1]
    /\ Goto(s, "loop")
    /\ UNCHANGED <<goal, dst, id, reader, conn, left, chans, manage, ends>>

(* It is refused by SkpData,                                               *)
RefusePacket(s) ==
    /\ "refused" \in Faults /\ run[s] = "handle" /\ id[s] # Nobody
    /\ Goto(s, "close")
    /\ goal' = [goal EXCEPT ![s] = Nobody]
    /\ UNCHANGED <<dst, id, reader, conn, left, monitor, chans, manage, ends>>

(* or lost, where its OrderType is one that nobody handles, SkpServer      *)
(* finds no socket of that ID or SkpServerConn cannot dial, or written to  *)
(* one of the listed sockets,                                              *)
Forward(s) ==
    LET a == goal[s] IN
    /\ run[s] = "handle" /\ id[s] # Nobody
    /\ GetAgent(a)
    /\ \/ Goto(s, "loop") /\ UNCHANGED dst
       \/ \E d \in list[a] :
             /\ dst' = [dst EXCEPT ![s] = d]
             /\ \/ Goto(s, "write")
                \/ Cardinality(list[a]) >= ListMax /\ Goto(s, "tryWrite")
    /\ goal' = [goal EXCEPT ![s] = Nobody]
    /\ UNCHANGED <<id, reader, conn, left, monitor, chans, list, isListerClose,
                   ends>>

\* SkpServerConn dials n for server ID a: the head is in its WriteChan and its
\* run loop started before it is listed.
Dial(s, n, a) ==
    /\ run[n] = "none"
    /\ run' = [run EXCEPT ![s] = "add", ![n] = "go"]
    /\ writeChan' = [writeChan EXCEPT ![n] = 1]
    /\ id' = [id EXCEPT ![n] = a]
    /\ dst' = [dst EXCEPT ![s] = n]

(* or written to a new socket, while the list of that ID is not full.      *)
ForwardDialled(s, n) ==
    LET a == goal[s] IN
    /\ run[s] = "handle" /\ id[s] # Nobody
    /\ GetAgent(a) /\ Cardinality(list[a]) < ListMax
    /\ Dial(s, n, a)
    /\ goal' = [goal EXCEPT ![s] = Nobody]
    /\ UNCHANGED <<reader, conn, left, monitor, readChan, isCloseChan, token,
                   holder,
                   list, isListerClose, ends>>

AddDialled(s) ==
    LET n == dst[s] IN
    /\ run[s] = "add"
    /\ GetAgent(id[n])
    /\ SkpAddTcpSocket(id[n], n)
    /\ Goto(s, IF MayList(id[n]) THEN "write" ELSE "closeDialled")
    /\ UNCHANGED <<goal, dst, id, reader, conn, left, monitor, chans,
                   isListerClose, ends>>

CloseDialled(s) ==
    /\ run[s] = "closeDialled" /\ Unlocked(dst[s])
    /\ SkpCloseChan(dst[s])
    /\ Goto(s, "loop")
    /\ dst' = [dst EXCEPT ![s] = Nobody]
    /\ UNCHANGED <<goal, id, reader, conn, left, monitor, readChan, writeChan,
                   holder,
                   manage, ends>>

\* mutant: the flag is not looked at
WriteAnyway(s) == TRUE
\* SkpWriteChan writes only while the socket is not being closed.
MayWrite(s) == ~isCloseChan[s]

(* SkpWriteChan: the mutex, the flag,                                      *)
WriteLock(s) ==
    LET d == dst[s] IN
    /\ run[s] \in {"write", "tryWrite"} /\ Unlocked(d)
    /\ \/ /\ MayWrite(d)
          /\ holder' = [holder EXCEPT ![d] = s]
          /\ Goto(s, "pushing")
          /\ UNCHANGED <<dst, id, writeChan>>
       \/ /\ ~MayWrite(d)
          /\ \/ /\ Goto(s, "loop")
                /\ dst' = [dst EXCEPT ![s] = Nobody]
                /\ UNCHANGED <<id, writeChan>>
             \/ run[s] = "tryWrite" /\ \E n \in Owned : Dial(s, n, id[d])
          /\ UNCHANGED holder
    /\ UNCHANGED <<goal, reader, conn, left, monitor, readChan, isCloseChan,
                   token, manage,
                   ends>>

\* mutant: the mutex is not unlocked
WriteKeeps(s) ==
    LET d == dst[s] IN
    /\ run[s] = "pushing" /\ writeChan[d] < WriteMax
    /\ writeChan' = [writeChan EXCEPT ![d] = @ + 1]
    /\ dst' = [dst EXCEPT ![s] = Nobody]
    /\ Goto(s, "loop")
    /\ UNCHANGED <<goal, id, reader, conn, left, monitor, readChan,
                   isCloseChan, token, holder,
                   manage, ends>>

(* and the push, with the mutex held.                                      *)
WritePush(s) ==
    LET d == dst[s] IN
    /\ run[s] = "pushing" /\ writeChan[d] < WriteMax
    /\ writeChan' = [writeChan EXCEPT ![d] = @ + 1]
    /\ holder' = [holder EXCEPT ![d] = Nobody]
    /\ Goto(s, "loop")
    /\ dst' = [dst EXCEPT ![s] = Nobody]
    /\ UNCHANGED <<goal, id, reader, conn, left, monitor, readChan,
                   isCloseChan, token,
                   manage, ends>>

(* A packet of WriteChan is written to the connection, or the write fails. *)
WriteConn(s) ==
    /\ run[s] = "loop" /\ writeChan[s] > 0
    /\ writeChan' = [writeChan EXCEPT ![s] = @ - 1]
    /\ Goto(s, "loop") \/ (conn[s] # "open" /\ Goto(s, "close"))
    /\ UNCHANGED <<goal, dst, id, reader, conn, left, monitor, readChan,
                   isCloseChan, token, holder,
                   manage, ends>>

(* The timer: five minutes without traffic, or, where IsKeep is 0, five    *)
(* minutes.                                                                *)
Timeout(s) ==
    /\ s \in TimesOut /\ run[s] = "loop" /\ Goto(s, "close")
    /\ UNCHANGED <<goal, dst, id, reader, conn, left, monitor, chans, manage, ends>>

CloseOwn(s) ==
    /\ run[s] = "close" /\ Unlocked(s)
    /\ SkpCloseChan(s)
    /\ Goto(s, "loop")
    /\ UNCHANGED <<goal, dst, id, reader, conn, left, monitor, readChan,
                   writeChan, holder,
                   manage, ends>>

\* mutant: the socket stays in the list of its server ID
SkpForget(s) == UNCHANGED list
\* SkpClose; SkpServerID is 0, or Nobody, for a socket that never said who it is.
SkpClose(s) == list' = [list EXCEPT ![id[s]] = @ \ {s}]

(* The token ends the loop:                                                *)
EndLoop(s) ==
    /\ run[s] = "loop" /\ token[s] > 0
    /\ token' = [token EXCEPT ![s] = @ - 1]
    /\ Goto(s, "unlist")
    /\ UNCHANGED <<goal, dst, id, reader, conn, left, monitor, readChan,
                   writeChan, isCloseChan,
                   holder, manage, ends>>

(* the socket is unlisted, WriteChan and the connection closed;            *)
Unlist(s) ==
    /\ run[s] = "unlist"
    /\ GetAgent(id[s]) /\ SkpClose(s)
    /\ conn' = [conn EXCEPT ![s] = "closed"]
    /\ Goto(s, "wait")
    /\ UNCHANGED <<goal, dst, id, reader, left, monitor, chans, isListerClose,
                   ends>>

\* Waitgroup is zero: SkpRead adds to it when it starts.
ReaderDone(s) == reader[s] \in {"go", "gone"}

(* after Waitgroup.Wait, the other channels.                               *)
EndRun(s) ==
    /\ run[s] = "wait" /\ ReaderDone(s)
    /\ Goto(s, "ended")
    /\ UNCHANGED <<goal, dst, id, reader, conn, left, monitor, chans, manage, ends>>

-----------------------------------------------------------------------------
(* SkpService after the signal: SkpListerClose of every agent there is;    *)
ListerClose ==
    /\ service = "serve"
    /\ isListerClose' = agents
    /\ service' = "lister"
    /\ UNCHANGED <<run, goal, dst, id, reader, conn, left, monitor, chans,
                   agents, list,
                   toClose, now>>

(* the listener is closed, and SkpCloseAllTcpSocket goes through the agents*)
CloseAll ==
    /\ service = "lister"
    /\ service' = "closing"
    /\ toClose' = agents
    /\ UNCHANGED <<run, goal, dst, id, reader, conn, left, monitor, chans,
                   manage, now>>

(* and empties the list of each                                            *)
CloseAgent(a) ==
    /\ service = "closing" /\ a \in toClose
    /\ toClose \cap Sockets = {} /\ now = Nobody
    /\ toClose' = (toClose \ {a}) \cup list[a]
    /\ list' = [list EXCEPT ![a] = {}]
    /\ UNCHANGED <<run, goal, dst, id, reader, conn, left, monitor, chans, agents,
                   isListerClose, service, now>>

(* to close its sockets one by one.  Waitgroup.Wait then ends the process  *)
(* when the run loops that have started are over.                          *)
PickSocket(s) ==
    /\ service = "closing" /\ s \in toClose /\ now = Nobody
    /\ now' = s
    /\ toClose' = toClose \ {s}
    /\ UNCHANGED <<run, goal, dst, id, reader, conn, left, monitor, chans,
                   manage, service>>

CloseSocket ==
    /\ now # Nobody /\ Unlocked(now)
    /\ SkpCloseChan(now)
    /\ now' = Nobody
    /\ UNCHANGED <<run, goal, dst, id, reader, conn, left, monitor, readChan,
                   writeChan, holder,
                   manage, service, toClose>>

AllClosed ==
    /\ service = "closing" /\ toClose = {} /\ now = Nobody
    /\ service' = "wait"
    /\ UNCHANGED <<run, goal, dst, id, reader, conn, left, monitor, chans,
                   manage, toClose, now>>

-----------------------------------------------------------------------------
Reader(s) == ReadStart(s) \/ ReadPush(s) \/ ReadFails(s)

Handle(s) ==
    \/ RefusePacket(s)
    \/ \E a \in Agents : TakePacket(s, a)
    \/ TakeIPList(s) \/ SkpAddMonitorIPList(s)
    \/ LoadConnHead(s) \/ Forward(s) \/ \E n \in Owned : ForwardDialled(s, n)

Run(s) ==
    \/ RunStart(s) \/ Handle(s) \/ AddDialled(s) \/ CloseDialled(s) \/ WriteLock(s)
    \/ WritePush(s) \/ WriteConn(s) \/ CloseOwn(s) \/ Unlist(s) \/ EndRun(s)

Service ==
    \/ CloseAll \/ AllClosed \/ CloseSocket
    \/ (\E a \in IDs : CloseAgent(a)) \/ (\E s \in Sockets : PickSocket(s))

Next ==
    \/ \E s \in Sockets :
          \/ SkpAccept(s) \/ PeerFails(s) \/ ReadPacket(s) \/ Reader(s)
          \/ Run(s) \/ EndLoop(s) \/ Timeout(s)
    \/ ListerClose \/ Service

Spec == Init /\ [][Next]_vars

(* Every goroutine goes on when it can, and the select of the run loop,    *)
(* which picks at random among what is ready, does not pass over a token   *)
(* for ever.  Nothing more is asked: the peers send finitely many packets  *)
(* where liveness is checked.                                              *)
Fairness ==
    /\ \A s \in Sockets : WF_vars(Reader(s)) /\ WF_vars(Run(s)) /\ SF_vars(EndLoop(s))
    /\ WF_vars(Service)

FairSpec == Spec /\ Fairness

-----------------------------------------------------------------------------
TypeOK ==
    /\ run \in [Sockets -> {"none", "go", "loop", "handle", "write", "tryWrite",
                           "pushing", "add", "closeDialled", "close", "monitor", "unlist",
                           "wait", "ended"}]
    /\ goal \in [Sockets -> Agents \cup {Nobody}]
    /\ dst \in [Sockets -> Sockets \cup {Nobody}]
    /\ id \in [Sockets -> Agents \cup {Nobody}]
    /\ reader \in [Sockets -> {"none", "go", "read", "push", "gone"}]
    /\ conn \in [Sockets -> {"open", "failed", "closed"}]
    /\ left \in 0..MaxData
    /\ monitor \in [Sockets -> 0..MonitorMax]
    /\ readChan \in [Sockets -> 0..ReadMax]
    /\ writeChan \in [Sockets -> 0..WriteMax]
    /\ isCloseChan \in [Sockets -> BOOLEAN] /\ token \in [Sockets -> Nat]
    /\ holder \in [Sockets -> Sockets \cup {Nobody}]
    /\ agents \subseteq IDs /\ isListerClose \subseteq IDs
    /\ list \in [IDs -> SUBSET Sockets]
    /\ service \in {"serve", "lister", "closing", "wait"}
    /\ toClose \subseteq IDs \cup Sockets
    /\ now \in Sockets \cup {Nobody}

Closed(s) == run[s] \in {"wait", "ended"}

(* No goroutine ever sends on a channel that is closed, which would panic: *)
(* WriteChan is closed at the end of the run loop, ReadChan and CloseChan  *)
(* when the reader has left, and a writer may be anywhere in SkpWriteChan, *)
(* a reader anywhere in SkpRead, and CloseAllTcpSocket about to close.     *)
NoSendOnClosed ==
    \A s \in Sockets :
       /\ run[s] = "pushing" => ~Closed(dst[s])
       /\ reader[s] = "push" => run[s] # "ended"
       /\ Closed(s) => isCloseChan[s]

(* However many goroutines close a socket, it gets one token: there is one *)
(* in CloseChan from the moment the flag is up until the run loop takes it *)
(* and ends, and never a second, for which nobody would be left.           *)
TokenFollowsFlag ==
    \A s \in Sockets :
       token[s] = IF isCloseChan[s] /\ run[s] # "unlist" /\ ~Closed(s) THEN 1 ELSE 0

(* An accepted socket whose run loop is over is in no list of the manager, *)
(* so that SkpServer never picks it.  (A dialled socket may be: it is      *)
(* listed after its run loop has started, and perhaps ended.)              *)
EndedNotListed ==
    \A s \in Accepted : Closed(s) => \A a \in IDs : s \notin list[a]

(* The end of the service leaves no socket behind under a server ID that   *)
(* was known when the listener was closed: SkpListerClose comes first, so  *)
(* that no socket is listed once SkpCloseAllTcpSocket has gone by.         *)
NoneListedAfterClose ==
    service = "wait" => \A a \in isListerClose : list[a] = {}

\* The server ID whose agent s needs.
Wanted(s) ==
    CASE run[s] = "add" -> id[dst[s]] [] run[s] = "unlist" -> id[s] [] OTHER -> goal[s]

\* The run loops one of which s waits for: to drain WriteChan, to give the
\* CloseChanMutex back, or to let the service give the map of agents back.
WaitsFor(s) ==
    CASE run[s] = "pushing" ->
            IF writeChan[dst[s]] = WriteMax THEN {dst[s]} ELSE {}
      [] run[s] \in {"write", "tryWrite", "closeDialled"} -> {holder[dst[s]]}
      [] run[s] = "close" -> {holder[s]}
      [] run[s] \in {"handle", "add", "unlist"} /\ service = "closing" /\ now # Nobody
           /\ Wanted(s) \notin agents
           -> {holder[now]}
      [] OTHER -> {}

\* The run loop waits for room in WaitMonitorChan, from which nobody takes.
MonitorStuck(s) == run[s] = "monitor" /\ monitor[s] = MonitorMax

\* Run loops that wait for each other or for one that is stuck, and for no one else.
Deadlock(X) == \A s \in X : MonitorStuck(s) \/ WaitsFor(s) \cap X # {}
InDeadlock(s) == \E X \in SUBSET Sockets : s \in X /\ Deadlock(X)

\* The reader waits for room in ReadChan after the run loop has ended.
ReaderStuck(s) == run[s] = "wait" /\ reader[s] = "push" /\ readChan[s] = ReadMax

(* A socket that is being closed comes to its end.  The ways in which it   *)
(* does not are the three deadlocks of the code: run loops that write to   *)
(* full WriteChans in a circle, holding each other's mutexes; a run loop   *)
(* that pushes to a full WaitMonitorChan, and those that wait for it; and  *)
(* a reader that pushes to a full ReadChan nobody reads any more.          *)
ClosedSocketEnds ==
    \A s \in Sockets : isCloseChan[s] ~> run[s] = "ended" \/ ReaderStuck(s) \/ InDeadlock(s)

(* The service gets through SkpCloseAllTcpSocket, unless a writer holds    *)
(* the mutex of the socket it has to close for ever.                       *)
ServiceCloses ==
    service = "closing" ~> \/ service = "wait"
                           \/ now # Nobody /\ holder[now] # Nobody /\ InDeadlock(holder[now])
=============================================================================
