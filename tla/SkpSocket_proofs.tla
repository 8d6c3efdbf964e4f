--------------------------- MODULE SkpSocket_proofs ---------------------------
(***************************************************************************)
(* Proofs about SkpSocket, for every set of sockets and server IDs and     *)
(* every size of the channels.                                             *)
(*                                                                         *)
(* The inductive invariant has four parts, each preserved by every step:   *)
(* the types, with what dst may be; FlagInv, what IsCloseChan means for    *)
(* the channels, the writers and the reader of a socket; ListInv, where an *)
(* accepted socket may be listed; CloseInv, how far the service has got.   *)
(***************************************************************************)
EXTENDS SkpSocket, TLAPS

\* The socket that a run loop writes to, lists or closes is known.
DstInv ==
    \A s \in Sockets :
       /\ run[s] \in {"write", "tryWrite", "pushing"} => dst[s] \in Sockets
       /\ run[s] \in {"add", "closeDialled"} => dst[s] \in Owned
       /\ run[s] = "handle" => goal[s] \in Agents

TypeInv == TypeOK /\ DstInv

\* A writer that waits for room holds the mutex, and the flag is down; it goes up
\* with the only token there is, and stays up.
FlagInv ==
    \A s \in Sockets :
       /\ run[s] = "pushing" => holder[dst[s]] = s /\ ~isCloseChan[dst[s]]
       /\ token[s] = IF isCloseChan[s] /\ run[s] # "unlist" /\ ~Closed(s) THEN 1 ELSE 0
       /\ run[s] = "unlist" \/ Closed(s) => isCloseChan[s]
       /\ Closed(s) => conn[s] = "closed"
       /\ run[s] = "ended" => reader[s] # "push"

\* An accepted socket is listed under its own server ID, until it is unlisted.
ListInv ==
    \A s \in Accepted : \A a \in IDs :
       s \in list[a] => a = id[s] /\ a \in Agents /\ ~Closed(s)

\* SkpCloseAllTcpSocket has emptied the lists it has gone by, and those of the
\* agents that were there when the listener was closed are not filled again.
CloseInv ==
    /\ isListerClose \subseteq agents
    /\ service = "closing" => \A a \in isListerClose : a \in toClose \/ list[a] = {}
    /\ service = "wait" => \A a \in isListerClose : list[a] = {}

USE SocketAssumption DEF Sockets, IDs, Goto, vars, chans, manage, ends

\* The initial state satisfies the four parts.
LEMMA Initially == Init => TypeInv /\ FlagInv /\ ListInv /\ CloseInv
<1> SUFFICES ASSUME Init PROVE TypeInv /\ FlagInv /\ ListInv /\ CloseInv
  OBVIOUS
<1>1. TypeInv
  BY DEF Init, TypeInv, TypeOK, DstInv
<1>2. FlagInv
  BY DEF Init, FlagInv, Closed
<1>3. ListInv
  BY DEF Init, ListInv
<1>4. CloseInv
  BY DEF Init, CloseInv
<1> QED BY <1>1, <1>2, <1>3, <1>4

\* SkpCloseChan raises the flag of one socket, and leaves a token the first time.
LEMMA CloseChanEffect ==
  ASSUME NEW c \in Sockets, TypeOK, SkpCloseChan(c)
  PROVE  isCloseChan'[c] /\ token'[c] = (IF isCloseChan[c] THEN token[c] ELSE token[c] + 1)
BY DEF SkpCloseChan, TypeOK

\* It leaves the other sockets alone.
LEMMA CloseChanOthers ==
  ASSUME NEW c \in Sockets, NEW x \in Sockets, x # c, TypeOK, SkpCloseChan(c)
  PROVE  (isCloseChan'[x] <=> isCloseChan[x]) /\ token'[x] = token[x]
BY DEF SkpCloseChan, TypeOK

\* Raising the flag of a socket whose mutex is free, and nothing else.
LEMMA CloseChanFlag ==
  ASSUME NEW c \in Sockets, TypeInv, FlagInv, SkpCloseChan(c), Unlocked(c),
         UNCHANGED <<holder, conn>>,
         \A s \in Sockets : reader'[s] = reader[s] \/ reader'[s] = "gone",
         \A s \in Sockets : run'[s] = run[s] \/ (run'[s] = "loop" /\ run[s] \in {"close", "closeDialled"}),
         \A s \in Sockets : run'[s] = "pushing" => dst'[s] = dst[s]
  PROVE  FlagInv'
<1> SUFFICES ASSUME NEW s \in Sockets
             PROVE  /\ run'[s] = "pushing" => holder'[dst'[s]] = s /\ ~isCloseChan'[dst'[s]]
                    /\ token'[s] = IF isCloseChan'[s] /\ run'[s] # "unlist" /\ ~Closed(s)'
                                   THEN 1 ELSE 0
                    /\ run'[s] = "unlist" \/ Closed(s)' => isCloseChan'[s]
                    /\ Closed(s)' => conn'[s] = "closed"
                    /\ run'[s] = "ended" => reader'[s] # "push"
  BY DEF FlagInv
<1>0. TypeOK
  BY DEF TypeInv
<1>a. isCloseChan'[c] /\ token'[c] = (IF isCloseChan[c] THEN token[c] ELSE token[c] + 1)
  BY <1>0, CloseChanEffect
<1>b. ASSUME NEW x \in Sockets, x # c
      PROVE  (isCloseChan'[x] <=> isCloseChan[x]) /\ token'[x] = token[x]
  BY <1>0, <1>b, CloseChanOthers
<1>1. Closed(s)' <=> Closed(s)
  BY DEF Closed
<1>2. ASSUME run'[s] = "pushing" PROVE holder'[dst'[s]] = s /\ ~isCloseChan'[dst'[s]]
  <2>1. run[s] = "pushing" /\ dst'[s] = dst[s] /\ dst[s] \in Sockets
    BY <1>2 DEF TypeInv, DstInv
  <2>2. holder[dst[s]] = s /\ ~isCloseChan[dst[s]] /\ dst[s] # c
    BY <2>1 DEF FlagInv, Unlocked
  <2>3. ~isCloseChan'[dst[s]]
    <3> HIDE DEF Sockets
    <3> QED BY <2>1, <2>2, <1>b
  <2> QED BY <2>1, <2>2, <2>3
<1>3. /\ token'[s] = IF isCloseChan'[s] /\ run'[s] # "unlist" /\ ~Closed(s)' THEN 1 ELSE 0
      /\ run'[s] = "unlist" \/ Closed(s)' => isCloseChan'[s]
  <2>1. /\ token[s] = IF isCloseChan[s] /\ run[s] # "unlist" /\ ~Closed(s) THEN 1 ELSE 0
        /\ run[s] = "unlist" \/ Closed(s) => isCloseChan[s]
    BY DEF FlagInv
  <2>2. run'[s] = "unlist" <=> run[s] = "unlist"
    OBVIOUS
  <2>3. CASE s = c
    BY <1>1, <1>a, <2>1, <2>2, <2>3
  <2>4. CASE s # c
    <3>1. (isCloseChan'[s] <=> isCloseChan[s]) /\ token'[s] = token[s]
      BY <1>b, <2>4
    <3> QED BY <1>1, <2>1, <2>2, <3>1
  <2> QED BY <2>3, <2>4
<1>4. Closed(s)' => conn'[s] = "closed"
  BY <1>1 DEF FlagInv
<1>5. run'[s] = "ended" => reader'[s] # "push"
  BY DEF FlagInv
<1> QED BY <1>2, <1>3, <1>4, <1>5

\* Types are preserved by every step of the sockets and the service.
LEMMA TypeStep == TypeInv /\ [Next]_vars => TypeInv'
<1> SUFFICES ASSUME TypeInv, [Next]_vars PROVE TypeInv'
  OBVIOUS
<1>1. ASSUME NEW s \in Sockets, SkpAccept(s) PROVE TypeInv'
  BY <1>1 DEF SkpAccept, TypeInv, TypeOK, DstInv
<1>2. ASSUME NEW s \in Sockets, PeerFails(s) PROVE TypeInv'
  BY <1>2 DEF PeerFails, TypeInv, TypeOK, DstInv
<1>3. ASSUME NEW s \in Sockets, ReadStart(s) PROVE TypeInv'
  BY <1>3 DEF ReadStart, TypeInv, TypeOK, DstInv
<1>4. ASSUME NEW s \in Sockets, ReadPacket(s) PROVE TypeInv'
  BY <1>4 DEF ReadPacket, TypeInv, TypeOK, DstInv
<1>5. ASSUME NEW s \in Sockets, ReadPush(s) PROVE TypeInv'
  BY <1>5 DEF ReadPush, NextPacket, TypeInv, TypeOK, DstInv
<1>6. ASSUME NEW s \in Sockets, ReadFails(s) PROVE TypeInv'
  BY <1>6 DEF ReadFails, SkpCloseChan, Unlocked, TypeInv, TypeOK, DstInv
<1>7. ASSUME NEW s \in Sockets, RunStart(s) PROVE TypeInv'
  BY <1>7 DEF RunStart, TypeInv, TypeOK, DstInv
<1>8. ASSUME NEW s \in Sockets, LoadConnHead(s) PROVE TypeInv'
  BY <1>8 DEF LoadConnHead, GetAgent, SkpAddTcpSocket, MayList, TypeInv, TypeOK, DstInv
<1>9. ASSUME NEW s \in Sockets, RefusePacket(s) PROVE TypeInv'
  BY <1>9 DEF RefusePacket, TypeInv, TypeOK, DstInv
<1>10. ASSUME NEW s \in Sockets, Forward(s) PROVE TypeInv'
  BY <1>10 DEF Forward, GetAgent, TypeInv, TypeOK, DstInv
<1>11. ASSUME NEW s \in Sockets, AddDialled(s) PROVE TypeInv'
  BY <1>11 DEF AddDialled, GetAgent, SkpAddTcpSocket, MayList, TypeInv, TypeOK, DstInv
<1>12. ASSUME NEW s \in Sockets, CloseDialled(s) PROVE TypeInv'
  BY <1>12 DEF CloseDialled, SkpCloseChan, Unlocked, TypeInv, TypeOK, DstInv
<1>13. ASSUME NEW s \in Sockets, WriteLock(s) PROVE TypeInv'
  BY <1>13 DEF WriteLock, Unlocked, MayWrite, Dial, TypeInv, TypeOK, DstInv
<1>14. ASSUME NEW s \in Sockets, WritePush(s) PROVE TypeInv'
  BY <1>14 DEF WritePush, TypeInv, TypeOK, DstInv
<1>15. ASSUME NEW s \in Sockets, WriteConn(s) PROVE TypeInv'
  BY <1>15 DEF WriteConn, TypeInv, TypeOK, DstInv
<1>16. ASSUME NEW s \in Sockets, Timeout(s) PROVE TypeInv'
  BY <1>16 DEF Timeout, TypeInv, TypeOK, DstInv
<1>17. ASSUME NEW s \in Sockets, CloseOwn(s) PROVE TypeInv'
  BY <1>17 DEF CloseOwn, SkpCloseChan, Unlocked, TypeInv, TypeOK, DstInv
<1>18. ASSUME NEW s \in Sockets, EndLoop(s) PROVE TypeInv'
  BY <1>18 DEF EndLoop, TypeInv, TypeOK, DstInv
<1>19. ASSUME NEW s \in Sockets, Unlist(s) PROVE TypeInv'
  BY <1>19 DEF Unlist, GetAgent, SkpClose, TypeInv, TypeOK, DstInv
<1>20. ASSUME NEW s \in Sockets, EndRun(s) PROVE TypeInv'
  BY <1>20 DEF EndRun, ReaderDone, TypeInv, TypeOK, DstInv
<1>21. ASSUME NEW s \in Sockets, NEW a \in Agents, TakePacket(s, a) PROVE TypeInv'
  BY <1>21 DEF TakePacket, TypeInv, TypeOK, DstInv
<1>22. ASSUME NEW s \in Sockets, NEW n \in Owned, ForwardDialled(s, n) PROVE TypeInv'
  BY <1>22 DEF ForwardDialled, GetAgent, Dial, TypeInv, TypeOK, DstInv
<1>23. CASE ListerClose
  BY <1>23 DEF ListerClose, TypeInv, TypeOK, DstInv
<1>24. CASE CloseAll
  BY <1>24 DEF CloseAll, TypeInv, TypeOK, DstInv
<1>25. CASE CloseSocket
  BY <1>25 DEF CloseSocket, SkpCloseChan, Unlocked, TypeInv, TypeOK, DstInv
<1>26. CASE AllClosed
  BY <1>26 DEF AllClosed, TypeInv, TypeOK, DstInv
<1>27. ASSUME NEW a \in IDs, CloseAgent(a) PROVE TypeInv'
  BY <1>27 DEF CloseAgent, TypeInv, TypeOK, DstInv
<1>28. ASSUME NEW s \in Sockets, PickSocket(s) PROVE TypeInv'
  BY <1>28 DEF PickSocket, TypeInv, TypeOK, DstInv
<1>29. ASSUME NEW s \in Sockets, TakeIPList(s) PROVE TypeInv'
  BY <1>29 DEF TakeIPList, TypeInv, TypeOK, DstInv
<1>30. ASSUME NEW s \in Sockets, SkpAddMonitorIPList(s) PROVE TypeInv'
  BY <1>30 DEF SkpAddMonitorIPList, TypeInv, TypeOK, DstInv
<1>31. CASE UNCHANGED vars
  BY <1>31 DEF TypeInv, TypeOK, DstInv
<1> QED BY <1>1, <1>2, <1>3, <1>4, <1>5, <1>6, <1>7, <1>8, <1>9, <1>10, <1>11,
     <1>12, <1>13, <1>14, <1>15, <1>16, <1>17, <1>18, <1>19, <1>20, <1>21,
     <1>22, <1>23, <1>24, <1>25, <1>26, <1>27, <1>28, <1>29,
     <1>30, <1>31 DEF Next, Reader,
     Run, Handle, Service

\* What the flag means is preserved: a closer needs the mutex, which a writer
\* that has seen the flag down keeps until it has pushed.
LEMMA FlagStep == TypeInv /\ FlagInv /\ [Next]_vars => FlagInv'
<1> SUFFICES ASSUME TypeInv, FlagInv, [Next]_vars PROVE FlagInv'
  OBVIOUS
<1>1. ASSUME NEW s \in Sockets, SkpAccept(s) PROVE FlagInv'
  BY <1>1 DEF SkpAccept, TypeInv, TypeOK, DstInv, FlagInv, Closed
<1>2. ASSUME NEW s \in Sockets, PeerFails(s) PROVE FlagInv'
  BY <1>2 DEF PeerFails, TypeInv, TypeOK, DstInv, FlagInv, Closed
<1>3. ASSUME NEW s \in Sockets, ReadStart(s) PROVE FlagInv'
  BY <1>3 DEF ReadStart, TypeInv, TypeOK, DstInv, FlagInv, Closed
<1>4. ASSUME NEW s \in Sockets, ReadPacket(s) PROVE FlagInv'
  BY <1>4 DEF ReadPacket, TypeInv, TypeOK, DstInv, FlagInv, Closed
<1>5. ASSUME NEW s \in Sockets, ReadPush(s) PROVE FlagInv'
  BY <1>5 DEF ReadPush, NextPacket, TypeInv, TypeOK, DstInv, FlagInv, Closed
<1>6. ASSUME NEW s \in Sockets, ReadFails(s) PROVE FlagInv'
  <2>1. SkpCloseChan(s) /\ Unlocked(s) /\ UNCHANGED <<holder, conn>> /\ s \in Sockets
    BY <1>6 DEF ReadFails, TypeInv, TypeOK, DstInv
  <2>2. \A x \in Sockets : reader'[x] = reader[x] \/ reader'[x] = "gone"
    BY <1>6 DEF ReadFails, TypeInv, TypeOK
  <2>3. \A x \in Sockets : run'[x] = run[x] \/ (run'[x] = "loop" /\ run[x] \in {"close", "closeDialled"})
    BY <1>6 DEF ReadFails, TypeInv, TypeOK
  <2>4. \A x \in Sockets : run'[x] = "pushing" => dst'[x] = dst[x]
    BY <1>6 DEF ReadFails, TypeInv, TypeOK
  <2> QED BY <2>1, <2>2, <2>3, <2>4, CloseChanFlag
<1>7. ASSUME NEW s \in Sockets, RunStart(s) PROVE FlagInv'
  BY <1>7 DEF RunStart, TypeInv, TypeOK, DstInv, FlagInv, Closed
<1>8. ASSUME NEW s \in Sockets, LoadConnHead(s) PROVE FlagInv'
  BY <1>8 DEF LoadConnHead, GetAgent, SkpAddTcpSocket, MayList, TypeInv, TypeOK, DstInv, FlagInv, Closed
<1>9. ASSUME NEW s \in Sockets, RefusePacket(s) PROVE FlagInv'
  BY <1>9 DEF RefusePacket, TypeInv, TypeOK, DstInv, FlagInv, Closed
<1>10. ASSUME NEW s \in Sockets, Forward(s) PROVE FlagInv'
  BY <1>10 DEF Forward, GetAgent, TypeInv, TypeOK, DstInv, FlagInv, Closed
<1>11. ASSUME NEW s \in Sockets, AddDialled(s) PROVE FlagInv'
  BY <1>11 DEF AddDialled, GetAgent, SkpAddTcpSocket, MayList, TypeInv, TypeOK, DstInv, FlagInv, Closed
<1>12. ASSUME NEW s \in Sockets, CloseDialled(s) PROVE FlagInv'
  <2>1. SkpCloseChan(dst[s]) /\ Unlocked(dst[s]) /\ UNCHANGED <<holder, conn>> /\ dst[s] \in Sockets
    BY <1>12 DEF CloseDialled, TypeInv, TypeOK, DstInv
  <2>2. \A x \in Sockets : reader'[x] = reader[x] \/ reader'[x] = "gone"
    BY <1>12 DEF CloseDialled, TypeInv, TypeOK
  <2>3. \A x \in Sockets : run'[x] = run[x] \/ (run'[x] = "loop" /\ run[x] \in {"close", "closeDialled"})
    BY <1>12 DEF CloseDialled, TypeInv, TypeOK
  <2>4. \A x \in Sockets : run'[x] = "pushing" => dst'[x] = dst[x]
    BY <1>12 DEF CloseDialled, TypeInv, TypeOK
  <2> QED BY <2>1, <2>2, <2>3, <2>4, CloseChanFlag
<1>13. ASSUME NEW s \in Sockets, WriteLock(s) PROVE FlagInv'
  BY <1>13 DEF WriteLock, Unlocked, MayWrite, Dial, TypeInv, TypeOK, DstInv, FlagInv, Closed
<1>14. ASSUME NEW s \in Sockets, WritePush(s) PROVE FlagInv'
  BY <1>14 DEF WritePush, TypeInv, TypeOK, DstInv, FlagInv, Closed
<1>15. ASSUME NEW s \in Sockets, WriteConn(s) PROVE FlagInv'
  BY <1>15 DEF WriteConn, TypeInv, TypeOK, DstInv, FlagInv, Closed
<1>16. ASSUME NEW s \in Sockets, Timeout(s) PROVE FlagInv'
  BY <1>16 DEF Timeout, TypeInv, TypeOK, DstInv, FlagInv, Closed
<1>17. ASSUME NEW s \in Sockets, CloseOwn(s) PROVE FlagInv'
  <2>1. SkpCloseChan(s) /\ Unlocked(s) /\ UNCHANGED <<holder, conn>> /\ s \in Sockets
    BY <1>17 DEF CloseOwn, TypeInv, TypeOK, DstInv
  <2>2. \A x \in Sockets : reader'[x] = reader[x] \/ reader'[x] = "gone"
    BY <1>17 DEF CloseOwn, TypeInv, TypeOK
  <2>3. \A x \in Sockets : run'[x] = run[x] \/ (run'[x] = "loop" /\ run[x] \in {"close", "closeDialled"})
    BY <1>17 DEF CloseOwn, TypeInv, TypeOK
  <2>4. \A x \in Sockets : run'[x] = "pushing" => dst'[x] = dst[x]
    BY <1>17 DEF CloseOwn, TypeInv, TypeOK
  <2> QED BY <2>1, <2>2, <2>3, <2>4, CloseChanFlag
<1>18. ASSUME NEW s \in Sockets, EndLoop(s) PROVE FlagInv'
  BY <1>18 DEF EndLoop, TypeInv, TypeOK, DstInv, FlagInv, Closed
<1>19. ASSUME NEW s \in Sockets, Unlist(s) PROVE FlagInv'
  BY <1>19 DEF Unlist, GetAgent, SkpClose, TypeInv, TypeOK, DstInv, FlagInv, Closed
<1>20. ASSUME NEW s \in Sockets, EndRun(s) PROVE FlagInv'
  BY <1>20 DEF EndRun, ReaderDone, TypeInv, TypeOK, DstInv, FlagInv, Closed
<1>21. ASSUME NEW s \in Sockets, NEW a \in Agents, TakePacket(s, a) PROVE FlagInv'
  BY <1>21 DEF TakePacket, TypeInv, TypeOK, DstInv, FlagInv, Closed
<1>22. ASSUME NEW s \in Sockets, NEW n \in Owned, ForwardDialled(s, n) PROVE FlagInv'
  BY <1>22 DEF ForwardDialled, GetAgent, Dial, TypeInv, TypeOK, DstInv, FlagInv, Closed
<1>23. CASE ListerClose
  BY <1>23 DEF ListerClose, TypeInv, TypeOK, DstInv, FlagInv, Closed
<1>24. CASE CloseAll
  BY <1>24 DEF CloseAll, TypeInv, TypeOK, DstInv, FlagInv, Closed
<1>25. CASE CloseSocket
  <2>1. SkpCloseChan(now) /\ Unlocked(now) /\ UNCHANGED <<holder, conn>> /\ now \in Sockets
    BY <1>25 DEF CloseSocket, TypeInv, TypeOK, DstInv
  <2>2. \A x \in Sockets : reader'[x] = reader[x] \/ reader'[x] = "gone"
    BY <1>25 DEF CloseSocket, TypeInv, TypeOK
  <2>3. \A x \in Sockets : run'[x] = run[x] \/ (run'[x] = "loop" /\ run[x] \in {"close", "closeDialled"})
    BY <1>25 DEF CloseSocket, TypeInv, TypeOK
  <2>4. \A x \in Sockets : run'[x] = "pushing" => dst'[x] = dst[x]
    BY <1>25 DEF CloseSocket, TypeInv, TypeOK
  <2> QED BY <2>1, <2>2, <2>3, <2>4, CloseChanFlag
<1>26. CASE AllClosed
  BY <1>26 DEF AllClosed, TypeInv, TypeOK, DstInv, FlagInv, Closed
<1>27. ASSUME NEW a \in IDs, CloseAgent(a) PROVE FlagInv'
  BY <1>27 DEF CloseAgent, TypeInv, TypeOK, DstInv, FlagInv, Closed
<1>28. ASSUME NEW s \in Sockets, PickSocket(s) PROVE FlagInv'
  BY <1>28 DEF PickSocket, TypeInv, TypeOK, DstInv, FlagInv, Closed
<1>29. ASSUME NEW s \in Sockets, TakeIPList(s) PROVE FlagInv'
  BY <1>29 DEF TakeIPList, TypeInv, TypeOK, DstInv, FlagInv, Closed
<1>30. ASSUME NEW s \in Sockets, SkpAddMonitorIPList(s) PROVE FlagInv'
  BY <1>30 DEF SkpAddMonitorIPList, TypeInv, TypeOK, DstInv, FlagInv, Closed
<1>31. CASE UNCHANGED vars
  BY <1>31 DEF TypeInv, TypeOK, DstInv, FlagInv, Closed
<1> QED BY <1>1, <1>2, <1>3, <1>4, <1>5, <1>6, <1>7, <1>8, <1>9, <1>10, <1>11,
     <1>12, <1>13, <1>14, <1>15, <1>16, <1>17, <1>18, <1>19, <1>20, <1>21,
     <1>22, <1>23, <1>24, <1>25, <1>26, <1>27, <1>28, <1>29,
     <1>30, <1>31 DEF Next, Reader,
     Run, Handle, Service

\* Only the run loop of an accepted socket lists it, once.
LEMMA ListStep == TypeInv /\ FlagInv /\ ListInv /\ [Next]_vars => ListInv'
<1> SUFFICES ASSUME TypeInv, FlagInv, ListInv, [Next]_vars PROVE ListInv'
  OBVIOUS
<1>1. ASSUME NEW s \in Sockets, SkpAccept(s) PROVE ListInv'
  BY <1>1 DEF SkpAccept, TypeInv, TypeOK, DstInv, ListInv, Closed
<1>2. ASSUME NEW s \in Sockets, PeerFails(s) PROVE ListInv'
  BY <1>2 DEF PeerFails, TypeInv, TypeOK, DstInv, ListInv, Closed
<1>3. ASSUME NEW s \in Sockets, ReadStart(s) PROVE ListInv'
  BY <1>3 DEF ReadStart, TypeInv, TypeOK, DstInv, ListInv, Closed
<1>4. ASSUME NEW s \in Sockets, ReadPacket(s) PROVE ListInv'
  BY <1>4 DEF ReadPacket, TypeInv, TypeOK, DstInv, ListInv, Closed
<1>5. ASSUME NEW s \in Sockets, ReadPush(s) PROVE ListInv'
  BY <1>5 DEF ReadPush, NextPacket, TypeInv, TypeOK, DstInv, ListInv, Closed
<1>6. ASSUME NEW s \in Sockets, ReadFails(s) PROVE ListInv'
  BY <1>6 DEF ReadFails, SkpCloseChan, Unlocked, TypeInv, TypeOK, DstInv, ListInv, Closed
<1>7. ASSUME NEW s \in Sockets, RunStart(s) PROVE ListInv'
  BY <1>7 DEF RunStart, TypeInv, TypeOK, DstInv, ListInv, Closed
<1>8. ASSUME NEW s \in Sockets, LoadConnHead(s) PROVE ListInv'
  BY <1>8 DEF LoadConnHead, GetAgent, SkpAddTcpSocket, MayList, TypeInv, TypeOK, DstInv, ListInv, Closed
<1>9. ASSUME NEW s \in Sockets, RefusePacket(s) PROVE ListInv'
  BY <1>9 DEF RefusePacket, TypeInv, TypeOK, DstInv, ListInv, Closed
<1>10. ASSUME NEW s \in Sockets, Forward(s) PROVE ListInv'
  BY <1>10 DEF Forward, GetAgent, TypeInv, TypeOK, DstInv, ListInv, Closed
<1>11. ASSUME NEW s \in Sockets, AddDialled(s) PROVE ListInv'
  BY <1>11 DEF AddDialled, GetAgent, SkpAddTcpSocket, MayList, TypeInv, TypeOK, DstInv, ListInv, Closed
<1>12. ASSUME NEW s \in Sockets, CloseDialled(s) PROVE ListInv'
  BY <1>12 DEF CloseDialled, SkpCloseChan, Unlocked, TypeInv, TypeOK, DstInv, ListInv, Closed
<1>13. ASSUME NEW s \in Sockets, WriteLock(s) PROVE ListInv'
  BY <1>13 DEF WriteLock, Unlocked, MayWrite, Dial, TypeInv, TypeOK, DstInv, ListInv, Closed
<1>14. ASSUME NEW s \in Sockets, WritePush(s) PROVE ListInv'
  BY <1>14 DEF WritePush, TypeInv, TypeOK, DstInv, ListInv, Closed
<1>15. ASSUME NEW s \in Sockets, WriteConn(s) PROVE ListInv'
  BY <1>15 DEF WriteConn, TypeInv, TypeOK, DstInv, ListInv, Closed
<1>16. ASSUME NEW s \in Sockets, Timeout(s) PROVE ListInv'
  BY <1>16 DEF Timeout, TypeInv, TypeOK, DstInv, ListInv, Closed
<1>17. ASSUME NEW s \in Sockets, CloseOwn(s) PROVE ListInv'
  BY <1>17 DEF CloseOwn, SkpCloseChan, Unlocked, TypeInv, TypeOK, DstInv, ListInv, Closed
<1>18. ASSUME NEW s \in Sockets, EndLoop(s) PROVE ListInv'
  BY <1>18 DEF EndLoop, TypeInv, TypeOK, DstInv, ListInv, Closed
<1>19. ASSUME NEW s \in Sockets, Unlist(s) PROVE ListInv'
  BY <1>19 DEF Unlist, GetAgent, SkpClose, TypeInv, TypeOK, DstInv, ListInv, Closed
<1>20. ASSUME NEW s \in Sockets, EndRun(s) PROVE ListInv'
  BY <1>20 DEF EndRun, ReaderDone, TypeInv, TypeOK, DstInv, ListInv, Closed
<1>21. ASSUME NEW s \in Sockets, NEW a \in Agents, TakePacket(s, a) PROVE ListInv'
  BY <1>21 DEF TakePacket, TypeInv, TypeOK, DstInv, ListInv, Closed
<1>22. ASSUME NEW s \in Sockets, NEW n \in Owned, ForwardDialled(s, n) PROVE ListInv'
  BY <1>22 DEF ForwardDialled, GetAgent, Dial, TypeInv, TypeOK, DstInv, ListInv, Closed
<1>23. CASE ListerClose
  BY <1>23 DEF ListerClose, TypeInv, TypeOK, DstInv, ListInv, Closed
<1>24. CASE CloseAll
  BY <1>24 DEF CloseAll, TypeInv, TypeOK, DstInv, ListInv, Closed
<1>25. CASE CloseSocket
  BY <1>25 DEF CloseSocket, SkpCloseChan, Unlocked, TypeInv, TypeOK, DstInv, ListInv, Closed
<1>26. CASE AllClosed
  BY <1>26 DEF AllClosed, TypeInv, TypeOK, DstInv, ListInv, Closed
<1>27. ASSUME NEW a \in IDs, CloseAgent(a) PROVE ListInv'
  BY <1>27 DEF CloseAgent, TypeInv, TypeOK, DstInv, ListInv, Closed
<1>28. ASSUME NEW s \in Sockets, PickSocket(s) PROVE ListInv'
  BY <1>28 DEF PickSocket, TypeInv, TypeOK, DstInv, ListInv, Closed
<1>29. ASSUME NEW s \in Sockets, TakeIPList(s) PROVE ListInv'
  BY <1>29 DEF TakeIPList, TypeInv, TypeOK, DstInv, ListInv, Closed
<1>30. ASSUME NEW s \in Sockets, SkpAddMonitorIPList(s) PROVE ListInv'
  BY <1>30 DEF SkpAddMonitorIPList, TypeInv, TypeOK, DstInv, ListInv, Closed
<1>31. CASE UNCHANGED vars
  BY <1>31 DEF TypeInv, TypeOK, DstInv, ListInv, Closed
<1> QED BY <1>1, <1>2, <1>3, <1>4, <1>5, <1>6, <1>7, <1>8, <1>9, <1>10, <1>11,
     <1>12, <1>13, <1>14, <1>15, <1>16, <1>17, <1>18, <1>19, <1>20, <1>21,
     <1>22, <1>23, <1>24, <1>25, <1>26, <1>27, <1>28, <1>29,
     <1>30, <1>31 DEF Next, Reader,
     Run, Handle, Service

\* The lists of closed agents only shrink.
LEMMA CloseStep == TypeInv /\ CloseInv /\ [Next]_vars => CloseInv'
<1> SUFFICES ASSUME TypeInv, CloseInv, [Next]_vars PROVE CloseInv'
  OBVIOUS
<1>1. ASSUME NEW s \in Sockets, SkpAccept(s) PROVE CloseInv'
  BY <1>1 DEF SkpAccept, TypeInv, TypeOK, DstInv, CloseInv
<1>2. ASSUME NEW s \in Sockets, PeerFails(s) PROVE CloseInv'
  BY <1>2 DEF PeerFails, TypeInv, TypeOK, DstInv, CloseInv
<1>3. ASSUME NEW s \in Sockets, ReadStart(s) PROVE CloseInv'
  BY <1>3 DEF ReadStart, TypeInv, TypeOK, DstInv, CloseInv
<1>4. ASSUME NEW s \in Sockets, ReadPacket(s) PROVE CloseInv'
  BY <1>4 DEF ReadPacket, TypeInv, TypeOK, DstInv, CloseInv
<1>5. ASSUME NEW s \in Sockets, ReadPush(s) PROVE CloseInv'
  BY <1>5 DEF ReadPush, NextPacket, TypeInv, TypeOK, DstInv, CloseInv
<1>6. ASSUME NEW s \in Sockets, ReadFails(s) PROVE CloseInv'
  BY <1>6 DEF ReadFails, SkpCloseChan, Unlocked, TypeInv, TypeOK, DstInv, CloseInv
<1>7. ASSUME NEW s \in Sockets, RunStart(s) PROVE CloseInv'
  BY <1>7 DEF RunStart, TypeInv, TypeOK, DstInv, CloseInv
<1>8. ASSUME NEW s \in Sockets, LoadConnHead(s) PROVE CloseInv'
  BY <1>8 DEF LoadConnHead, GetAgent, SkpAddTcpSocket, MayList, TypeInv, TypeOK, DstInv, CloseInv
<1>9. ASSUME NEW s \in Sockets, RefusePacket(s) PROVE CloseInv'
  BY <1>9 DEF RefusePacket, TypeInv, TypeOK, DstInv, CloseInv
<1>10. ASSUME NEW s \in Sockets, Forward(s) PROVE CloseInv'
  BY <1>10 DEF Forward, GetAgent, TypeInv, TypeOK, DstInv, CloseInv
<1>11. ASSUME NEW s \in Sockets, AddDialled(s) PROVE CloseInv'
  BY <1>11 DEF AddDialled, GetAgent, SkpAddTcpSocket, MayList, TypeInv, TypeOK, DstInv, CloseInv
<1>12. ASSUME NEW s \in Sockets, CloseDialled(s) PROVE CloseInv'
  BY <1>12 DEF CloseDialled, SkpCloseChan, Unlocked, TypeInv, TypeOK, DstInv, CloseInv
<1>13. ASSUME NEW s \in Sockets, WriteLock(s) PROVE CloseInv'
  BY <1>13 DEF WriteLock, Unlocked, MayWrite, Dial, TypeInv, TypeOK, DstInv, CloseInv
<1>14. ASSUME NEW s \in Sockets, WritePush(s) PROVE CloseInv'
  BY <1>14 DEF WritePush, TypeInv, TypeOK, DstInv, CloseInv
<1>15. ASSUME NEW s \in Sockets, WriteConn(s) PROVE CloseInv'
  BY <1>15 DEF WriteConn, TypeInv, TypeOK, DstInv, CloseInv
<1>16. ASSUME NEW s \in Sockets, Timeout(s) PROVE CloseInv'
  BY <1>16 DEF Timeout, TypeInv, TypeOK, DstInv, CloseInv
<1>17. ASSUME NEW s \in Sockets, CloseOwn(s) PROVE CloseInv'
  BY <1>17 DEF CloseOwn, SkpCloseChan, Unlocked, TypeInv, TypeOK, DstInv, CloseInv
<1>18. ASSUME NEW s \in Sockets, EndLoop(s) PROVE CloseInv'
  BY <1>18 DEF EndLoop, TypeInv, TypeOK, DstInv, CloseInv
<1>19. ASSUME NEW s \in Sockets, Unlist(s) PROVE CloseInv'
  BY <1>19 DEF Unlist, GetAgent, SkpClose, TypeInv, TypeOK, DstInv, CloseInv
<1>20. ASSUME NEW s \in Sockets, EndRun(s) PROVE CloseInv'
  BY <1>20 DEF EndRun, ReaderDone, TypeInv, TypeOK, DstInv, CloseInv
<1>21. ASSUME NEW s \in Sockets, NEW a \in Agents, TakePacket(s, a) PROVE CloseInv'
  BY <1>21 DEF TakePacket, TypeInv, TypeOK, DstInv, CloseInv
<1>22. ASSUME NEW s \in Sockets, NEW n \in Owned, ForwardDialled(s, n) PROVE CloseInv'
  BY <1>22 DEF ForwardDialled, GetAgent, Dial, TypeInv, TypeOK, DstInv, CloseInv
<1>23. CASE ListerClose
  BY <1>23 DEF ListerClose, TypeInv, TypeOK, DstInv, CloseInv
<1>24. CASE CloseAll
  BY <1>24 DEF CloseAll, TypeInv, TypeOK, DstInv, CloseInv
<1>25. CASE CloseSocket
  BY <1>25 DEF CloseSocket, SkpCloseChan, Unlocked, TypeInv, TypeOK, DstInv, CloseInv
<1>26. CASE AllClosed
  BY <1>26 DEF AllClosed, TypeInv, TypeOK, DstInv, CloseInv
<1>27. ASSUME NEW a \in IDs, CloseAgent(a) PROVE CloseInv'
  BY <1>27 DEF CloseAgent, TypeInv, TypeOK, DstInv, CloseInv
<1>28. ASSUME NEW s \in Sockets, PickSocket(s) PROVE CloseInv'
  BY <1>28 DEF PickSocket, TypeInv, TypeOK, DstInv, CloseInv
<1>29. ASSUME NEW s \in Sockets, TakeIPList(s) PROVE CloseInv'
  BY <1>29 DEF TakeIPList, TypeInv, TypeOK, DstInv, CloseInv
<1>30. ASSUME NEW s \in Sockets, SkpAddMonitorIPList(s) PROVE CloseInv'
  BY <1>30 DEF SkpAddMonitorIPList, TypeInv, TypeOK, DstInv, CloseInv
<1>31. CASE UNCHANGED vars
  BY <1>31 DEF TypeInv, TypeOK, DstInv, CloseInv
<1> QED BY <1>1, <1>2, <1>3, <1>4, <1>5, <1>6, <1>7, <1>8, <1>9, <1>10, <1>11,
     <1>12, <1>13, <1>14, <1>15, <1>16, <1>17, <1>18, <1>19, <1>20, <1>21,
     <1>22, <1>23, <1>24, <1>25, <1>26, <1>27, <1>28, <1>29,
     <1>30, <1>31 DEF Next, Reader,
     Run, Handle, Service


-----------------------------------------------------------------------------
\* The four parts hold in every reachable state.
THEOREM Invariance == Spec => [](TypeInv /\ FlagInv /\ ListInv /\ CloseInv)
<1>1. TypeInv /\ FlagInv /\ ListInv /\ CloseInv /\ [Next]_vars
        => (TypeInv /\ FlagInv /\ ListInv /\ CloseInv)'
  BY TypeStep, FlagStep, ListStep, CloseStep
<1> QED BY Initially, <1>1, PTL DEF Spec

\* Every variable of the sockets and of the service keeps its type, and the
\* channels their capacity.
THEOREM TypeCorrect == Spec => []TypeOK
<1>1. TypeInv => TypeOK
  BY DEF TypeInv
<1> QED BY Invariance, <1>1, PTL

\* Nobody sends on a channel that SkpRun has closed (skpTcpSocket.go:282-289):
\* not SkpWriteChan, not SkpRead, not SkpCloseChan.
THEOREM ChannelsSafe == Spec => []NoSendOnClosed
<1>1. TypeInv /\ FlagInv => NoSendOnClosed
  BY DEF TypeInv, DstInv, FlagInv, NoSendOnClosed, Closed
<1> QED BY Invariance, <1>1, PTL

\* IsCloseChan means that the run loop will find a token, or has found it
\* (skpTcpSocket.go:153-163, 257-260).
THEOREM FlagMeansEnd == Spec => []TokenFollowsFlag
<1>1. FlagInv => TokenFollowsFlag
  BY DEF FlagInv, TokenFollowsFlag
<1> QED BY Invariance, <1>1, PTL

\* SkpServer never finds an accepted socket whose run loop is over
\* (skpTcpSocket.go:165-168, skpManage.go:69-92).
THEOREM AcceptedUnlisted == Spec => []EndedNotListed
<1>1. ListInv => EndedNotListed
  BY DEF ListInv, EndedNotListed
<1> QED BY Invariance, <1>1, PTL

\* SkpListerClose before SkpCloseAllTcpSocket leaves no socket listed under a
\* server ID known by then (skpTcpService.go:98-101).
THEOREM NothingLeftListed == Spec => []NoneListedAfterClose
<1>1. CloseInv => NoneListedAfterClose
  BY DEF CloseInv, NoneListedAfterClose
<1> QED BY Invariance, <1>1, PTL
===============================================================================
