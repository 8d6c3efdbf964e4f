---------------------------- MODULE MqServer_proofs ----------------------------
(***************************************************************************)
(* Proofs about MqRegistry, for every set of connections, instances,       *)
(* topics and queues, and then about MqBroker, which puts the requests     *)
(* into the hands of the same goroutines.                                  *)
(*                                                                         *)
(* The three maps are not protected by one lock, so the argument is about  *)
(* who may still change what of a client.  While OnMqRegister runs, its    *)
(* state is {"Stop"}, so that no failure counts and nobody deletes it      *)
(* (Registration); whoever deletes it afterwards has said so (Deletion),   *)
(* and a client that is being deleted never registers again.  Close is     *)
(* only started by a deletion that is complete (Gone), and holds           *)
(* c.mutex from the moment it takes the connection away until the reader   *)
(* has left and Stop is set (Closed).                                      *)
(***************************************************************************)
EXTENDS MqBroker, FiniteSetTheorems, SequenceTheorems, TLAPS

Registering(c) == pc[Reader(c)] \in {"claim", "load", "enter", "topic", "reply"}
Deleting(p)    == pc[p] \in {"unregister", "delTopic"}

\* The places of the program that each kind of goroutine can be at.
PlaceInv ==
    /\ \A c \in Clients :
          /\ pc[Reader(c)] \in {"read", "reading", "gone", "panicked", "claim", "load",
                                "enter", "topic", "reply", "confirm", "unregister", "delTopic", "create", "push"}
          /\ pc[Writer(c)] \in {"idle", "writing", "unregister", "delTopic"}
          /\ pc[Closer(c)] \in {"idle", "closeConn", "waitReader", "waitWriter"}
    /\ \A q \in Queues :
          /\ pc[Queue(q)] \in {"idle", "asking", "writing", "unregister", "delTopic"}
          /\ pc[Queue(q)] \in {"writing", "unregister", "delTopic"} => client[q] # Nobody

\* In neither server.harborClient nor server.instanceClient.
Off(c) == c \notin harborClient /\ \A i \in Instances : instanceClient[i] # c

Subscribes(c) == \E t \in Topics : c \in topicClients[t]

\* A client is in the maps under its own topic and instance only, and not
\* before it registers; until then only its reader works for it.
Ident(c) ==
    /\ remote[c] = "dialled" =>
          /\ ~harbor[c] /\ topic[c] = Nobody /\ Off(c) /\ ~Subscribes(c)
          /\ pc[Writer(c)] = "idle" /\ \A q \in Queues : client[q] # c
    /\ remote[c] # "dialled" => harbor[c] /\ instance[c] \in Instances /\ topic[c] \in Topics
    /\ \A t \in Topics : c \in topicClients[t] => t = topic[c]
    /\ \A q \in Queues : client[q] = c => topic[c] = TopicOf[q]
    /\ \A i \in Instances : instanceClient[i] = c => i = instance[c]

\* Nothing has happened to a connection that is not accepted yet.
Fresh(c) ==
    conn[c] = "none" =>
       /\ pc[Reader(c)] = "read" /\ remote[c] = "dialled"
       /\ told[c] = {} /\ "Err" \notin state[c]

Registration(c) ==
    Registering(c) => remote[c] = "registering" /\ state[c] = {"Stop"} /\ ~dropped[c]

Failure(c) ==
    "Err" \in state[c] => "Start" \notin state[c] /\ conn[c] \in {"broken", "nil"}

\* Every deletion of a client is known to it, other than the one of a client
\* that was refused for its silence.
Deletion(c) ==
    /\ \A p \in Procs : Deleting(p) /\ Target(p) = c =>
          dropped[c] \/ (p = Reader(c) /\ timedOut[c] /\ remote[c] = "dialled")
    /\ dropped[c] /\ remote[c] = "dialled" => conn[c] \in {"broken", "nil"}

Routing(c) ==
    /\ pc[Reader(c)] \in {"load", "enter", "topic", "reply"} => c \in harborClient
    /\ pc[Reader(c)] = "reply" => c \in topicClients[topic[c]]
    /\ remote[c] \in {"registered", "stopped"} /\ ~dropped[c]
         => c \in harborClient /\ c \in topicClients[topic[c]]

\* Close has been asked for, runs or has run.
Closing(c) == asked[c] > 0 \/ pc[Closer(c)] # "idle" \/ conn[c] = "nil"

Gone(c) ==
    ~timedOut[c] =>
       /\ \A p \in Procs : pc[p] = "delTopic" /\ Target(p) = c => Off(c)
       /\ Closing(c) => dropped[c] /\ Off(c) /\ ~Subscribes(c)

Closed(c) ==
    /\ pc[Closer(c)] # "idle" => clientLock[c] = Closer(c)
    /\ pc[Closer(c)] = "waitWriter" => pc[Reader(c)] = "gone"
    /\ conn[c] = "nil" =>
          \/ clientLock[c] = Closer(c)
          \/ pc[Reader(c)] = "gone" /\ "Stop" \in state[c]

ClientInv(c) ==
    /\ Ident(c) /\ Fresh(c) /\ Registration(c) /\ Failure(c)
    /\ Deletion(c) /\ Routing(c) /\ Gone(c) /\ Closed(c)

\* TopicClients.IsOk at work, on the one entry that a topic has: it is there
\* before a client is added to it.
TopicInv ==
    /\ \A t \in Topics : \A c, d \in topicClients[t] : c = d
    /\ \A t \in Topics \ topics : topicClients[t] = {}
    /\ \A c \in Clients : pc[Reader(c)] = "topic" => topic[c] \in topics

RInv == TypeOK /\ PlaceInv /\ TopicInv /\ \A c \in Clients : ClientInv(c)

USE RegistryAssumption, NobodyAssumption DEF maps, locks, ident, hist

-----------------------------------------------------------------------------
\* The goroutines, told apart.
LEMMA Names ==
    /\ \A c \in Clients :
          /\ Reader(c) \in Procs /\ Writer(c) \in Procs /\ Closer(c) \in Procs
          /\ Target(Reader(c)) = c /\ Target(Writer(c)) = c /\ Target(Closer(c)) = c
          /\ Reader(c) # Nobody /\ Writer(c) # Nobody /\ Closer(c) # Nobody
    /\ \A q \in Queues : Queue(q) \in Procs /\ Target(Queue(q)) = client[q]
    /\ \A c, d \in Clients :
          /\ Reader(c) = Reader(d) => c = d
          /\ Writer(c) = Writer(d) => c = d
          /\ Closer(c) = Closer(d) => c = d
          /\ Reader(c) # Writer(d) /\ Reader(c) # Closer(d) /\ Writer(c) # Closer(d)
    /\ \A q, r \in Queues : Queue(q) = Queue(r) => q = r
    /\ \A c \in Clients, q \in Queues :
          Queue(q) # Reader(c) /\ Queue(q) # Writer(c) /\ Queue(q) # Closer(c)
    /\ \A p \in Procs :
          \/ \E c \in Clients : p = Reader(c) \/ p = Writer(c) \/ p = Closer(c)
          \/ \E q \in Queues : p = Queue(q)
<1>1. \A c \in Clients :
          /\ Reader(c) \in Procs /\ Writer(c) \in Procs /\ Closer(c) \in Procs
          /\ Target(Reader(c)) = c /\ Target(Writer(c)) = c /\ Target(Closer(c)) = c
  BY DEF Reader, Writer, Closer, Procs, OfClients, Target
<1>2. \A q \in Queues : Queue(q) \in Procs /\ Target(Queue(q)) = client[q]
  BY DEF Queue, Procs, Target
<1>3. \A c, d \in Clients :
          /\ Reader(c) = Reader(d) => c = d
          /\ Writer(c) = Writer(d) => c = d
          /\ Closer(c) = Closer(d) => c = d
          /\ Reader(c) # Writer(d) /\ Reader(c) # Closer(d) /\ Writer(c) # Closer(d)
  BY DEF Reader, Writer, Closer
<1>4. /\ \A q, r \in Queues : Queue(q) = Queue(r) => q = r
      /\ \A c \in Clients, q \in Queues :
            Queue(q) # Reader(c) /\ Queue(q) # Writer(c) /\ Queue(q) # Closer(c)
  BY DEF Reader, Writer, Closer, Queue
<1>5. \A p \in Procs :
          \/ \E c \in Clients : p = Reader(c) \/ p = Writer(c) \/ p = Closer(c)
          \/ \E q \in Queues : p = Queue(q)
  BY DEF Reader, Writer, Closer, Queue, Procs, OfClients
<1> QED BY <1>1, <1>2, <1>3, <1>4, <1>5

\* A goroutine that reads, writes or deletes has a client.
LEMMA Targets ==
  ASSUME TypeOK, PlaceInv, NEW p \in Procs,
         pc[p] \in {"reading", "writing", "unregister", "delTopic"}
  PROVE  /\ Target(p) \in Clients
         /\ \/ p = Reader(Target(p)) \/ p = Writer(Target(p))
            \/ \E q \in Queues : p = Queue(q) /\ client[q] = Target(p)
         /\ \A d \in Clients : p # Closer(d)
  BY Names, SMTT(30) DEF TypeOK, PlaceInv

\* Nothing is registered and nobody deletes.
LEMMA Initially == Init => RInv
<1> SUFFICES ASSUME Init PROVE RInv
  OBVIOUS
<1>1. TypeOK
  BY DEF Init, TypeOK, Flags, Labels
<1>2. PlaceInv
  BY Names DEF Init, PlaceInv, Reader, Writer, Closer, Queue
<1>3. TopicInv
  BY Names DEF Init, TopicInv, Reader
<1>4. ASSUME NEW c \in Clients PROVE ClientInv(c)
  <2>1. /\ pc[Reader(c)] = "read" /\ pc[Writer(c)] = "idle" /\ pc[Closer(c)] = "idle"
        /\ \A p \in Procs : ~Deleting(p)
    BY Names DEF Init, Deleting, Reader, Writer, Closer
  <2>2. Ident(c) /\ Fresh(c) /\ Registration(c) /\ Failure(c)
    BY <2>1 DEF Init, Ident, Fresh, Registration, Failure, Off, Subscribes, Registering
  <2>3. Deletion(c) /\ Routing(c) /\ Gone(c) /\ Closed(c)
    BY <2>1 DEF Init, Deletion, Routing, Gone, Closed, Closing, Deleting
  <2> QED BY <2>2, <2>3 DEF ClientInv
<1> QED BY <1>1, <1>2, <1>3, <1>4 DEF RInv

-----------------------------------------------------------------------------
\* LoadOrStore changes nothing for the clients of a topic.
LEMMA EntersOnce ==
  ASSUME RInv, NEW c \in Clients, EnterTopic(c)
  PROVE  topic[c] \in Topics /\ topicClients' = topicClients /\ topics' = topics \cup {topic[c]}
<1>1. TypeOK /\ TopicInv /\ ClientInv(c) /\ pc[Reader(c)] = "enter"
  BY DEF RInv, EnterTopic
<1>2. topic[c] \in Topics
  BY <1>1 DEF ClientInv, Ident, Registration, Registering
<1>3. LoadOrStore(topic[c]) = topicClients[topic[c]]
  BY <1>1, <1>2 DEF LoadOrStore, TopicInv
<1> QED BY <1>1, <1>2, <1>3 DEF EnterTopic, TypeOK

LEMMA TypeStep == RInv /\ Next => TypeOK'
<1> SUFFICES ASSUME RInv, Next PROVE TypeOK'
  OBVIOUS
<1> USE DEF Goto, Labels
<1>0. TypeOK /\ PlaceInv
  BY DEF RInv
<1>1. ASSUME NEW c \in Clients, AddClient(c) \/ Break(c) PROVE TypeOK'
  <2>1. CASE AddClient(c)
    BY <1>0, <2>1 DEF TypeOK, Flags, AddClient
  <2>2. CASE Break(c)
    BY <1>0, <2>2 DEF TypeOK, Break
  <2> QED BY <1>1, <2>1, <2>2
<1>2. ASSUME NEW c \in Clients,
             ReaderGetConn(c) \/ ReaderLeaves(c) \/ RefuseUnregistered(c) \/ WriterGetConn(c)
      PROVE  TypeOK'
  BY <1>0, <1>2 DEF TypeOK, ReaderGetConn, ReaderLeaves, RefuseUnregistered, WriterGetConn
<1>3. ASSUME NEW c \in Clients, NEW i \in Instances, NEW t \in Topics,
             Register(c, i, t) \/ RegisterTags(c, i, t)
      PROVE  TypeOK'
  <2>1. CASE Register(c, i, t)
    BY <1>0, <2>1 DEF TypeOK, Flags, Register, StateWhileRegistering
  <2>2. CASE RegisterTags(c, i, t)
    BY <1>0, <2>2 DEF TypeOK, RegisterTags
  <2> QED BY <1>3, <2>1, <2>2
<1>4. ASSUME NEW c \in Clients,
             StopSubscribe(c) \/ CloseRequest(c) \/ Refuse(c) \/ ReplyAndStart(c)
      PROVE  TypeOK'
  <2>1. CASE StopSubscribe(c) \/ ReplyAndStart(c)
    BY <1>0, <2>1, SMTT(30) DEF TypeOK, Flags, StopSubscribe, ReplyAndStart
  <2>2. CASE CloseRequest(c)
    BY <1>0, <2>2 DEF TypeOK, CloseRequest
  <2>3. CASE Refuse(c)
    BY <1>0, <2>3 DEF TypeOK, Refuse
  <2> QED BY <1>4, <2>1, <2>2, <2>3
<1>5. ASSUME NEW c \in Clients, Confirm(c) PROVE TypeOK'
  BY <1>0, <1>5 DEF TypeOK, Confirm
<1>6. ASSUME NEW c \in Clients, ClaimInstance(c) PROVE TypeOK'
  <2>1. /\ \/ instanceClient' = instanceClient
           \/ instanceClient' = [instanceClient EXCEPT ![instance[c]] = c]
        /\ harborClient' = harborClient \/ harborClient' = harborClient \cup {c}
        /\ dropped' = dropped \/ dropped' = [dropped EXCEPT ![c] = TRUE]
    BY <1>6 DEF ClaimInstance
  <2>2. \E l \in {"load", "unregister"} : pc' = [pc EXCEPT ![Reader(c)] = l]
    BY <1>6 DEF ClaimInstance
  <2>3. instanceClient' \in [Instances -> Clients \cup {Nobody}]
    BY <1>0, <2>1 DEF TypeOK
  <2>4. harborClient' \subseteq Clients /\ dropped' \in [Clients -> BOOLEAN]
    BY <1>0, <2>1 DEF TypeOK
  <2> QED BY <1>0, <1>6, <2>2, <2>3, <2>4 DEF TypeOK, ClaimInstance
<1>7. ASSUME NEW c \in Clients, JoinTopic(c) PROVE TypeOK'
  <2>1. /\ \/ topicClients' = topicClients
           \/ topicClients' = [topicClients EXCEPT ![topic[c]] = @ \cup {c}]
        /\ dropped' = dropped \/ dropped' = [dropped EXCEPT ![c] = TRUE]
    BY <1>7 DEF JoinTopic
  <2>2. \E l \in {"reply", "unregister"} : pc' = [pc EXCEPT ![Reader(c)] = l]
    BY <1>7 DEF JoinTopic
  <2>3. topicClients' \in [Topics -> SUBSET Clients]
    BY <1>0, <2>1 DEF TypeOK
  <2>4. dropped' \in [Clients -> BOOLEAN]
    BY <1>0, <2>1 DEF TypeOK
  <2> QED BY <1>0, <1>7, <2>2, <2>3, <2>4 DEF TypeOK, JoinTopic
<1>8. ASSUME NEW c \in Clients, CloseBegin(c) PROVE TypeOK'
  <2>1. asked' \in [Clients -> Nat]
    BY <1>0, <1>8 DEF TypeOK, CloseBegin, Asked
  <2>2. /\ \E k \in {Closer(c), Nobody} : clientLock' = [clientLock EXCEPT ![c] = k]
        /\ state' = state \/ state' = [state EXCEPT ![c] = @ \cup {"Stopping"}]
        /\ pc' = pc \/ pc' = [pc EXCEPT ![Closer(c)] = "closeConn"]
    BY <1>8 DEF CloseBegin, OnReturn
  <2>3. clientLock' \in [Clients -> Procs \cup {Nobody}]
    BY <1>0, <2>2, Names DEF TypeOK
  <2>4. state' \in [Clients -> SUBSET Flags]
    BY <1>0, <2>2 DEF TypeOK, Flags
  <2> QED BY <1>0, <1>8, <2>1, <2>2, <2>3, <2>4 DEF TypeOK, CloseBegin
<1>9. ASSUME NEW c \in Clients, CloseConn(c) \/ CloseStopsWriter(c) \/ CloseEnd(c)
      PROVE  TypeOK'
  <2>1. CASE CloseConn(c)
    BY <1>0, <2>1 DEF TypeOK, CloseConn
  <2>2. CASE CloseStopsWriter(c)
    BY <1>0, <2>2 DEF TypeOK, CloseStopsWriter
  <2>3. CASE CloseEnd(c)
    BY <1>0, <2>3 DEF TypeOK, Flags, CloseEnd
  <2> QED BY <1>9, <2>1, <2>2, <2>3
<1>10. ASSUME NEW q \in Queues, NEW c \in Clients, AskClient(q, c) PROVE TypeOK'
  BY <1>0, <1>10 DEF TypeOK, AskClient, AfterLookup
<1>11. ASSUME NEW q \in Queues, LookupTopic(q) \/ QueueGetConn(q) PROVE TypeOK'
  <2>1. CASE LookupTopic(q)
    <3>1. topicLock' \in [Topics -> Procs \cup {Nobody}]
      BY <1>0, <2>1, Names DEF TypeOK, LookupTopic
    <3> QED BY <1>0, <2>1, <3>1 DEF TypeOK, LookupTopic
  <2>2. CASE QueueGetConn(q)
    <3>1. client' \in [Queues -> Clients \cup {Nobody}]
      BY <1>0, <2>2 DEF TypeOK, QueueGetConn
    <3>2. \E l \in {"idle", "writing"} : pc' = [pc EXCEPT ![Queue(q)] = l]
      BY <2>2 DEF QueueGetConn
    <3>3. pc' \in [Procs -> Labels]
      BY <1>0, <3>2 DEF TypeOK
    <3> QED BY <1>0, <2>2, <3>1, <3>3 DEF TypeOK, QueueGetConn
  <2> QED BY <1>11, <2>1, <2>2
<1>12. ASSUME NEW p \in Procs, Write(p) PROVE TypeOK'
  BY <1>0, <1>12 DEF TypeOK, Write
<1>13. ASSUME NEW p \in Procs, Error(p) PROVE TypeOK'
  <2>1. Target(p) \in Clients /\ Resume(p) \in {"read", "idle"}
    BY <1>0, <1>13, Targets DEF Error, Failing, Resume
  <2>2. client' \in [Queues -> Clients \cup {Nobody}]
    BY <1>0, <1>13 DEF TypeOK, Error, ForgetAfter
  <2>3. CASE client' = client /\ IsError(Target(p))
    <3>1. (state[Target(p)] \ {"Start"}) \cup {"Err"} \in SUBSET Flags
      BY <1>0, <2>1 DEF TypeOK, Flags
    <3>2. state' \in [Clients -> SUBSET Flags]
      BY <1>0, <1>13, <2>3, <3>1 DEF TypeOK, Error
    <3>3. clientLock' \in [Clients -> Procs \cup {Nobody}] /\ dropped' \in [Clients -> BOOLEAN]
      <4>1. /\ clientLock' = [clientLock EXCEPT ![Target(p)] = p]
            /\ dropped' = [dropped EXCEPT ![Target(p)] = TRUE]
        BY <1>13, <2>3 DEF Error
      <4> QED BY <1>0, <4>1 DEF TypeOK
    <3> QED BY <1>0, <1>13, <2>3, <3>2, <3>3 DEF TypeOK, Error
  <2>4. CASE ~IsError(Target(p))
    BY <1>0, <1>13, <2>1, <2>2, <2>4 DEF TypeOK, Error
  <2> QED BY <1>13, <2>3, <2>4 DEF Error
<1>14. ASSUME NEW p \in Procs, Unregister(p) PROVE TypeOK'
  BY <1>0, <1>14 DEF TypeOK, Unregister
<1>15. ASSUME NEW p \in Procs, DelTopic(p) PROVE TypeOK'
  <2>1. Target(p) \in Clients /\ Resume(p) \in {"read", "idle"}
    BY <1>0, <1>15, Targets DEF DelTopic, Resume
  <2>2. client' \in [Queues -> Clients \cup {Nobody}]
    BY <1>0, <1>15 DEF TypeOK, DelTopic, ForgetAfter
  <2> QED BY <1>0, <1>15, <2>1, <2>2 DEF TypeOK, DelTopic, Del
<1>16. ASSUME NEW c \in Clients, LoadTopic(c) PROVE TypeOK'
  <2>1. \E l \in {"topic", "enter"} : pc' = [pc EXCEPT ![Reader(c)] = l]
    BY <1>16 DEF LoadTopic
  <2> QED BY <1>0, <1>16, <2>1 DEF TypeOK, LoadTopic
<1>17. ASSUME NEW c \in Clients, EnterTopic(c) PROVE TypeOK'
  BY <1>17, EntersOnce, <1>0 DEF TypeOK, EnterTopic
<1> QED
  BY <1>1, <1>2, <1>3, <1>4, <1>5, <1>6, <1>7, <1>8, <1>9, <1>10, <1>11, <1>12, <1>13,
     <1>14, <1>15, <1>16, <1>17 DEF Next, Handle, OnMqRegister, Close, QueueStep, CloseSelf

-----------------------------------------------------------------------------
LEMMA PlaceStep == RInv /\ Next => PlaceInv'
<1> SUFFICES ASSUME RInv, Next PROVE PlaceInv'
  OBVIOUS
<1>0. TypeOK /\ PlaceInv
  BY DEF RInv
<1>1. ASSUME NEW c \in Clients,
             \/ pc' = pc
             \/ \E l \in {"read", "reading", "gone", "panicked", "claim", "load",
                          "enter", "topic", "reply", "confirm", "unregister", "delTopic"} :
                   pc' = [pc EXCEPT ![Reader(c)] = l]
             \/ \E l \in {"idle", "writing", "unregister", "delTopic"} :
                   pc' = [pc EXCEPT ![Writer(c)] = l]
             \/ \E l \in {"idle", "closeConn", "waitReader", "waitWriter"} :
                   pc' = [pc EXCEPT ![Closer(c)] = l],
             client' = client
      PROVE  PlaceInv'
  <2>1. CASE pc' = pc
    BY <1>0, <1>1, <2>1 DEF PlaceInv
  <2>2. ASSUME NEW l \in {"read", "reading", "gone", "panicked", "claim", "load",
                          "enter", "topic", "reply", "confirm", "unregister", "delTopic"},
               pc' = [pc EXCEPT ![Reader(c)] = l]
        PROVE  PlaceInv'
    BY <1>0, <1>1, <2>2, Names DEF PlaceInv, TypeOK
  <2>3. ASSUME NEW l \in {"idle", "writing", "unregister", "delTopic"},
               pc' = [pc EXCEPT ![Writer(c)] = l]
        PROVE  PlaceInv'
    BY <1>0, <1>1, <2>3, Names DEF PlaceInv, TypeOK
  <2>4. ASSUME NEW l \in {"idle", "closeConn", "waitReader", "waitWriter"},
               pc' = [pc EXCEPT ![Closer(c)] = l]
        PROVE  PlaceInv'
    BY <1>0, <1>1, <2>4, Names DEF PlaceInv, TypeOK
  <2> QED BY <1>1, <2>1, <2>2, <2>3, <2>4
<1>2. ASSUME NEW q \in Queues,
             NEW l \in {"idle", "asking", "writing", "unregister", "delTopic"},
             pc' = [pc EXCEPT ![Queue(q)] = l],
             \A r \in Queues : r # q => client'[r] = client[r],
             l \in {"writing", "unregister", "delTopic"} => client'[q] # Nobody
      PROVE  PlaceInv'
  BY <1>0, <1>2, Names DEF PlaceInv, TypeOK
<1>3. ASSUME NEW c \in Clients, AddClient(c) \/ Break(c) PROVE PlaceInv'
  BY <1>1, <1>3 DEF AddClient, Break
<1>4. ASSUME NEW c \in Clients, Handle(c) \/ OnMqRegister(c) PROVE PlaceInv'
  BY <1>1, <1>4 DEF Handle, OnMqRegister, RefuseUnregistered, Register, RegisterTags,
     StopSubscribe, CloseRequest, Refuse, Confirm, ClaimInstance, LoadTopic, EnterTopic,
     JoinTopic, ReplyAndStart, Goto
<1>5. ASSUME NEW c \in Clients, ReaderGetConn(c) \/ ReaderLeaves(c) \/ WriterGetConn(c)
      PROVE  PlaceInv'
  BY <1>1, <1>5 DEF ReaderGetConn, ReaderLeaves, WriterGetConn, Goto
<1>6. ASSUME NEW c \in Clients, Close(c) PROVE PlaceInv'
  BY <1>1, <1>6 DEF Close, CloseBegin, CloseConn, CloseStopsWriter, CloseEnd, Goto
<1>7. ASSUME NEW q \in Queues, QueueStep(q) PROVE PlaceInv'
  <2>1. ASSUME NEW c \in Clients, AskClient(q, c) PROVE PlaceInv'
    BY <1>0, <1>2, <2>1 DEF AskClient, Goto, TypeOK
  <2>2. CASE LookupTopic(q)
    BY <1>2, <2>2 DEF LookupTopic, Goto
  <2>3. CASE QueueGetConn(q)
    <3>1. /\ pc' = [pc EXCEPT ![Queue(q)] = "idle"] \/ pc' = [pc EXCEPT ![Queue(q)] = "writing"]
          /\ client' = [client EXCEPT ![q] = Nobody] \/ client' = client
          /\ pc' = [pc EXCEPT ![Queue(q)] = "idle"] \/ client' = client
          /\ client[q] # Nobody
      BY <2>3 DEF QueueGetConn, Goto
    <3> QED BY <1>0, <1>2, <3>1 DEF TypeOK
  <2> QED BY <1>7, <2>1, <2>2, <2>3 DEF QueueStep
<1>8. ASSUME NEW p \in Procs, Write(p) \/ Error(p) \/ CloseSelf(p) PROVE PlaceInv'
  <2>1. pc[p] \in {"reading", "writing", "unregister", "delTopic"}
    BY <1>8 DEF Write, Error, Failing, CloseSelf, Unregister, DelTopic
  <2>2. \/ pc' = [pc EXCEPT ![p] = "idle"] /\ Write(p) /\ client' = client
        \/ /\ \E l \in {"unregister", "delTopic"} : pc' = [pc EXCEPT ![p] = l]
           /\ client' = client
        \/ pc' = [pc EXCEPT ![p] = Resume(p)] /\ ForgetAfter(p)
    BY <1>8 DEF Write, Error, CloseSelf, Unregister, DelTopic, Goto
  <2>3. \/ \E c \in Clients : p = Reader(c) \/ p = Writer(c)
        \/ \E q \in Queues : p = Queue(q)
    BY <1>0, <2>1, Targets
  <2>4. ASSUME NEW c \in Clients, p = Reader(c) PROVE PlaceInv'
    <3>1. Resume(p) = "read" /\ pc[p] # "writing" /\ (ForgetAfter(p) => client' = client)
      BY <1>0, <2>4 DEF Resume, ForgetAfter, PlaceInv, Reader
    <3> QED BY <1>1, <2>2, <2>4, <3>1 DEF Write
  <2>5. ASSUME NEW c \in Clients, p = Writer(c) PROVE PlaceInv'
    <3>1. Resume(p) = "idle" /\ (ForgetAfter(p) => client' = client)
      BY <2>5 DEF Resume, ForgetAfter, Writer
    <3> QED BY <1>1, <2>2, <2>5, <3>1
  <2>6. ASSUME NEW q \in Queues, p = Queue(q) PROVE PlaceInv'
    <3>1. client[q] # Nobody
      BY <1>0, <2>1, <2>6 DEF PlaceInv
    <3>2. /\ Resume(p) = "idle"
          /\ ForgetAfter(p) => \A r \in Queues : r # q => client'[r] = client[r]
      BY <1>0, <2>6, <3>1 DEF Resume, ForgetAfter, Queue, TypeOK
    <3> QED BY <1>2, <2>2, <2>6, <3>1, <3>2
  <2> QED BY <2>3, <2>4, <2>5, <2>6
<1> QED
  BY <1>3, <1>4, <1>5, <1>6, <1>7, <1>8 DEF Next

-----------------------------------------------------------------------------
\* A step of c leaves every other client as it was, but for the instance that
\* a deletion may take from it.
OnlyState(c) ==
    \A d \in Clients \ {c} :
       /\ state'[d] = state[d] /\ conn'[d] = conn[d] /\ harbor'[d] = harbor[d]
       /\ instance'[d] = instance[d] /\ topic'[d] = topic[d]
       /\ told'[d] = told[d] /\ asked'[d] = asked[d] /\ remote'[d] = remote[d]
       /\ timedOut'[d] = timedOut[d] /\ dropped'[d] = dropped[d]
       /\ clientLock'[d] = clientLock[d]

OnlyMaps(c) ==
    \A d \in Clients \ {c} :
       /\ d \in harborClient' <=> d \in harborClient
       /\ \A t \in Topics : d \in topicClients'[t] <=> d \in topicClients[t]
       /\ \A i \in Instances : instanceClient'[i] = d => instanceClient[i] = d

OnlyPlaces(c) ==
    \A d \in Clients \ {c} :
       /\ pc'[Reader(d)] = pc[Reader(d)] /\ pc'[Writer(d)] = pc[Writer(d)]
       /\ pc'[Closer(d)] = pc[Closer(d)]
       /\ \A q \in Queues : client'[q] = d => client[q] = d
       /\ \A p \in Procs : Deleting(p)' /\ Target(p)' = d
                              => pc'[p] = pc[p] /\ Target(p) = d

Only(c) == OnlyState(c) /\ OnlyMaps(c) /\ OnlyPlaces(c)

LEMMA OthersKeep ==
  ASSUME NEW c \in Clients, NEW d \in Clients, c # d, Only(c), TypeOK, ClientInv(d)
  PROVE  ClientInv(d)'
<1> DEFINE O == /\ state'[d] = state[d] /\ conn'[d] = conn[d] /\ harbor'[d] = harbor[d]
                /\ instance'[d] = instance[d] /\ topic'[d] = topic[d]
                /\ told'[d] = told[d] /\ asked'[d] = asked[d] /\ remote'[d] = remote[d]
                /\ timedOut'[d] = timedOut[d] /\ dropped'[d] = dropped[d]
                /\ clientLock'[d] = clientLock[d]
                /\ pc'[Reader(d)] = pc[Reader(d)] /\ pc'[Writer(d)] = pc[Writer(d)]
                /\ pc'[Closer(d)] = pc[Closer(d)]
<1>1. O
  BY DEF Only, OnlyState, OnlyPlaces
<1>2. /\ d \in harborClient' <=> d \in harborClient
      /\ \A t \in Topics : d \in topicClients'[t] <=> d \in topicClients[t]
      /\ \A i \in Instances : instanceClient'[i] = d => instanceClient[i] = d
      /\ \A q \in Queues : client'[q] = d => client[q] = d
  BY DEF Only, OnlyMaps, OnlyPlaces
<1>3. \A p \in Procs : Deleting(p)' /\ Target(p)' = d => pc'[p] = pc[p] /\ Target(p) = d
  BY DEF Only, OnlyPlaces
<1>4. Off(d) => Off(d)'
  BY <1>2 DEF Off
<1>5. Subscribes(d)' => Subscribes(d)
  BY <1>2 DEF Subscribes
<1>6. Ident(d)'
  BY <1>1, <1>2, <1>4, <1>5 DEF Ident, ClientInv
<1>7. Fresh(d)' /\ Registration(d)' /\ Failure(d)' /\ Closed(d)'
  BY <1>1 DEF Fresh, Registration, Registering, Failure, Closed, ClientInv
<1>8. Deletion(d)'
  BY <1>1, <1>3 DEF Deletion, Deleting, ClientInv
<1>9. Routing(d)'
  <2>1. remote[d] # "dialled" => topic[d] \in Topics
    BY DEF ClientInv, Ident
  <2>2. pc[Reader(d)] = "reply" => remote[d] # "dialled"
    BY DEF ClientInv, Registration, Registering
  <2> QED BY <1>1, <1>2, <2>1, <2>2 DEF Routing, ClientInv
<1>10. Gone(d)'
  BY <1>1, <1>3, <1>4, <1>5 DEF Gone, Closing, Deleting, ClientInv
<1> QED BY <1>6, <1>7, <1>8, <1>9, <1>10 DEF ClientInv

\* What a goroutine of c does to its own place is nothing to another client.
LEMMA PlacesOfOthers ==
  ASSUME TypeOK, NEW c \in Clients, client' = client,
         pc' = pc \/ \E p \in {Reader(c), Writer(c), Closer(c)}, l \in Labels :
                        pc' = [pc EXCEPT ![p] = l]
  PROVE  OnlyPlaces(c)
<1>1. \A p \in Procs : Target(p)' = Target(p)
  BY DEF Target
<1>2. CASE pc' = pc
  BY <1>1, <1>2 DEF OnlyPlaces, Deleting
<1>3. ASSUME NEW p \in {Reader(c), Writer(c), Closer(c)}, NEW l \in Labels,
             pc' = [pc EXCEPT ![p] = l]
      PROVE  OnlyPlaces(c)
  BY <1>1, <1>3, Names DEF OnlyPlaces, Deleting, TypeOK
<1> QED BY <1>2, <1>3

\* The same for a queue, which may turn from one client to another.
LEMMA PlacesOfQueue ==
  ASSUME TypeOK, NEW c \in Clients, NEW q \in Queues, NEW l \in Labels,
         pc' = [pc EXCEPT ![Queue(q)] = l],
         l \in {"unregister", "delTopic"} => client[q] = c /\ client' = client,
         client' = client \/ client' = [client EXCEPT ![q] = Nobody]
                          \/ client' = [client EXCEPT ![q] = c]
  PROVE  OnlyPlaces(c)
<1> SUFFICES ASSUME NEW d \in Clients \ {c}
             PROVE  /\ pc'[Reader(d)] = pc[Reader(d)] /\ pc'[Writer(d)] = pc[Writer(d)]
                    /\ pc'[Closer(d)] = pc[Closer(d)]
                    /\ \A r \in Queues : client'[r] = d => client[r] = d
                    /\ \A p \in Procs : Deleting(p)' /\ Target(p)' = d
                                           => pc'[p] = pc[p] /\ Target(p) = d
  BY DEF OnlyPlaces
<1>1. /\ pc'[Reader(d)] = pc[Reader(d)] /\ pc'[Writer(d)] = pc[Writer(d)]
      /\ pc'[Closer(d)] = pc[Closer(d)]
  BY Names DEF TypeOK
<1>2. \A r \in Queues : client'[r] = d => client[r] = d
  BY DEF TypeOK
<1>3. ASSUME NEW p \in Procs, Deleting(p)', Target(p)' = d
      PROVE  pc'[p] = pc[p] /\ Target(p) = d
  <2>1. CASE p = Queue(q)
    BY <1>3, <2>1, Names DEF Deleting, Target, TypeOK
  <2>2. CASE p # Queue(q)
    <3>1. pc'[p] = pc[p]
      BY <2>2
    <3>2. CASE p[1] = "queue"
      BY <1>2, <1>3, <3>1, <3>2 DEF Target, Procs, OfClients
    <3>3. CASE p[1] # "queue"
      BY <1>3, <3>1, <3>3 DEF Target
    <3> QED BY <3>1, <3>2, <3>3
  <2> QED BY <2>1, <2>2
<1> QED BY <1>1, <1>2, <1>3

-----------------------------------------------------------------------------
\* A step of a client's reader, writer or Close.
ClientStep(c) ==
    \/ AddClient(c) \/ Break(c) \/ ReaderGetConn(c) \/ ReaderLeaves(c)
    \/ Handle(c) \/ OnMqRegister(c) \/ WriterGetConn(c) \/ Close(c)

LEMMA ClientStepsAlone ==
  ASSUME RInv, NEW c \in Clients, ClientStep(c)
  PROVE  Only(c)
<1>0. TypeOK
  BY DEF RInv
<1>1. CASE AddClient(c) \/ Break(c) \/ ReaderGetConn(c) \/ ReaderLeaves(c) \/ WriterGetConn(c)
  <2>1. /\ client' = client
        /\ pc' = pc \/ \E p \in {Reader(c), Writer(c), Closer(c)}, l \in Labels :
                          pc' = [pc EXCEPT ![p] = l]
    BY <1>1 DEF AddClient, Break, ReaderGetConn, ReaderLeaves, WriterGetConn, Goto, Labels
  <2>2. OnlyPlaces(c)
    BY <1>0, <2>1, PlacesOfOthers
  <2> QED
    BY <1>0, <1>1, <2>2 DEF Only, OnlyState, OnlyMaps, TypeOK,
       AddClient, Break, ReaderGetConn, ReaderLeaves, WriterGetConn
<1>2. CASE Handle(c)
  <2>1. /\ client' = client
        /\ pc' = pc \/ \E p \in {Reader(c), Writer(c), Closer(c)}, l \in Labels :
                          pc' = [pc EXCEPT ![p] = l]
    BY <1>2 DEF Handle, RefuseUnregistered, Register, RegisterTags,
       StopSubscribe, CloseRequest, Refuse, Confirm, Goto, Labels
  <2>2. OnlyPlaces(c)
    BY <1>0, <2>1, PlacesOfOthers
  <2>3. OnlyMaps(c)
    BY <1>2 DEF OnlyMaps, Handle, RefuseUnregistered, Register, RegisterTags,
       StopSubscribe, CloseRequest, Refuse, Confirm
  <2>4. OnlyState(c)
    BY <1>0, <1>2 DEF OnlyState, TypeOK, Handle, RefuseUnregistered, Register, RegisterTags,
       StopSubscribe, CloseRequest, Refuse, Confirm
  <2> QED BY <2>2, <2>3, <2>4 DEF Only
<1>3. CASE OnMqRegister(c)
  <2>1. /\ client' = client
        /\ pc' = pc \/ \E p \in {Reader(c), Writer(c), Closer(c)}, l \in Labels :
                          pc' = [pc EXCEPT ![p] = l]
    BY <1>3 DEF OnMqRegister, ClaimInstance, LoadTopic, EnterTopic, JoinTopic, ReplyAndStart,
       Goto, Labels
  <2>2. OnlyPlaces(c)
    BY <1>0, <2>1, PlacesOfOthers
  <2>3. OnlyState(c)
    BY <1>0, <1>3 DEF OnlyState, TypeOK, OnMqRegister, ClaimInstance, LoadTopic, EnterTopic,
       JoinTopic, ReplyAndStart
  <2>4. CASE ClaimInstance(c)
    <3>1. /\ \/ instanceClient' = instanceClient
             \/ instanceClient' = [instanceClient EXCEPT ![instance[c]] = c]
          /\ harborClient' = harborClient \/ harborClient' = harborClient \cup {c}
          /\ topicClients' = topicClients
      BY <2>4 DEF ClaimInstance
    <3>2. \A d \in Clients \ {c}, i \in Instances : instanceClient'[i] = d => instanceClient[i] = d
      BY <1>0, <3>1 DEF TypeOK
    <3>3. OnlyMaps(c)
      BY <3>1, <3>2 DEF OnlyMaps
    <3> QED BY <2>2, <2>3, <3>3 DEF Only
  <2>5. CASE JoinTopic(c)
    <3>1. \/ topicClients' = topicClients
          \/ topicClients' = [topicClients EXCEPT ![topic[c]] = @ \cup {c}]
      BY <2>5 DEF JoinTopic
    <3>2. \A d \in Clients \ {c}, t \in Topics : d \in topicClients'[t] <=> d \in topicClients[t]
      BY <1>0, <3>1 DEF TypeOK
    <3>3. instanceClient' = instanceClient /\ harborClient' = harborClient
      BY <2>5 DEF JoinTopic
    <3>4. OnlyMaps(c)
      BY <3>2, <3>3 DEF OnlyMaps
    <3> QED BY <2>2, <2>3, <3>4 DEF Only
  <2>6. CASE LoadTopic(c) \/ EnterTopic(c) \/ ReplyAndStart(c)
    <3>1. /\ instanceClient' = instanceClient /\ harborClient' = harborClient
          /\ topicClients' = topicClients
      BY <2>6, EntersOnce DEF LoadTopic, EnterTopic, ReplyAndStart
    <3>2. OnlyMaps(c)
      BY <3>1 DEF OnlyMaps
    <3> QED BY <2>2, <2>3, <3>2 DEF Only
  <2> QED BY <1>3, <2>4, <2>5, <2>6 DEF OnMqRegister
<1>4. CASE Close(c)
  <2>1. /\ client' = client
        /\ pc' = pc \/ \E p \in {Reader(c), Writer(c), Closer(c)}, l \in Labels :
                          pc' = [pc EXCEPT ![p] = l]
    BY <1>4 DEF Close, CloseBegin, CloseConn, CloseStopsWriter, CloseEnd, Goto, Labels
  <2>2. OnlyPlaces(c)
    BY <1>0, <2>1, PlacesOfOthers
  <2>3. OnlyMaps(c)
    BY <1>4 DEF OnlyMaps, Close, CloseBegin, CloseConn, CloseStopsWriter, CloseEnd
  <2>4. OnlyState(c)
    BY <1>0, <1>4 DEF OnlyState, TypeOK, Close, CloseBegin, CloseConn, CloseStopsWriter, CloseEnd
  <2> QED BY <2>2, <2>3, <2>4 DEF Only
<1> QED BY <1>1, <1>2, <1>3, <1>4 DEF ClientStep

\* Write, Error and CloseSelf touch the client that the goroutine works for.
LEMMA TargetsAlone ==
  ASSUME RInv, NEW p \in Procs, Write(p) \/ Error(p) \/ CloseSelf(p)
  PROVE  Target(p) \in Clients /\ Only(Target(p))
<1> DEFINE c == Target(p)
<1>0. TypeOK /\ PlaceInv
  BY DEF RInv
<1>1. pc[p] \in {"reading", "writing", "unregister", "delTopic"}
  BY DEF Write, Error, Failing, CloseSelf, Unregister, DelTopic
<1>2. /\ c \in Clients
      /\ p = Reader(c) \/ p = Writer(c) \/ \E q \in Queues : p = Queue(q) /\ client[q] = c
  BY <1>0, <1>1, Targets
<1>3. \E l \in Labels : /\ pc' = [pc EXCEPT ![p] = l]
                        /\ l \in {"unregister", "delTopic"} => client' = client
                        /\ client' = client \/ ForgetAfter(p)
  BY DEF Write, Error, CloseSelf, Unregister, DelTopic, Goto, Resume, Labels
<1>4. OnlyPlaces(c)
  <2>1. CASE p = Reader(c) \/ p = Writer(c)
    <3>1. client' = client
      BY <1>3, <2>1 DEF ForgetAfter, Reader, Writer
    <3> QED BY <1>0, <1>2, <1>3, <2>1, <3>1, PlacesOfOthers
  <2>2. ASSUME NEW q \in Queues, p = Queue(q), client[q] = c PROVE OnlyPlaces(c)
    <3>1. client' = client \/ client' = [client EXCEPT ![q] = Nobody]
      BY <1>3, <2>2 DEF ForgetAfter, Queue
    <3> HIDE DEF c
    <3> QED BY <1>0, <1>2, <1>3, <2>2, <3>1, PlacesOfQueue
  <2> QED BY <1>2, <2>1, <2>2
<1>5. OnlyState(c)
  BY <1>0, <1>2 DEF OnlyState, TypeOK, Write, Error, CloseSelf, Unregister, DelTopic
<1>6. OnlyMaps(c)
  <2>1. CASE Write(p) \/ Error(p)
    BY <2>1 DEF OnlyMaps, Write, Error
  <2>2. CASE Unregister(p)
    BY <1>0, <2>2 DEF OnlyMaps, Unregister, TypeOK
  <2>3. CASE DelTopic(p)
    BY <1>0, <2>3 DEF OnlyMaps, DelTopic, Del, TypeOK
  <2> QED BY <2>1, <2>2, <2>3 DEF CloseSelf
<1> QED BY <1>2, <1>4, <1>5, <1>6 DEF Only

-----------------------------------------------------------------------------
LEMMA AddClientKeeps ==
  ASSUME RInv, NEW c \in Clients, AddClient(c)
  PROVE  ClientInv(c)'
<1>0. TypeOK /\ PlaceInv /\ ClientInv(c)
  BY DEF RInv
<1>2. Ident(c)'
  BY <1>0, Names DEF AddClient, Goto, TypeOK, Ident, ClientInv, Off, Subscribes, Fresh, PlaceInv, Registration, Registering
<1>3. Fresh(c)' /\ Registration(c)'
  BY <1>0, Names DEF AddClient, Goto, TypeOK, Fresh, ClientInv, Registration, Registering
<1>4. Failure(c)' /\ Closed(c)'
  BY <1>0, Names DEF AddClient, Goto, TypeOK, Fresh, ClientInv, Failure, Closed, Registration, Registering
<1>5. Deletion(c)'
  BY <1>0, Names DEF AddClient, Goto, TypeOK, Fresh, Ident, ClientInv, Deletion, Deleting, Registration, Registering, Target
<1>6. Routing(c)'
  BY <1>0, Names DEF AddClient, Goto, TypeOK, Ident, ClientInv, Routing, Registration, Registering, Deletion
<1>7. Gone(c)'
  BY <1>0, Names DEF AddClient, Goto, TypeOK, Ident, Fresh, ClientInv, Gone, Closing, Off, Subscribes, Deletion, Deleting, Registration, Registering, Target
<1> QED BY <1>2, <1>3, <1>4, <1>5, <1>6, <1>7 DEF ClientInv

LEMMA BreakKeeps ==
  ASSUME RInv, NEW c \in Clients, Break(c)
  PROVE  ClientInv(c)'
<1>0. TypeOK /\ PlaceInv /\ ClientInv(c)
  BY DEF RInv
<1>2. Ident(c)'
  BY <1>0, Names DEF Break, Goto, TypeOK, Ident, ClientInv, Off, Subscribes, Fresh, PlaceInv, Registration, Registering
<1>3. Fresh(c)' /\ Registration(c)'
  BY <1>0, Names DEF Break, Goto, TypeOK, Fresh, ClientInv, Registration, Registering
<1>4. Failure(c)' /\ Closed(c)'
  BY <1>0, Names DEF Break, Goto, TypeOK, Fresh, ClientInv, Failure, Closed, Registration, Registering
<1>5. Deletion(c)'
  BY <1>0, Names DEF Break, Goto, TypeOK, Fresh, Ident, ClientInv, Deletion, Deleting, Registration, Registering, Target
<1>6. Routing(c)'
  BY <1>0, Names DEF Break, Goto, TypeOK, Ident, ClientInv, Routing, Registration, Registering, Deletion
<1>7. Gone(c)'
  BY <1>0, Names DEF Break, Goto, TypeOK, Ident, Fresh, ClientInv, Gone, Closing, Off, Subscribes, Deletion, Deleting, Registration, Registering, Target
<1> QED BY <1>2, <1>3, <1>4, <1>5, <1>6, <1>7 DEF ClientInv

LEMMA ReaderGetConnKeeps ==
  ASSUME RInv, NEW c \in Clients, ReaderGetConn(c)
  PROVE  ClientInv(c)'
<1>0. TypeOK /\ PlaceInv /\ ClientInv(c)
  BY DEF RInv
<1>2. Ident(c)'
  BY <1>0, Names DEF ReaderGetConn, Usable, Goto, TypeOK, Ident, ClientInv, Off, Subscribes, Fresh, PlaceInv, Registration, Registering
<1>3. Fresh(c)' /\ Registration(c)'
  BY <1>0, Names DEF ReaderGetConn, Usable, Goto, TypeOK, Fresh, ClientInv, Registration, Registering
<1>4. Failure(c)' /\ Closed(c)'
  BY <1>0, Names DEF ReaderGetConn, Usable, Goto, TypeOK, Fresh, ClientInv, Failure, Closed, Registration, Registering
<1>5. Deletion(c)'
  BY <1>0, Names DEF ReaderGetConn, Usable, Goto, TypeOK, Fresh, Ident, ClientInv, Deletion, Deleting, Registration, Registering, Target
<1>6. Routing(c)'
  BY <1>0, Names DEF ReaderGetConn, Usable, Goto, TypeOK, Ident, ClientInv, Routing, Registration, Registering, Deletion
<1>7. Gone(c)'
  BY <1>0, Names DEF ReaderGetConn, Usable, Goto, TypeOK, Ident, Fresh, ClientInv, Gone, Closing, Off, Subscribes, Deletion, Deleting, Registration, Registering, Target
<1> QED BY <1>2, <1>3, <1>4, <1>5, <1>6, <1>7 DEF ClientInv

LEMMA ReaderLeavesKeeps ==
  ASSUME RInv, NEW c \in Clients, ReaderLeaves(c)
  PROVE  ClientInv(c)'
<1>0. TypeOK /\ PlaceInv /\ ClientInv(c)
  BY DEF RInv
<1>2. Ident(c)'
  BY <1>0, Names DEF ReaderLeaves, MayLeave, Goto, TypeOK, Ident, ClientInv, Off, Subscribes, Fresh, PlaceInv, Registration, Registering
<1>3. Fresh(c)' /\ Registration(c)'
  BY <1>0, Names DEF ReaderLeaves, MayLeave, Goto, TypeOK, Fresh, ClientInv, Registration, Registering
<1>4. Failure(c)' /\ Closed(c)'
  BY <1>0, Names DEF ReaderLeaves, MayLeave, Goto, TypeOK, Fresh, ClientInv, Failure, Closed, Registration, Registering
<1>5. Deletion(c)'
  BY <1>0, Names DEF ReaderLeaves, MayLeave, Goto, TypeOK, Fresh, Ident, ClientInv, Deletion, Deleting, Registration, Registering, Target
<1>6. Routing(c)'
  BY <1>0, Names DEF ReaderLeaves, MayLeave, Goto, TypeOK, Ident, ClientInv, Routing, Registration, Registering, Deletion
<1>7. Gone(c)'
  BY <1>0, Names DEF ReaderLeaves, MayLeave, Goto, TypeOK, Ident, Fresh, ClientInv, Gone, Closing, Off, Subscribes, Deletion, Deleting, Registration, Registering, Target
<1> QED BY <1>2, <1>3, <1>4, <1>5, <1>6, <1>7 DEF ClientInv

LEMMA WriterGetConnKeeps ==
  ASSUME RInv, NEW c \in Clients, WriterGetConn(c)
  PROVE  ClientInv(c)'
<1>0. TypeOK /\ PlaceInv /\ ClientInv(c)
  BY DEF RInv
<1>2. Ident(c)'
  BY <1>0, Names DEF WriterGetConn, Usable, Goto, TypeOK, Ident, ClientInv, Off, Subscribes, Fresh, PlaceInv, Registration, Registering
<1>3. Fresh(c)' /\ Registration(c)'
  BY <1>0, Names DEF WriterGetConn, Usable, Goto, TypeOK, Fresh, ClientInv, Registration, Registering
<1>4. Failure(c)' /\ Closed(c)'
  BY <1>0, Names DEF WriterGetConn, Usable, Goto, TypeOK, Fresh, ClientInv, Failure, Closed, Registration, Registering
<1>5. Deletion(c)'
  BY <1>0, Names DEF WriterGetConn, Usable, Goto, TypeOK, Fresh, Ident, ClientInv, Deletion, Deleting, Registration, Registering, Target
<1>6. Routing(c)'
  BY <1>0, Names DEF WriterGetConn, Usable, Goto, TypeOK, Ident, ClientInv, Routing, Registration, Registering, Deletion
<1>7. Gone(c)'
  BY <1>0, Names DEF WriterGetConn, Usable, Goto, TypeOK, Ident, Fresh, ClientInv, Gone, Closing, Off, Subscribes, Deletion, Deleting, Registration, Registering, Target
<1> QED BY <1>2, <1>3, <1>4, <1>5, <1>6, <1>7 DEF ClientInv

LEMMA RefuseUnregisteredKeeps ==
  ASSUME RInv, NEW c \in Clients, RefuseUnregistered(c)
  PROVE  ClientInv(c)'
<1>0. TypeOK /\ PlaceInv /\ ClientInv(c)
  BY DEF RInv
<1>2. Ident(c)'
  BY <1>0, Names DEF RefuseUnregistered, Reading, Goto, TypeOK, Ident, ClientInv, Off, Subscribes, Fresh, PlaceInv, Registration, Registering
<1>3. Fresh(c)' /\ Registration(c)'
  BY <1>0, Names DEF RefuseUnregistered, Reading, Goto, TypeOK, Fresh, ClientInv, Registration, Registering
<1>4. Failure(c)' /\ Closed(c)'
  BY <1>0, Names DEF RefuseUnregistered, Reading, Goto, TypeOK, Fresh, ClientInv, Failure, Closed, Registration, Registering
<1>5. Deletion(c)'
  <2>1. \A p \in Procs : p # Reader(c) => pc'[p] = pc[p] /\ Target(p)' = Target(p)
    BY DEF RefuseUnregistered, Goto, Target
  <2>2. timedOut'[c] /\ remote[c] = "dialled"
    BY <1>0 DEF RefuseUnregistered, TypeOK, ClientInv, Ident
  <2> QED BY <1>0, <2>1, <2>2 DEF RefuseUnregistered, ClientInv, Deletion, Deleting
<1>6. Routing(c)'
  BY <1>0, Names DEF RefuseUnregistered, Reading, Goto, TypeOK, Ident, ClientInv, Routing, Registration, Registering, Deletion
<1>7. Gone(c)'
  BY <1>0, Names DEF RefuseUnregistered, Reading, Goto, TypeOK, Ident, Fresh, ClientInv, Gone, Closing, Off, Subscribes, Deletion, Deleting, Registration, Registering, Target
<1> QED BY <1>2, <1>3, <1>4, <1>5, <1>6, <1>7 DEF ClientInv

LEMMA RegisterKeeps ==
  ASSUME RInv, NEW c \in Clients, NEW i \in Instances, NEW t \in Topics, Register(c, i, t)
  PROVE  ClientInv(c)'
<1>0. TypeOK /\ PlaceInv /\ ClientInv(c)
  BY DEF RInv
<1>2. Ident(c)'
  BY <1>0, Names DEF Register, Reading, StateWhileRegistering, Goto, TypeOK, Ident, ClientInv, Off, Subscribes, Fresh, PlaceInv, Registration, Registering
<1>3. Fresh(c)' /\ Registration(c)'
  BY <1>0, Names DEF Register, Reading, StateWhileRegistering, Goto, TypeOK, Fresh, ClientInv, Registration, Registering
<1>4. Failure(c)' /\ Closed(c)'
  BY <1>0, Names DEF Register, Reading, StateWhileRegistering, Goto, TypeOK, Fresh, ClientInv, Failure, Closed, Registration, Registering
<1>5. Deletion(c)'
  BY <1>0, Names DEF Register, Reading, StateWhileRegistering, Goto, TypeOK, Fresh, Ident, ClientInv, Deletion, Deleting, Registration, Registering, Target
<1>6. Routing(c)'
  BY <1>0, Names DEF Register, Reading, StateWhileRegistering, Goto, TypeOK, Ident, ClientInv, Routing, Registration, Registering, Deletion
<1>7. Gone(c)'
  BY <1>0, Names DEF Register, Reading, StateWhileRegistering, Goto, TypeOK, Ident, Fresh, ClientInv, Gone, Closing, Off, Subscribes, Deletion, Deleting, Registration, Registering, Target
<1> QED BY <1>2, <1>3, <1>4, <1>5, <1>6, <1>7 DEF ClientInv

LEMMA RegisterTagsKeeps ==
  ASSUME RInv, NEW c \in Clients, NEW i \in Instances, NEW t \in Topics, RegisterTags(c, i, t)
  PROVE  ClientInv(c)'
<1>0. TypeOK /\ PlaceInv /\ ClientInv(c)
  BY DEF RInv
<1>2. Ident(c)'
  BY <1>0, Names DEF RegisterTags, Reading, Goto, TypeOK, Ident, ClientInv, Off, Subscribes, Fresh, PlaceInv, Registration, Registering
<1>3. Fresh(c)' /\ Registration(c)'
  BY <1>0, Names DEF RegisterTags, Reading, Goto, TypeOK, Fresh, ClientInv, Registration, Registering
<1>4. Failure(c)' /\ Closed(c)'
  BY <1>0, Names DEF RegisterTags, Reading, Goto, TypeOK, Fresh, ClientInv, Failure, Closed, Registration, Registering
<1>5. Deletion(c)'
  BY <1>0, Names DEF RegisterTags, Reading, Goto, TypeOK, Fresh, Ident, ClientInv, Deletion, Deleting, Registration, Registering, Target
<1>6. Routing(c)'
  BY <1>0, Names DEF RegisterTags, Reading, Goto, TypeOK, Ident, ClientInv, Routing, Registration, Registering, Deletion
<1>7. Gone(c)'
  BY <1>0, Names DEF RegisterTags, Reading, Goto, TypeOK, Ident, Fresh, ClientInv, Gone, Closing, Off, Subscribes, Deletion, Deleting, Registration, Registering, Target
<1> QED BY <1>2, <1>3, <1>4, <1>5, <1>6, <1>7 DEF ClientInv

LEMMA StopSubscribeKeeps ==
  ASSUME RInv, NEW c \in Clients, StopSubscribe(c)
  PROVE  ClientInv(c)'
<1>0. TypeOK /\ PlaceInv /\ ClientInv(c)
  BY DEF RInv
<1>2. Ident(c)'
  BY <1>0, Names DEF StopSubscribe, Reading, Goto, TypeOK, Ident, ClientInv, Off, Subscribes, Fresh, PlaceInv, Registration, Registering
<1>3. Fresh(c)' /\ Registration(c)'
  BY <1>0, Names DEF StopSubscribe, Reading, Goto, TypeOK, Fresh, ClientInv, Registration, Registering
<1>4. Failure(c)' /\ Closed(c)'
  BY <1>0, Names DEF StopSubscribe, Reading, Goto, TypeOK, Fresh, ClientInv, Failure, Closed, Registration, Registering
<1>5. Deletion(c)'
  BY <1>0, Names DEF StopSubscribe, Reading, Goto, TypeOK, Fresh, Ident, ClientInv, Deletion, Deleting, Registration, Registering, Target
<1>6. Routing(c)'
  BY <1>0, Names DEF StopSubscribe, Reading, Goto, TypeOK, Ident, ClientInv, Routing, Registration, Registering, Deletion
<1>7. Gone(c)'
  BY <1>0, Names DEF StopSubscribe, Reading, Goto, TypeOK, Ident, Fresh, ClientInv, Gone, Closing, Off, Subscribes, Deletion, Deleting, Registration, Registering, Target
<1> QED BY <1>2, <1>3, <1>4, <1>5, <1>6, <1>7 DEF ClientInv

LEMMA CloseRequestKeeps ==
  ASSUME RInv, NEW c \in Clients, CloseRequest(c)
  PROVE  ClientInv(c)'
<1>0. TypeOK /\ PlaceInv /\ ClientInv(c)
  BY DEF RInv
<1>2. Ident(c)'
  BY <1>0, Names DEF CloseRequest, Reading, Goto, TypeOK, Ident, ClientInv, Off, Subscribes, Fresh, PlaceInv, Registration, Registering
<1>3. Fresh(c)' /\ Registration(c)'
  BY <1>0, Names DEF CloseRequest, Reading, Goto, TypeOK, Fresh, ClientInv, Registration, Registering
<1>4. Failure(c)' /\ Closed(c)'
  BY <1>0, Names DEF CloseRequest, Reading, Goto, TypeOK, Fresh, ClientInv, Failure, Closed, Registration, Registering
<1>5. Deletion(c)'
  BY <1>0, Names DEF CloseRequest, Reading, Goto, TypeOK, Fresh, Ident, ClientInv, Deletion, Deleting, Registration, Registering, Target
<1>6. Routing(c)'
  BY <1>0, Names DEF CloseRequest, Reading, Goto, TypeOK, Ident, ClientInv, Routing, Registration, Registering, Deletion
<1>7. Gone(c)'
  BY <1>0, Names DEF CloseRequest, Reading, Goto, TypeOK, Ident, Fresh, ClientInv, Gone, Closing, Off, Subscribes, Deletion, Deleting, Registration, Registering, Target
<1> QED BY <1>2, <1>3, <1>4, <1>5, <1>6, <1>7 DEF ClientInv

LEMMA RefuseKeeps ==
  ASSUME RInv, NEW c \in Clients, Refuse(c)
  PROVE  ClientInv(c)'
<1>0. TypeOK /\ PlaceInv /\ ClientInv(c)
  BY DEF RInv
<1>2. Ident(c)'
  BY <1>0, Names DEF Refuse, Reading, Goto, TypeOK, Ident, ClientInv, Off, Subscribes, Fresh, PlaceInv, Registration, Registering
<1>3. Fresh(c)' /\ Registration(c)'
  BY <1>0, Names DEF Refuse, Reading, Goto, TypeOK, Fresh, ClientInv, Registration, Registering
<1>4. Failure(c)' /\ Closed(c)'
  BY <1>0, Names DEF Refuse, Reading, Goto, TypeOK, Fresh, ClientInv, Failure, Closed, Registration, Registering
<1>5. Deletion(c)'
  BY <1>0, Names DEF Refuse, Reading, Goto, TypeOK, Fresh, Ident, ClientInv, Deletion, Deleting, Registration, Registering, Target
<1>6. Routing(c)'
  BY <1>0, Names DEF Refuse, Reading, Goto, TypeOK, Ident, ClientInv, Routing, Registration, Registering, Deletion
<1>7. Gone(c)'
  BY <1>0, Names DEF Refuse, Reading, Goto, TypeOK, Ident, Fresh, ClientInv, Gone, Closing, Off, Subscribes, Deletion, Deleting, Registration, Registering, Target
<1> QED BY <1>2, <1>3, <1>4, <1>5, <1>6, <1>7 DEF ClientInv

LEMMA ConfirmKeeps ==
  ASSUME RInv, NEW c \in Clients, Confirm(c)
  PROVE  ClientInv(c)'
<1>0. TypeOK /\ PlaceInv /\ ClientInv(c)
  BY DEF RInv
<1>2. Ident(c)'
  BY <1>0, Names DEF Confirm, Goto, TypeOK, Ident, ClientInv, Off, Subscribes, Fresh, PlaceInv, Registration, Registering
<1>3. Fresh(c)' /\ Registration(c)'
  BY <1>0, Names DEF Confirm, Goto, TypeOK, Fresh, ClientInv, Registration, Registering
<1>4. Failure(c)' /\ Closed(c)'
  BY <1>0, Names DEF Confirm, Goto, TypeOK, Fresh, ClientInv, Failure, Closed, Registration, Registering
<1>5. Deletion(c)'
  <2>1. \A p \in Procs : p # Reader(c) => pc'[p] = pc[p] /\ Target(p)' = Target(p)
    BY DEF Confirm, Goto, Target
  <2>2. Deleting(Reader(c))' => dropped'[c]
    BY <1>0, Names DEF Confirm, Goto, TypeOK, Deleting
  <2>3. (dropped[c] => dropped'[c]) /\ (dropped'[c] => dropped[c] \/ remote[c] = "closing")
    BY <1>0 DEF Confirm, TypeOK
  <2> QED BY <1>0, <2>1, <2>2, <2>3 DEF Confirm, ClientInv, Deletion, Deleting
<1>6. Routing(c)'
  BY <1>0, Names DEF Confirm, Goto, TypeOK, Ident, ClientInv, Routing, Registration, Registering, Deletion
<1>7. Gone(c)'
  BY <1>0, Names DEF Confirm, Goto, TypeOK, Ident, Fresh, ClientInv, Gone, Closing, Off, Subscribes, Deletion, Deleting, Registration, Registering, Target
<1> QED BY <1>2, <1>3, <1>4, <1>5, <1>6, <1>7 DEF ClientInv

LEMMA ReplyAndStartKeeps ==
  ASSUME RInv, NEW c \in Clients, ReplyAndStart(c)
  PROVE  ClientInv(c)'
<1>0. TypeOK /\ PlaceInv /\ ClientInv(c)
  BY DEF RInv
<1>2. Ident(c)'
  BY <1>0, Names DEF ReplyAndStart, Goto, TypeOK, Ident, ClientInv, Off, Subscribes, Fresh, PlaceInv, Registration, Registering
<1>3. Fresh(c)' /\ Registration(c)'
  BY <1>0, Names DEF ReplyAndStart, Goto, TypeOK, Fresh, ClientInv, Registration, Registering
<1>4. Failure(c)' /\ Closed(c)'
  BY <1>0, Names DEF ReplyAndStart, Goto, TypeOK, Fresh, ClientInv, Failure, Closed, Registration, Registering
<1>5. Deletion(c)'
  BY <1>0, Names DEF ReplyAndStart, Goto, TypeOK, Fresh, Ident, ClientInv, Deletion, Deleting, Registration, Registering, Target
<1>6. Routing(c)'
  BY <1>0, Names DEF ReplyAndStart, Goto, TypeOK, Ident, ClientInv, Routing, Registration, Registering, Deletion
<1>7. Gone(c)'
  BY <1>0, Names DEF ReplyAndStart, Goto, TypeOK, Ident, Fresh, ClientInv, Gone, Closing, Off, Subscribes, Deletion, Deleting, Registration, Registering, Target
<1> QED BY <1>2, <1>3, <1>4, <1>5, <1>6, <1>7 DEF ClientInv

LEMMA ClaimInstanceKeeps ==
  ASSUME RInv, NEW c \in Clients, ClaimInstance(c)
  PROVE  ClientInv(c)'
<1>0. TypeOK /\ PlaceInv /\ ClientInv(c)
  BY DEF RInv
<1>2. Ident(c)'
  BY <1>0, Names DEF ClaimInstance, Goto, TypeOK, Ident, ClientInv, Off, Subscribes, Fresh, PlaceInv, Registration, Registering
<1>3. Fresh(c)' /\ Registration(c)'
  BY <1>0, Names DEF ClaimInstance, Goto, TypeOK, Fresh, ClientInv, Registration, Registering
<1>4. Failure(c)' /\ Closed(c)'
  BY <1>0, Names DEF ClaimInstance, Goto, TypeOK, Fresh, ClientInv, Failure, Closed, Registration, Registering
<1>5. Deletion(c)'
  BY <1>0, Names DEF ClaimInstance, Goto, TypeOK, Fresh, Ident, ClientInv, Deletion, Deleting, Registration, Registering, Target
<1>6. Routing(c)'
  BY <1>0, Names DEF ClaimInstance, Goto, TypeOK, Ident, ClientInv, Routing, Registration, Registering, Deletion
<1>7. Gone(c)'
  BY <1>0, Names DEF ClaimInstance, Goto, TypeOK, Ident, Fresh, ClientInv, Gone, Closing, Off, Subscribes, Deletion, Deleting, Registration, Registering, Target
<1> QED BY <1>2, <1>3, <1>4, <1>5, <1>6, <1>7 DEF ClientInv

LEMMA LoadTopicKeeps ==
  ASSUME RInv, NEW c \in Clients, LoadTopic(c)
  PROVE  ClientInv(c)'
<1>0. TypeOK /\ PlaceInv /\ ClientInv(c)
  BY DEF RInv
<1>2. Ident(c)'
  BY <1>0, Names DEF LoadTopic, Goto, TypeOK, Ident, ClientInv, Off, Subscribes, Fresh, PlaceInv, Registration, Registering
<1>3. Fresh(c)' /\ Registration(c)'
  BY <1>0, Names DEF LoadTopic, Goto, TypeOK, Fresh, ClientInv, Registration, Registering
<1>4. Failure(c)' /\ Closed(c)'
  BY <1>0, Names DEF LoadTopic, Goto, TypeOK, Fresh, ClientInv, Failure, Closed, Registration, Registering
<1>5. Deletion(c)'
  BY <1>0, Names DEF LoadTopic, Goto, TypeOK, Fresh, Ident, ClientInv, Deletion, Deleting, Registration, Registering, Target
<1>6. Routing(c)'
  BY <1>0, Names DEF LoadTopic, Goto, TypeOK, Ident, ClientInv, Routing, Registration, Registering, Deletion
<1>7. Gone(c)'
  BY <1>0, Names DEF LoadTopic, Goto, TypeOK, Ident, Fresh, ClientInv, Gone, Closing, Off, Subscribes, Deletion, Deleting, Registration, Registering, Target
<1> QED BY <1>2, <1>3, <1>4, <1>5, <1>6, <1>7 DEF ClientInv

LEMMA EnterTopicKeeps ==
  ASSUME RInv, NEW c \in Clients, EnterTopic(c)
  PROVE  ClientInv(c)'
<1>0. TypeOK /\ PlaceInv /\ ClientInv(c)
  BY DEF RInv
<1>1. topicClients' = topicClients
  BY EntersOnce
<1>2. Ident(c)'
  BY <1>0, <1>1, Names DEF EnterTopic, Goto, TypeOK, Ident, ClientInv, Off, Subscribes, Fresh, PlaceInv, Registration, Registering
<1>3. Fresh(c)' /\ Registration(c)'
  BY <1>0, <1>1, Names DEF EnterTopic, Goto, TypeOK, Fresh, ClientInv, Registration, Registering
<1>4. Failure(c)' /\ Closed(c)'
  BY <1>0, <1>1, Names DEF EnterTopic, Goto, TypeOK, Fresh, ClientInv, Failure, Closed, Registration, Registering
<1>5. Deletion(c)'
  BY <1>0, <1>1, Names DEF EnterTopic, Goto, TypeOK, Fresh, Ident, ClientInv, Deletion, Deleting, Registration, Registering, Target
<1>6. Routing(c)'
  BY <1>0, <1>1, Names DEF EnterTopic, Goto, TypeOK, Ident, ClientInv, Routing, Registration, Registering, Deletion
<1>7. Gone(c)'
  BY <1>0, <1>1, Names DEF EnterTopic, Goto, TypeOK, Ident, Fresh, ClientInv, Gone, Closing, Off, Subscribes, Deletion, Deleting, Registration, Registering, Target
<1> QED BY <1>2, <1>3, <1>4, <1>5, <1>6, <1>7 DEF ClientInv

LEMMA JoinTopicKeeps ==
  ASSUME RInv, NEW c \in Clients, JoinTopic(c)
  PROVE  ClientInv(c)'
<1>0. TypeOK /\ PlaceInv /\ ClientInv(c)
  BY DEF RInv
<1>2. Ident(c)'
  BY <1>0, Names DEF JoinTopic, IsOk, Goto, TypeOK, Ident, ClientInv, Off, Subscribes, Fresh, PlaceInv, Registration, Registering
<1>3. Fresh(c)' /\ Registration(c)'
  BY <1>0, Names DEF JoinTopic, IsOk, Goto, TypeOK, Fresh, ClientInv, Registration, Registering
<1>4. Failure(c)' /\ Closed(c)'
  BY <1>0, Names DEF JoinTopic, IsOk, Goto, TypeOK, Fresh, ClientInv, Failure, Closed, Registration, Registering
<1>5. Deletion(c)'
  BY <1>0, Names DEF JoinTopic, IsOk, Goto, TypeOK, Fresh, Ident, ClientInv, Deletion, Deleting, Registration, Registering, Target
<1>6. Routing(c)'
  BY <1>0, Names DEF JoinTopic, IsOk, Goto, TypeOK, Ident, ClientInv, Routing, Registration, Registering, Deletion
<1>7. Gone(c)'
  BY <1>0, Names DEF JoinTopic, IsOk, Goto, TypeOK, Ident, Fresh, ClientInv, Gone, Closing, Off, Subscribes, Deletion, Deleting, Registration, Registering, Target
<1> QED BY <1>2, <1>3, <1>4, <1>5, <1>6, <1>7 DEF ClientInv

LEMMA CloseBeginKeeps ==
  ASSUME RInv, NEW c \in Clients, CloseBegin(c)
  PROVE  ClientInv(c)'
<1>0. TypeOK /\ PlaceInv /\ ClientInv(c)
  BY DEF RInv
<1>2. Ident(c)'
  BY <1>0, Names DEF CloseBegin, Asked, OnReturn, Goto, TypeOK, Ident, ClientInv, Off, Subscribes, Fresh, PlaceInv, Registration, Registering
<1>3. Fresh(c)' /\ Registration(c)'
  <2>1. pc'[Reader(c)] = pc[Reader(c)]
    BY <1>0, Names DEF CloseBegin, Goto, TypeOK
  <2>2. \/ state' = state
        \/ /\ "Stop" \notin state[c]
           /\ state' = [state EXCEPT ![c] = @ \cup {"Stopping"}]
    BY DEF CloseBegin
  <2>3. state'[c] = state[c] \/ (~Registering(c) /\ state'[c] = state[c] \cup {"Stopping"})
    BY <1>0, <2>2 DEF TypeOK, ClientInv, Registration
  <2> QED BY <1>0, <2>1, <2>3 DEF CloseBegin, Fresh, ClientInv, Registration, Registering
<1>4. Failure(c)' /\ Closed(c)'
  BY <1>0, Names DEF CloseBegin, Asked, OnReturn, Goto, TypeOK, Fresh, ClientInv, Failure, Closed, Registration, Registering
<1>5. Deletion(c)'
  BY <1>0, Names DEF CloseBegin, Asked, OnReturn, Goto, TypeOK, Fresh, Ident, ClientInv, Deletion, Deleting, Registration, Registering, Target
<1>6. Routing(c)'
  BY <1>0, Names DEF CloseBegin, Asked, OnReturn, Goto, TypeOK, Ident, ClientInv, Routing, Registration, Registering, Deletion
<1>7. Gone(c)'
  BY <1>0, Names DEF CloseBegin, Asked, OnReturn, Goto, TypeOK, Ident, Fresh, ClientInv, Gone, Closing, Off, Subscribes, Deletion, Deleting, Registration, Registering, Target
<1> QED BY <1>2, <1>3, <1>4, <1>5, <1>6, <1>7 DEF ClientInv

LEMMA CloseConnKeeps ==
  ASSUME RInv, NEW c \in Clients, CloseConn(c)
  PROVE  ClientInv(c)'
<1>0. TypeOK /\ PlaceInv /\ ClientInv(c)
  BY DEF RInv
<1>2. Ident(c)'
  BY <1>0, Names DEF CloseConn, Goto, TypeOK, Ident, ClientInv, Off, Subscribes, Fresh, PlaceInv, Registration, Registering
<1>3. Fresh(c)' /\ Registration(c)'
  BY <1>0, Names DEF CloseConn, Goto, TypeOK, Fresh, ClientInv, Registration, Registering
<1>4. Failure(c)' /\ Closed(c)'
  BY <1>0, Names DEF CloseConn, Goto, TypeOK, Fresh, ClientInv, Failure, Closed, Registration, Registering
<1>5. Deletion(c)'
  BY <1>0, Names DEF CloseConn, Goto, TypeOK, Fresh, Ident, ClientInv, Deletion, Deleting, Registration, Registering, Target
<1>6. Routing(c)'
  BY <1>0, Names DEF CloseConn, Goto, TypeOK, Ident, ClientInv, Routing, Registration, Registering, Deletion
<1>7. Gone(c)'
  BY <1>0, Names DEF CloseConn, Goto, TypeOK, Ident, Fresh, ClientInv, Gone, Closing, Off, Subscribes, Deletion, Deleting, Registration, Registering, Target
<1> QED BY <1>2, <1>3, <1>4, <1>5, <1>6, <1>7 DEF ClientInv

LEMMA CloseStopsWriterKeeps ==
  ASSUME RInv, NEW c \in Clients, CloseStopsWriter(c)
  PROVE  ClientInv(c)'
<1>0. TypeOK /\ PlaceInv /\ ClientInv(c)
  BY DEF RInv
<1>2. Ident(c)'
  BY <1>0, Names DEF CloseStopsWriter, Goto, TypeOK, Ident, ClientInv, Off, Subscribes, Fresh, PlaceInv, Registration, Registering
<1>3. Fresh(c)' /\ Registration(c)'
  BY <1>0, Names DEF CloseStopsWriter, Goto, TypeOK, Fresh, ClientInv, Registration, Registering
<1>4. Failure(c)' /\ Closed(c)'
  BY <1>0, Names DEF CloseStopsWriter, Goto, TypeOK, Fresh, ClientInv, Failure, Closed, Registration, Registering
<1>5. Deletion(c)'
  BY <1>0, Names DEF CloseStopsWriter, Goto, TypeOK, Fresh, Ident, ClientInv, Deletion, Deleting, Registration, Registering, Target
<1>6. Routing(c)'
  BY <1>0, Names DEF CloseStopsWriter, Goto, TypeOK, Ident, ClientInv, Routing, Registration, Registering, Deletion
<1>7. Gone(c)'
  BY <1>0, Names DEF CloseStopsWriter, Goto, TypeOK, Ident, Fresh, ClientInv, Gone, Closing, Off, Subscribes, Deletion, Deleting, Registration, Registering, Target
<1> QED BY <1>2, <1>3, <1>4, <1>5, <1>6, <1>7 DEF ClientInv

LEMMA CloseEndKeeps ==
  ASSUME RInv, NEW c \in Clients, CloseEnd(c)
  PROVE  ClientInv(c)'
<1>0. TypeOK /\ PlaceInv /\ ClientInv(c)
  BY DEF RInv
<1>2. Ident(c)'
  BY <1>0, Names DEF CloseEnd, Goto, TypeOK, Ident, ClientInv, Off, Subscribes, Fresh, PlaceInv, Registration, Registering
<1>3. Fresh(c)' /\ Registration(c)'
  BY <1>0, Names DEF CloseEnd, Goto, TypeOK, Fresh, ClientInv, Registration, Registering
<1>4. Failure(c)' /\ Closed(c)'
  BY <1>0, Names DEF CloseEnd, Goto, TypeOK, Fresh, ClientInv, Failure, Closed, Registration, Registering
<1>5. Deletion(c)'
  BY <1>0, Names DEF CloseEnd, Goto, TypeOK, Fresh, Ident, ClientInv, Deletion, Deleting, Registration, Registering, Target
<1>6. Routing(c)'
  BY <1>0, Names DEF CloseEnd, Goto, TypeOK, Ident, ClientInv, Routing, Registration, Registering, Deletion
<1>7. Gone(c)'
  BY <1>0, Names DEF CloseEnd, Goto, TypeOK, Ident, Fresh, ClientInv, Gone, Closing, Off, Subscribes, Deletion, Deleting, Registration, Registering, Target
<1> QED BY <1>2, <1>3, <1>4, <1>5, <1>6, <1>7 DEF ClientInv

\* A goroutine that does nothing to its client but move on keeps what is known.
LEMMA MovingOn ==
  ASSUME TypeOK, NEW c \in Clients, ClientInv(c), NEW p \in Procs, Target(p) = c,
         p = Writer(c) \/ \E q \in Queues : p = Queue(q),
         NEW l \in Labels, l \notin {"unregister", "delTopic"}, p = Writer(c) => remote[c] # "dialled",
         pc' = [pc EXCEPT ![p] = l], client' = client \/ ForgetAfter(p),
         UNCHANGED <<state, conn, ident, maps, clientLock, told, asked, hist>>
  PROVE  ClientInv(c)'
<1>1. /\ pc'[Reader(c)] = pc[Reader(c)] /\ pc'[Closer(c)] = pc[Closer(c)]
      /\ remote[c] = "dialled" => pc'[Writer(c)] = pc[Writer(c)]
  BY Names DEF TypeOK
<1>2. \A q \in Queues : client'[q] = c => client[q] = c
  BY DEF ForgetAfter, TypeOK
<1>3. \A r \in Procs : Deleting(r)' /\ Target(r)' = c => pc'[r] = pc[r] /\ Target(r) = c
  BY <1>2 DEF Deleting, Target, TypeOK, Procs, OfClients
<1>4. Off(c)' = Off(c) /\ Subscribes(c)' = Subscribes(c)
  BY DEF Off, Subscribes
<1>5. Ident(c)' /\ Fresh(c)' /\ Registration(c)' /\ Failure(c)'
  BY <1>1, <1>2, <1>4 DEF ClientInv, Ident, Fresh, Registration, Registering, Failure
<1>6. Deletion(c)' /\ Gone(c)'
  BY <1>1, <1>3, <1>4 DEF ClientInv, Deletion, Gone, Closing, Deleting
<1>7. Routing(c)' /\ Closed(c)'
  BY <1>1 DEF ClientInv, Routing, Closed
<1> QED BY <1>5, <1>6, <1>7 DEF ClientInv

LEMMA WriteKeeps ==
  ASSUME RInv, NEW p \in Procs, Write(p), NEW c \in Clients, c = Target(p)
  PROVE  ClientInv(c)'
<1>0. TypeOK /\ PlaceInv /\ ClientInv(c)
  BY DEF RInv
<1>1. p = Writer(c) \/ \E q \in Queues : p = Queue(q)
  BY <1>0, Targets, Names DEF Write, PlaceInv
<1>2. p = Writer(c) => remote[c] # "dialled"
  BY <1>0 DEF Write, ClientInv, Ident
<1>3. /\ pc' = [pc EXCEPT ![p] = "idle"] /\ client' = client /\ "idle" \in Labels
      /\ UNCHANGED <<state, conn, ident, maps, clientLock, told, asked, hist>>
  BY DEF Write, Goto, Labels
<1> QED BY <1>0, <1>1, <1>2, <1>3, MovingOn

LEMMA ErrorKeeps ==
  ASSUME RInv, NEW p \in Procs, Error(p), NEW c \in Clients, c = Target(p)
  PROVE  ClientInv(c)'
<1>0. TypeOK /\ PlaceInv /\ ClientInv(c)
  BY DEF RInv
<1>1. /\ pc[p] \in {"reading", "writing"} /\ conn[c] # "up" /\ clientLock[c] = Nobody
      /\ p = Reader(c) \/ p = Writer(c) \/ \E q \in Queues : p = Queue(q) /\ client[q] = c
  BY <1>0, Targets DEF Error, Failing
<1>2. conn[c] \in {"broken", "nil"} /\ (p # Reader(c) => remote[c] # "dialled")
  BY <1>0, <1>1 DEF ClientInv, Ident, Fresh, TypeOK
<1>3. CASE ~IsError(c)
  <2>1. /\ pc' = [pc EXCEPT ![p] = Resume(p)] /\ ForgetAfter(p)
        /\ UNCHANGED <<state, conn, ident, maps, clientLock, told, asked, hist>>
    BY <1>3 DEF Error, Goto
  <2>2. CASE p # Reader(c)
    <3>1. Resume(p) = "idle" /\ "idle" \in Labels
      BY <1>1, <2>2 DEF Resume, Labels, Writer, Queue
    <3> QED BY <1>0, <1>1, <1>2, <2>1, <2>2, <3>1, MovingOn
  <2>3. CASE p = Reader(c)
    <3>1. Resume(p) = "read" /\ client' = client
      BY <2>1, <2>3 DEF Resume, ForgetAfter, Reader
    <3>2. /\ pc'[Reader(c)] = "read" /\ pc[Reader(c)] = "reading"
          /\ pc'[Writer(c)] = pc[Writer(c)] /\ pc'[Closer(c)] = pc[Closer(c)]
      BY <1>0, <1>1, <2>1, <2>3, <3>1, Names DEF TypeOK, PlaceInv
    <3>3. \A r \in Procs : Deleting(r)' /\ Target(r)' = c => pc'[r] = pc[r] /\ Target(r) = c
      BY <1>0, <2>1, <2>3, <3>1, <3>2 DEF TypeOK, Deleting, Target
    <3>4. Off(c)' = Off(c) /\ Subscribes(c)' = Subscribes(c)
      BY <2>1 DEF Off, Subscribes
    <3>5. Ident(c)' /\ Fresh(c)' /\ Registration(c)' /\ Failure(c)'
      BY <1>0, <1>2, <2>1, <3>1, <3>2, <3>4
         DEF ClientInv, Ident, Fresh, Registration, Registering, Failure
    <3>6. Deletion(c)' /\ Gone(c)'
      BY <1>0, <2>1, <3>2, <3>3, <3>4 DEF ClientInv, Deletion, Gone, Closing, Deleting
    <3>7. Routing(c)' /\ Closed(c)'
      BY <1>0, <2>1, <3>2 DEF ClientInv, Routing, Closed
    <3> QED BY <3>5, <3>6, <3>7 DEF ClientInv
  <2> QED BY <2>2, <2>3
<1>4. CASE IsError(c)
  <2>1. /\ pc' = [pc EXCEPT ![p] = "unregister"] /\ client' = client
        /\ state' = [state EXCEPT ![c] = (@ \ {"Start"}) \cup {"Err"}]
        /\ dropped' = [dropped EXCEPT ![c] = TRUE]
        /\ clientLock' = [clientLock EXCEPT ![c] = p]
        /\ UNCHANGED <<conn, ident, maps, told, asked, remote, timedOut>>
    BY <1>4 DEF Error, Goto
  <2>2. /\ state[c] \cap {"Stopping", "Stop", "Err"} = {} /\ conn[c] = "broken"
    BY <1>2, <1>4 DEF IsError, MayFail
  <2>3. ~Registering(c) /\ pc[Closer(c)] = "idle"
    BY <1>0, <1>1, <2>2, Names DEF ClientInv, Registration, Closed
  <2>4. /\ ~Registering(c)' /\ pc'[Closer(c)] = "idle"
        /\ remote[c] = "dialled" => pc'[Writer(c)] = pc[Writer(c)]
    BY <1>0, <1>1, <1>2, <2>1, <2>3, Names DEF TypeOK, Registering
  <2>5. Off(c)' = Off(c) /\ Subscribes(c)' = Subscribes(c)
    BY <2>1 DEF Off, Subscribes
  <2>6. /\ dropped'[c] /\ "Start" \notin state'[c]
    BY <1>0, <2>1 DEF TypeOK
  <2>7. \A r \in Procs : pc'[r] = "delTopic" => pc[r] = "delTopic" /\ Target(r)' = Target(r)
    BY <1>0, <2>1 DEF TypeOK, Target
  <2>8. Ident(c)' /\ Fresh(c)' /\ Registration(c)' /\ Failure(c)'
    BY <1>0, <2>1, <2>2, <2>4, <2>5, <2>6 DEF ClientInv, Ident, Fresh, Registration, Failure
  <2>9. Deletion(c)' /\ Routing(c)' /\ Closed(c)'
    BY <1>0, <2>1, <2>2, <2>4, <2>6 DEF ClientInv, Deletion, Routing, Registering, Closed
  <2>10. Gone(c)'
    BY <1>0, <2>1, <2>2, <2>3, <2>4, <2>5, <2>6, <2>7 DEF ClientInv, Gone, Closing, TypeOK
  <2> QED BY <2>8, <2>9, <2>10 DEF ClientInv
<1> QED BY <1>3, <1>4

LEMMA UnregisterKeeps ==
  ASSUME RInv, NEW p \in Procs, Unregister(p), NEW c \in Clients, c = Target(p)
  PROVE  ClientInv(c)'
<1>0. TypeOK /\ PlaceInv /\ ClientInv(c)
  BY DEF RInv
<1>1. /\ pc[p] = "unregister" /\ pc' = [pc EXCEPT ![p] = "delTopic"]
      /\ harborClient' = harborClient \ {c}
      /\ instanceClient' =
           [i \in Instances |-> IF i = instance[c] THEN Nobody ELSE instanceClient[i]]
      /\ UNCHANGED <<state, conn, ident, topicClients, locks, client, told, asked, hist>>
  BY DEF Unregister, Goto
<1>2. /\ p = Reader(c) \/ p = Writer(c) \/ \E q \in Queues : p = Queue(q)
      /\ p # Closer(c)
  BY <1>0, <1>1, Targets
<1>3. dropped[c] \/ (p = Reader(c) /\ timedOut[c] /\ remote[c] = "dialled")
  BY <1>0, <1>1 DEF ClientInv, Deletion, Deleting
<1>4. ~Registering(c)
  BY <1>0, <1>1, <1>3 DEF ClientInv, Registration, Registering
<1>5. /\ ~Registering(c)' /\ pc'[Closer(c)] = pc[Closer(c)]
      /\ remote[c] = "dialled" => pc'[Writer(c)] = pc[Writer(c)]
      /\ pc'[Reader(c)] \in {"read", "gone"} => pc'[Reader(c)] = pc[Reader(c)]
  BY <1>0, <1>1, <1>2, <1>4, Names DEF TypeOK, Registering, ClientInv, Ident
<1>6. /\ Off(c)' /\ Subscribes(c)' = Subscribes(c)
      /\ \A i \in Instances : instanceClient'[i] = c => instanceClient[i] = c
  BY <1>0, <1>1 DEF Off, Subscribes, ClientInv, Ident
<1>7. \A r \in Procs : Deleting(r)' /\ Target(r)' = c => Deleting(r) /\ Target(r) = c
  BY <1>0, <1>1 DEF Deleting, TypeOK, Target
<1>8. Ident(c)' /\ Registration(c)' /\ Failure(c)'
  BY <1>0, <1>1, <1>5, <1>6 DEF ClientInv, Ident, Registration, Failure
<1>9. Fresh(c)' /\ Closed(c)'
  <2>1. p # Reader(c) => pc'[Reader(c)] = pc[Reader(c)]
    BY <1>0, <1>1, Names DEF TypeOK
  <2> QED BY <1>0, <1>1, <1>5, <2>1 DEF ClientInv, Fresh, Closed
<1>10. Deletion(c)' /\ Routing(c)'
  BY <1>0, <1>1, <1>3, <1>5, <1>7 DEF ClientInv, Deletion, Routing, Registering
<1>11. Gone(c)'
  BY <1>0, <1>1, <1>5, <1>6 DEF ClientInv, Gone, Closing
<1> QED BY <1>8, <1>9, <1>10, <1>11 DEF ClientInv

LEMMA DelTopicKeeps ==
  ASSUME RInv, NEW p \in Procs, DelTopic(p), NEW c \in Clients, c = Target(p)
  PROVE  ClientInv(c)'
<1>0. TypeOK /\ PlaceInv /\ ClientInv(c)
  BY DEF RInv
<1>1. /\ pc[p] = "delTopic" /\ pc' = [pc EXCEPT ![p] = Resume(p)] /\ ForgetAfter(p)
      /\ topicClients' = [u \in Topics |-> IF u = topic[c] THEN topicClients[u] \ {c}
                                                           ELSE topicClients[u]]
      /\ asked' = [asked EXCEPT ![c] = @ + 1]
      /\ clientLock' = [clientLock EXCEPT ![c] = IF @ = p THEN Nobody ELSE @]
      /\ UNCHANGED <<state, conn, ident, instanceClient, harborClient, told, hist>>
  BY DEF DelTopic, Del, Goto
<1>2. /\ p = Reader(c) \/ p = Writer(c) \/ \E q \in Queues : p = Queue(q)
      /\ p # Closer(c)
  BY <1>0, <1>1, Targets
<1>3. dropped[c] \/ (p = Reader(c) /\ timedOut[c] /\ remote[c] = "dialled")
  BY <1>0, <1>1 DEF ClientInv, Deletion, Deleting
<1>4. ~Registering(c)
  BY <1>0, <1>1, <1>3 DEF ClientInv, Registration, Registering
<1>5. Resume(p) \in {"read", "idle"} /\ \A q \in Queues : client'[q] = c => client[q] = c
  BY <1>0, <1>1 DEF Resume, ForgetAfter, TypeOK
<1>6. /\ ~Registering(c)' /\ pc'[Closer(c)] = pc[Closer(c)]
      /\ remote[c] = "dialled" => pc'[Writer(c)] = pc[Writer(c)]
  BY <1>0, <1>1, <1>2, <1>4, <1>5, Names DEF TypeOK, Registering, ClientInv, Ident
<1>7. /\ Off(c)' = Off(c) /\ ~Subscribes(c)'
      /\ \A t \in Topics : c \notin topicClients'[t]
  BY <1>0, <1>1 DEF Off, Subscribes, ClientInv, Ident
<1>8. \A r \in Procs : Deleting(r)' /\ Target(r)' = c => pc'[r] = pc[r] /\ Target(r) = c
  BY <1>0, <1>1, <1>5 DEF Deleting, TypeOK, Target, Procs, OfClients
<1>9. Ident(c)' /\ Registration(c)' /\ Failure(c)'
  BY <1>0, <1>1, <1>5, <1>6, <1>7 DEF ClientInv, Ident, Registration, Failure
<1>10. Fresh(c)' /\ Closed(c)'
  <2>1. \/ pc'[Reader(c)] = pc[Reader(c)]
        \/ pc[Reader(c)] = "delTopic"
    BY <1>0, <1>1, Names DEF TypeOK
  <2>2. clientLock[c] = Closer(c) => clientLock'[c] = Closer(c)
    BY <1>0, <1>1, <1>2 DEF TypeOK
  <2> QED BY <1>0, <1>1, <1>6, <2>1, <2>2 DEF ClientInv, Fresh, Closed
<1>11. Deletion(c)' /\ Routing(c)'
  BY <1>0, <1>1, <1>3, <1>6, <1>8 DEF ClientInv, Deletion, Deleting, Routing, Registering
<1>12. Gone(c)'
  <2>1. ~timedOut[c] => dropped[c] /\ Off(c)
    BY <1>0, <1>1, <1>3 DEF ClientInv, Gone
  <2> QED BY <1>0, <1>1, <1>7, <1>8, <2>1 DEF ClientInv, Gone, Deleting
<1> QED BY <1>9, <1>10, <1>11, <1>12 DEF ClientInv

\* A queue looks its client up among the subscribers of its topic, or looks at
\* what it has.
LEMMA QueueKeeps ==
  ASSUME RInv, NEW q \in Queues, QueueStep(q), NEW c \in Clients
  PROVE  ClientInv(c)'
<1>0. TypeOK /\ ClientInv(c)
  BY DEF RInv
<1>1. /\ \E l \in Labels : l \notin {"unregister", "delTopic"} /\ pc' = [pc EXCEPT ![Queue(q)] = l]
      /\ UNCHANGED <<state, conn, ident, maps, clientLock, told, asked, hist>>
  BY DEF QueueStep, LookupTopic, AskClient, QueueGetConn, Goto, Labels
<1>2. \/ client' = client
      \/ client' = [client EXCEPT ![q] = Nobody]
      \/ \E d \in Clients : /\ client' = [client EXCEPT ![q] = d]
                            /\ d \in topicClients[TopicOf[q]]
  BY DEF QueueStep, LookupTopic, AskClient, QueueGetConn
<1>3. \A r \in Queues : client'[r] = c => client[r] = c \/ c \in topicClients[TopicOf[r]]
  BY <1>0, <1>2 DEF TypeOK
<1>4. /\ pc'[Reader(c)] = pc[Reader(c)] /\ pc'[Closer(c)] = pc[Closer(c)]
      /\ pc'[Writer(c)] = pc[Writer(c)]
  BY <1>0, <1>1, Names DEF TypeOK
<1>5. \A p \in Procs : Deleting(p)' /\ Target(p)' = c => pc'[p] = pc[p] /\ Target(p) = c
  <2> SUFFICES ASSUME NEW p \in Procs, Deleting(p)', Target(p)' = c
               PROVE  pc'[p] = pc[p] /\ Target(p) = c
    OBVIOUS
  <2>1. p # Queue(q) /\ pc'[p] = pc[p]
    BY <1>0, <1>1, Names DEF Deleting, TypeOK
  <2>2. Target(p)' = Target(p)
    BY <1>0, <1>2, <2>1 DEF Target, TypeOK, Procs, OfClients, Queue
  <2> QED BY <2>1, <2>2
<1>6. Off(c)' = Off(c) /\ Subscribes(c)' = Subscribes(c)
  BY <1>1 DEF Off, Subscribes
<1>7. Ident(c)'
  <2>1. \A r \in Queues : TopicOf[r] \in Topics
    OBVIOUS
  <2>2. Ident(c)
    BY <1>0 DEF ClientInv
  <2>3. \A r \in Queues : client'[r] = c => topic[c] = TopicOf[r] /\ remote[c] # "dialled"
    BY <1>3, <2>1, <2>2 DEF Ident, Subscribes
  <2> QED BY <1>1, <1>4, <1>6, <2>2, <2>3 DEF Ident
<1>10. Fresh(c)' /\ Registration(c)' /\ Failure(c)'
  BY <1>0, <1>1, <1>4 DEF ClientInv, Fresh, Registration, Registering, Failure
<1>8. Deletion(c)' /\ Gone(c)'
  BY <1>0, <1>1, <1>4, <1>5, <1>6 DEF ClientInv, Deletion, Gone, Closing, Deleting
<1>9. Routing(c)' /\ Closed(c)'
  BY <1>0, <1>1, <1>4 DEF ClientInv, Routing, Closed
<1> QED BY <1>7, <1>8, <1>9, <1>10 DEF ClientInv

-----------------------------------------------------------------------------
\* How a reader comes to have the entry of its topic in hand.
LEMMA OnlyLoading ==
  ASSUME RInv, Next, NEW c \in Clients, pc[Reader(c)] # "topic", pc'[Reader(c)] = "topic"
  PROVE  (LoadTopic(c) /\ topic[c] \in topics) \/ EnterTopic(c)
<1> USE DEF Goto
<1>0. TypeOK /\ PlaceInv
  BY DEF RInv
<1>1. ASSUME NEW d \in Clients, ClientStep(d) PROVE d = c
  <2>1. CASE d # c
    <3>1. pc'[Reader(c)] = pc[Reader(c)]
      BY <1>1, <2>1, ClientStepsAlone DEF Only, OnlyPlaces
    <3> QED BY <3>1
  <2> QED BY <2>1
<1>2. ASSUME NEW p \in Procs, NEW l \in Labels \ {"topic"}, pc' = [pc EXCEPT ![p] = l]
      PROVE  FALSE
  BY <1>0, <1>2, Names DEF TypeOK
<1>3. ~ \E p \in Procs : Write(p) \/ Error(p) \/ CloseSelf(p)
  <2>1. ASSUME NEW p \in Procs, Write(p) \/ Error(p) \/ CloseSelf(p)
        PROVE  \E l \in Labels \ {"topic"} : pc' = [pc EXCEPT ![p] = l]
    BY <2>1 DEF Write, Error, Resume, CloseSelf, Unregister, DelTopic, Labels
  <2> QED BY <1>2, <2>1
<1>4. ~ \E q \in Queues : QueueStep(q)
  <2>1. ASSUME NEW q \in Queues, QueueStep(q)
        PROVE  \E l \in Labels \ {"topic"} : pc' = [pc EXCEPT ![Queue(q)] = l]
    BY <2>1 DEF QueueStep, LookupTopic, AskClient, QueueGetConn, Labels
  <2> QED BY <1>2, <2>1, Names
<1>5. ClientStep(c)
  BY <1>1, <1>3, <1>4 DEF Next, ClientStep
<1>6. ~ (AddClient(c) \/ Break(c))
  BY DEF AddClient, Break
<1>7. ASSUME ReaderGetConn(c) \/ ReaderLeaves(c) \/ Handle(c)
      PROVE  FALSE
  <2>1. \E l \in Labels \ {"topic"} : pc' = [pc EXCEPT ![Reader(c)] = l]
    BY <1>7 DEF ReaderGetConn, ReaderLeaves, Handle, RefuseUnregistered, Register, RegisterTags,
       StopSubscribe, Confirm, CloseRequest, Refuse, Labels
  <2> QED BY <1>2, <2>1, Names
<1>8. ASSUME WriterGetConn(c) \/ Close(c) PROVE FALSE
  <2>1. pc' = pc \/ \E p \in {Writer(c), Closer(c)}, l \in Labels \ {"topic"} :
                       pc' = [pc EXCEPT ![p] = l]
    BY <1>8 DEF WriterGetConn, Close, CloseBegin, CloseConn, CloseStopsWriter, CloseEnd, Labels
  <2> QED BY <1>2, <2>1, Names
<1>9. ASSUME ClaimInstance(c) \/ JoinTopic(c) \/ ReplyAndStart(c) PROVE FALSE
  <2>1. \E l \in Labels \ {"topic"} : pc' = [pc EXCEPT ![Reader(c)] = l]
    BY <1>9 DEF ClaimInstance, JoinTopic, ReplyAndStart, Labels
  <2> QED BY <1>2, <2>1, Names
<1>10. ASSUME LoadTopic(c) PROVE topic[c] \in topics
  <2>1. topic[c] \notin topics => pc' = [pc EXCEPT ![Reader(c)] = "enter"]
    BY <1>10 DEF LoadTopic
  <2> QED BY <1>2, <2>1, Names DEF Labels
<1> QED BY <1>5, <1>6, <1>7, <1>8, <1>9, <1>10 DEF ClientStep, OnMqRegister

\* Only JoinTopic adds to a topic, and only to one without a subscriber; no
\* entry is ever taken away.
LEMMA TopicStep == RInv /\ Next => TopicInv'
<1> SUFFICES ASSUME RInv, Next PROVE TopicInv'
  OBVIOUS
<1>0. TypeOK /\ TopicInv /\ \A c \in Clients : ClientInv(c)
  BY DEF RInv
<1>1. /\ \/ topicClients' = topicClients
         \/ \E c \in Clients : JoinTopic(c)
         \/ \E p \in Procs : DelTopic(p)
      /\ topics' = topics \/ \E c \in Clients : EnterTopic(c)
      /\ topic' = topic \/ \E c \in Clients, i \in Instances, t \in Topics :
                             Register(c, i, t) \/ RegisterTags(c, i, t)
  <2> USE DEF Next, AddClient, Break, ReaderGetConn, ReaderLeaves, Handle, RefuseUnregistered,
         Register, RegisterTags, StopSubscribe, Confirm, CloseRequest, Refuse,
         OnMqRegister, ClaimInstance, LoadTopic, JoinTopic, EnterTopic, ReplyAndStart,
         WriterGetConn, Close, CloseBegin, CloseConn, CloseStopsWriter, CloseEnd,
         QueueStep, LookupTopic, AskClient, QueueGetConn, Write, Error, CloseSelf,
         Unregister, DelTopic
  <2>1. \/ topicClients' = topicClients
        \/ \E c \in Clients : JoinTopic(c)
        \/ \E p \in Procs : DelTopic(p)
    BY EntersOnce
  <2>2. topics' = topics \/ \E c \in Clients : EnterTopic(c)
    OBVIOUS
  <2>3. topic' = topic \/ \E c \in Clients, i \in Instances, t \in Topics :
                             Register(c, i, t) \/ RegisterTags(c, i, t)
    OBVIOUS
  <2> QED BY <2>1, <2>2, <2>3
<1>2. topics \subseteq topics'
  BY <1>1 DEF EnterTopic
<1>3. \A t \in Topics : \A c, d \in topicClients'[t] : c = d
  <2>1. CASE topicClients' = topicClients
    BY <1>0, <2>1 DEF TopicInv
  <2>2. ASSUME NEW c \in Clients, JoinTopic(c)
        PROVE  \A t \in Topics : \A d, e \in topicClients'[t] : d = e
    <3>1. topicClients \in [Topics -> SUBSET Clients]
      BY <1>0 DEF TypeOK
    <3>2. \A t \in Topics : \A d, e \in topicClients[t] : d = e
      BY <1>0 DEF TopicInv
    <3>3. \/ topicClients' = topicClients
          \/ /\ topicClients[topic[c]] = {}
             /\ topicClients' = [topicClients EXCEPT ![topic[c]] = @ \cup {c}]
      BY <2>2 DEF JoinTopic, IsOk
    <3>4. SUFFICES ASSUME NEW t \in Topics, NEW d \in topicClients'[t], NEW e \in topicClients'[t]
                   PROVE  d = e
      OBVIOUS
    <3>5. CASE topicClients' = topicClients
      BY <3>2, <3>5
    <3>6. CASE /\ topicClients[topic[c]] = {}
               /\ topicClients' = [topicClients EXCEPT ![topic[c]] = @ \cup {c}]
      <4>1. topicClients'[t] = IF t = topic[c] THEN {c} ELSE topicClients[t]
        BY <3>1, <3>6
      <4> QED BY <3>2, <4>1
    <3> QED BY <3>3, <3>5, <3>6
  <2>3. ASSUME NEW p \in Procs, DelTopic(p)
        PROVE  \A t \in Topics : \A d, e \in topicClients'[t] : d = e
    BY <1>0, <2>3 DEF TopicInv, DelTopic, Del
  <2> QED BY <1>1, <2>1, <2>2, <2>3
<1>4. ASSUME NEW t \in Topics \ topics' PROVE topicClients'[t] = {}
  <2>1. t \notin topics /\ topicClients[t] = {}
    BY <1>0, <1>2, <1>4 DEF TopicInv
  <2>2. ASSUME NEW c \in Clients, JoinTopic(c) PROVE topicClients'[t] = {}
    <3>1. topic[c] # t
      BY <1>0, <2>1, <2>2 DEF TopicInv, JoinTopic
    <3>2. topicClients' = topicClients \/ topicClients' = [topicClients EXCEPT ![topic[c]] = @ \cup {c}]
      BY <2>2 DEF JoinTopic
    <3> QED BY <1>0, <2>1, <3>1, <3>2 DEF TypeOK
  <2>3. ASSUME NEW p \in Procs, DelTopic(p) PROVE topicClients'[t] = {}
    BY <2>1, <2>3 DEF DelTopic, Del
  <2> QED BY <1>1, <2>1, <2>2, <2>3
<1>5. ASSUME NEW c \in Clients, pc'[Reader(c)] = "topic" PROVE topic'[c] \in topics'
  <2>1. CASE pc[Reader(c)] = "topic"
    <3>1. topic'[c] = topic[c]
      <4>1. ASSUME NEW d \in Clients, NEW i \in Instances, NEW t \in Topics,
                   Register(d, i, t) \/ RegisterTags(d, i, t)
            PROVE  topic'[c] = topic[c]
        BY <1>0, <2>1, <4>1 DEF Register, RegisterTags, Reading, TypeOK
      <4> QED BY <1>1, <4>1
    <3> QED BY <1>0, <1>2, <2>1, <3>1 DEF TopicInv
  <2>2. CASE pc[Reader(c)] # "topic"
    <3>1. (LoadTopic(c) /\ topic[c] \in topics) \/ EnterTopic(c)
      BY <1>5, <2>2, OnlyLoading
    <3> QED BY <3>1, EntersOnce DEF LoadTopic, EnterTopic
  <2> QED BY <2>1, <2>2
<1> QED BY <1>3, <1>4, <1>5 DEF TopicInv

LEMMA Inductive == RInv /\ [Next]_vars => RInv'
<1> SUFFICES ASSUME RInv, [Next]_vars PROVE RInv'
  OBVIOUS
<1>0. TypeOK
  BY DEF RInv
<1>1. CASE Next
  <2>1. ASSUME NEW c \in Clients, Only(c), ClientInv(c)', NEW d \in Clients PROVE ClientInv(d)'
    <3>1. CASE d = c
      BY <2>1, <3>1
    <3>2. CASE d # c
      <4>1. ClientInv(d)
        BY DEF RInv
      <4> QED BY <1>0, <2>1, <3>2, <4>1, OthersKeep
    <3> QED BY <3>1, <3>2
  <2>2. ASSUME NEW c \in Clients, ClientStep(c), NEW d \in Clients PROVE ClientInv(d)'
    <3>1. ClientInv(c)'
      BY <2>2, AddClientKeeps, BreakKeeps, ReaderGetConnKeeps, ReaderLeavesKeeps,
         WriterGetConnKeeps, RefuseUnregisteredKeeps, RegisterKeeps, RegisterTagsKeeps,
         StopSubscribeKeeps, CloseRequestKeeps, RefuseKeeps, ConfirmKeeps, ClaimInstanceKeeps,
         LoadTopicKeeps, EnterTopicKeeps, JoinTopicKeeps, ReplyAndStartKeeps, CloseBeginKeeps, CloseConnKeeps,
         CloseStopsWriterKeeps, CloseEndKeeps DEF ClientStep, Handle, OnMqRegister, Close
    <3> QED BY <2>1, <2>2, <3>1, ClientStepsAlone
  <2>3. ASSUME NEW p \in Procs, Write(p) \/ Error(p) \/ CloseSelf(p), NEW d \in Clients
        PROVE  ClientInv(d)'
    <3>1. PICK c \in Clients : c = Target(p) /\ Only(c)
      BY <2>3, TargetsAlone
    <3>2. ClientInv(c)'
      BY <2>3, <3>1, WriteKeeps, ErrorKeeps, UnregisterKeeps, DelTopicKeeps DEF CloseSelf
    <3> QED BY <2>1, <3>1, <3>2
  <2>4. ASSUME NEW q \in Queues, QueueStep(q), NEW d \in Clients PROVE ClientInv(d)'
    BY <2>4, QueueKeeps
  <2>5. \A d \in Clients : ClientInv(d)'
    BY <1>1, <2>2, <2>3, <2>4 DEF Next, ClientStep
  <2> QED BY <1>1, <2>5, TypeStep, PlaceStep, TopicStep DEF RInv
<1>2. CASE UNCHANGED vars
  <2>1. \A c \in Clients : ClientInv(c)'
    BY <1>2 DEF vars, RInv, ClientInv, Ident, Fresh, Registration, Registering, Failure,
       Deletion, Deleting, Routing, Gone, Closing, Closed, Off, Subscribes, Target
  <2> QED BY <1>2, <2>1 DEF vars, RInv, TypeOK, PlaceInv, TopicInv
<1> QED BY <1>1, <1>2

-----------------------------------------------------------------------------
\* What follows from the invariant.
LEMMA OneOrNone == RInv => OneSubscriber
<1> SUFFICES ASSUME RInv, NEW c \in Clients, NEW d \in Clients, Served(c), Served(d),
                    topic[c] = topic[d]
             PROVE  c = d
  BY DEF OneSubscriber
<1>1. topic[c] \in Topics /\ c \in topicClients[topic[c]] /\ d \in topicClients[topic[d]]
  BY DEF RInv, ClientInv, Ident, Routing, Served
<1> QED BY <1>1 DEF RInv, TopicInv

LEMMA ConnIsThere == RInv => ErrorHasConn
<1>1. ASSUME RInv PROVE ErrorHasConn
  <2> SUFFICES ASSUME NEW p \in Procs, Failing(p), clientLock[Target(p)] = Nobody,
                      MayFail(Target(p)), conn[Target(p)] = "nil"
               PROVE  FALSE
    BY DEF ErrorHasConn
  <2>1. Target(p) \in Clients
    BY <1>1, Targets DEF RInv, Failing
  <2>2. "Stop" \notin state[Target(p)] /\ clientLock[Target(p)] # Closer(Target(p))
    BY <2>1, Names DEF MayFail
  <2> QED BY <1>1, <2>1, <2>2 DEF RInv, ClientInv, Closed
<1> QED BY <1>1

LEMMA InMapsOrOut == RInv => Routed /\ GoneFromMaps
  BY DEF RInv, ClientInv, Routing, Routed, Served, Gone, Closing, Off, Subscribes, GoneFromMaps

Kept == \A c \in Clients : "Err" \in state[c] => "Err" \in state'[c] /\ "Start" \notin state'[c]

LEMMA ErrIsKept == RInv /\ RInv' /\ [Next]_vars => Kept
<1> USE DEF Kept
<1>1. ASSUME RInv, RInv', Next PROVE Kept
  <2> SUFFICES ASSUME NEW c \in Clients, "Err" \in state[c]
               PROVE  "Err" \in state'[c] /\ "Start" \notin state'[c]
    OBVIOUS
  <2>1. /\ TypeOK /\ "Start" \notin state[c] /\ conn[c] \in {"broken", "nil"}
        /\ pc[Reader(c)] # "reply" /\ ClientInv(c)'
    BY <1>1 DEF RInv, ClientInv, Failure, Registration, Registering
  <2>2. "Err" \in state'[c]
    <3>1. CASE state' = state
      BY <3>1
    <3>2. ASSUME NEW d \in Clients,
                 \/ AddClient(d) \/ StopSubscribe(d) \/ ReplyAndStart(d)
                 \/ \E i \in Instances, t \in Topics : Register(d, i, t)
          PROVE  "Err" \in state'[c]
      BY <2>1, <3>2 DEF TypeOK, AddClient, StopSubscribe, ReplyAndStart, Register, Reading
    <3>3. ASSUME NEW d \in Clients, CloseBegin(d) \/ CloseEnd(d) PROVE "Err" \in state'[c]
      BY <2>1, <3>3 DEF TypeOK, CloseBegin, CloseEnd
    <3>4. ASSUME NEW p \in Procs, Error(p) PROVE "Err" \in state'[c]
      BY <2>1, <3>4 DEF TypeOK, Error, IsError, MayFail
    <3> QED
      BY <1>1, <3>1, <3>2, <3>3, <3>4 DEF Next, Break, ReaderGetConn, ReaderLeaves, Handle,
         RefuseUnregistered, RegisterTags, Confirm, CloseRequest, Refuse, OnMqRegister,
         ClaimInstance, LoadTopic, EnterTopic, JoinTopic, WriterGetConn, Close, CloseConn, CloseStopsWriter,
         QueueStep, LookupTopic, AskClient, QueueGetConn, Write, CloseSelf, Unregister, DelTopic
  <2> QED BY <2>1, <2>2 DEF ClientInv, Failure
<1>2. UNCHANGED vars /\ RInv => Kept
  BY DEF vars, RInv, ClientInv, Failure
<1> QED BY <1>1, <1>2

-----------------------------------------------------------------------------
\* RInv is an inductive invariant of the server's maps and of the connections
\* registered in them, under every order of registrations, failures, Close and
\* lookups of queues.
THEOREM Invariance == Spec => []RInv
  BY Initially, Inductive, PTL DEF Spec

\* Every variable of the registry keeps its type.
THEOREM TypeCorrect == Spec => []TypeOK
<1>1. RInv => TypeOK
  BY DEF RInv
<1> QED BY <1>1, Invariance, PTL

\* Two clients are never served for one topic at a time: those who find no entry
\* for it all get the same one from LoadOrStore, IsOk lets one of them in, and
\* whoever it lets in afterwards comes after a deletion that the first one
\* knows of (Deletion), and that ended its service before it took it out.
THEOREM SubscriberUnique == Spec => []OneSubscriber
  BY OneOrNone, Invariance, PTL

\* When Client.Error gets past the flags of a client, the connection whose
\* Pointer IsError takes is there.
THEOREM ErrorFindsConn == Spec => []ErrorHasConn
  BY ConnIsThere, Invariance, PTL

\* A registered client that started and was not dropped is routed to: no
\* deletion of another client takes it from its topic or from its harbor.
THEOREM RegisteredRouted == Spec => []Routed
  BY InMapsOrOut, Invariance, PTL

\* What CloseSelf deletes stays deleted: after Close the client is in no map.
THEOREM ClosedAreGone == Spec => []GoneFromMaps
  BY InMapsOrOut, Invariance, PTL

\* No step takes Err away or starts a client that has failed: a failure during
\* the registration does not count, and none is followed by a registration.
THEOREM FailureFinal == Spec => FailedForGood
  BY ErrIsKept, Invariance, PTL DEF Spec, FailedForGood, Kept

-----------------------------------------------------------------------------
(***************************************************************************)
(* The registry in MqBroker, where queues look for a client only when they *)
(* have a message and readers are held up by the requests in their hands:  *)
(* what MqRegistry promises holds there too.  The steps of MqBroker are    *)
(* those of MqRegistry, and those in which a reader hands on a request.    *)
(***************************************************************************)
HandsOn(c) ==
    /\ pc[Reader(c)] \in {"reading", "create", "push"}
    /\ \E l \in {"read", "create", "push"} : Moves(Reader(c), l)

LEMMA RegistrySteps ==
  ASSUME BNext
  PROVE  [Next]_vars \/ \E c \in Clients : HandsOn(c)
<1>1. ASSUME NEW c \in Clients, PeerStep(c)
      PROVE  [Next]_vars \/ HandsOn(c)
  <2>1. ASSUME NEW t, ReadRequest(c, t) PROVE HandsOn(c)
    BY <2>1 DEF ReadRequest, Reading, HandsOn
  <2>2. InstanceOf[c] \in Instances
    BY BrokerAssumption
  <2> QED BY <1>1, <2>1, <2>2 DEF PeerStep, Next, Handle
<1>2. ASSUME NEW c \in Clients, ReaderStep(c)
      PROVE  [Next]_vars \/ HandsOn(c)
  <2>1. CASE GetSQProducer(c) \/ PushRequest(c)
    BY <2>1 DEF GetSQProducer, PushRequest, HandsOn
  <2>2. CASE Confirm(c)
    BY <2>2 DEF Next, Handle
  <2>3. CASE ReaderGetConn(c) \/ ReaderLeaves(c) \/ OnMqRegister(c)
    BY <2>3 DEF Next
  <2> QED BY <1>2, <2>1, <2>2, <2>3 DEF ReaderStep
<1>3. ASSUME NEW c \in Clients, WriterStep(c) \/ Fails(Reader(c)) \/ Fails(Writer(c)) \/ Close(c)
      PROVE  Next
  BY <1>3, Names DEF WriterStep, Fails, Next
<1>4. ASSUME NEW q \in Queues, BQueueStep(q)
      PROVE  [Next]_vars
  BY <1>4, Names DEF BQueueStep, TakeMessage, SeekConn, WriteRequest, WriteFails, Next
<1> QED BY <1>1, <1>2, <1>3, <1>4 DEF BNext

LEMMA HandsOnKeeps ==
  ASSUME RInv, NEW c \in Clients, HandsOn(c)
  PROVE  RInv'
<1>1. TypeOK /\ PlaceInv /\ TopicInv /\ \A d \in Clients : ClientInv(d)
  BY DEF RInv
<1>2. PICK l \in {"read", "create", "push"} :
         /\ pc' = [pc EXCEPT ![Reader(c)] = l]
         /\ UNCHANGED <<state, conn, ident, maps, locks, client, told, asked, hist>>
  BY DEF HandsOn, Moves, Goto
<1>3. pc[Reader(c)] \in {"reading", "create", "push"}
  BY DEF HandsOn
<1>4. /\ \A p \in Procs : pc'[p] = IF p = Reader(c) THEN l ELSE pc[p]
      /\ l \in Labels
  BY <1>1, <1>2 DEF TypeOK, Labels
<1>5. TypeOK'
  BY <1>1, <1>2, <1>4 DEF TypeOK
<1>6. PlaceInv'
  BY <1>1, <1>2, <1>4, Names DEF PlaceInv
<1>7. TopicInv'
  BY <1>1, <1>2, <1>3, <1>4, Names DEF TopicInv
<1>8. ASSUME NEW d \in Clients PROVE ClientInv(d)'
  <2>1. /\ ClientInv(d) /\ Off(d)' = Off(d) /\ Subscribes(d)' = Subscribes(d)
        /\ pc'[Writer(d)] = pc[Writer(d)] /\ pc'[Closer(d)] = pc[Closer(d)]
        /\ \A p \in Procs : Target(p)' = Target(p) /\ Deleting(p)' = Deleting(p)
                              /\ (pc'[p] = "delTopic" <=> pc[p] = "delTopic")
    BY <1>1, <1>2, <1>3, <1>4, Names DEF Off, Subscribes, Target, Deleting
  <2>2. /\ pc'[Reader(d)] = pc[Reader(d)] \/ d = c
        /\ \A k \in {"claim", "load", "enter", "topic", "reply", "gone"} :
              pc'[Reader(d)] = k <=> pc[Reader(d)] = k
    BY <1>2, <1>3, <1>4, Names
  <2>3. Ident(d)' /\ Registration(d)' /\ Failure(d)'
    BY <1>2, <2>1, <2>2 DEF ClientInv, Ident, Registration, Registering, Failure
  <2>4. Fresh(d)'
    BY <1>1, <1>2, <1>3, <2>2 DEF ClientInv, Fresh
  <2>5. Deletion(d)' /\ Gone(d)'
    BY <1>2, <2>1 DEF ClientInv, Deletion, Gone, Closing
  <2>6. Routing(d)' /\ Closed(d)'
    BY <1>2, <2>1, <2>2 DEF ClientInv, Routing, Closed
  <2> QED BY <2>3, <2>4, <2>5, <2>6 DEF ClientInv
<1> QED BY <1>5, <1>6, <1>7, <1>8 DEF RInv

\* Clients that are registered at the start are there as RInv says.
LEMMA RegisteredAtFirst == BInit => RInv
<1> SUFFICES ASSUME BInit PROVE RInv
  OBVIOUS
<1> DEFINE E == DOMAIN Early
<1>1. /\ E \subseteq Clients /\ \A c \in E : Early[c] \in Topics /\ InstanceOf[c] \in Instances
      /\ \A c, d \in E : c # d => Early[c] # Early[d]
  BY BrokerAssumption
<1>2. TypeOK
  <2>1. /\ state \in [Clients -> SUBSET Flags] /\ conn \in [Clients -> {"none", "up", "broken", "nil"}]
        /\ harbor \in [Clients -> BOOLEAN]
    BY DEF BInit, Flags, IsEarly
  <2>2. /\ instance \in [Clients -> Instances \cup {Nobody}]
        /\ topic \in [Clients -> Topics \cup {Nobody}]
    BY <1>1 DEF BInit, IsEarly
  <2>3. /\ instanceClient \in [Instances -> Clients \cup {Nobody}]
        /\ harborClient \subseteq Clients /\ topicClients \in [Topics -> SUBSET Clients]
        /\ topics \subseteq Topics
    BY <1>1 DEF BInit
  <2>4. remote \in [Clients -> {"dialled", "registering", "registered", "stopped", "closing"}]
    BY DEF BInit
  <2> QED BY <2>1, <2>2, <2>3, <2>4 DEF BInit, TypeOK, Labels
<1>3. \A c \in Clients : pc[Reader(c)] = "read" /\ pc[Writer(c)] = "idle" /\ pc[Closer(c)] = "idle"
  BY Names DEF BInit, Reader, Writer, Closer
<1>4. \A q \in Queues : pc[Queue(q)] = "idle" /\ client[q] = Nobody
  BY Names DEF BInit, Queue
<1>5. \A p \in Procs : pc[p] \in {"read", "idle"}
  BY DEF BInit
<1>6. PlaceInv
  BY <1>3, <1>4 DEF PlaceInv
<1>7. TopicInv
  <2>1. \A t \in Topics : \A c, d \in topicClients[t] : c = d
    BY <1>1 DEF BInit
  <2>2. ASSUME NEW t \in Topics \ topics PROVE topicClients[t] = {}
    <3>1. /\ topicClients[t] = {c \in E : Early[c] = t}
          /\ \A c \in E : Early[c] # t
      BY <2>2 DEF BInit
    <3> QED BY <3>1
  <2> QED BY <1>3, <2>1, <2>2 DEF TopicInv
<1>8. ASSUME NEW c \in Clients PROVE ClientInv(c)
  <2>1. \A q \in Queues : client[q] # c
    BY <1>4
  <2>2. \A p \in Procs : ~Deleting(p) /\ pc[p] # "delTopic"
    BY <1>5 DEF Deleting
  <2>3. told[c] = {} /\ asked[c] = 0 /\ ~timedOut[c] /\ ~dropped[c]
    BY DEF BInit
  <2>4. \A i \in Instances : instanceClient[i] = c => c \in E /\ InstanceOf[c] = i
    BY DEF BInit
  <2>5. CASE c \in E
    <3>1. /\ state[c] = {"Start"} /\ conn[c] = "up" /\ remote[c] = "registered" /\ harbor[c]
          /\ instance[c] = InstanceOf[c] /\ topic[c] = Early[c] /\ c \in harborClient
          /\ \A t \in Topics : c \in topicClients[t] <=> t = Early[c]
      BY <1>1, <2>5 DEF BInit, IsEarly
    <3>2. Ident(c) /\ Fresh(c) /\ Registration(c) /\ Failure(c)
      BY <1>1, <1>3, <2>1, <2>4, <2>5, <3>1 DEF Ident, Fresh, Registration, Registering, Failure
    <3>3. Deletion(c) /\ Routing(c) /\ Gone(c) /\ Closed(c)
      BY <1>1, <1>3, <2>2, <2>3, <2>5, <3>1 DEF Deletion, Routing, Gone, Closing, Closed
    <3> QED BY <3>2, <3>3 DEF ClientInv
  <2>6. CASE c \notin E
    <3>1. /\ state[c] = {} /\ conn[c] = "none" /\ remote[c] = "dialled" /\ ~harbor[c]
          /\ instance[c] = Nobody /\ topic[c] = Nobody /\ c \notin harborClient
          /\ \A t \in Topics : c \notin topicClients[t]
      BY <2>6 DEF BInit, IsEarly
    <3>2. Ident(c) /\ Fresh(c) /\ Registration(c) /\ Failure(c)
      BY <1>3, <2>1, <2>3, <2>4, <2>6, <3>1
         DEF Ident, Fresh, Registration, Registering, Failure, Off, Subscribes
    <3>3. Deletion(c) /\ Routing(c) /\ Gone(c) /\ Closed(c)
      BY <1>3, <2>2, <2>3, <3>1 DEF Deletion, Routing, Gone, Closing, Closed
    <3> QED BY <3>2, <3>3 DEF ClientInv
  <2> QED BY <2>5, <2>6
<1> QED BY <1>2, <1>6, <1>7, <1>8 DEF RInv

LEMMA RegistryStepKeeps == RInv /\ [BNext]_bvars => RInv'
<1>1. ASSUME RInv, BNext PROVE RInv'
  BY <1>1, RegistrySteps, HandsOnKeeps, Inductive
<1>2. UNCHANGED bvars => UNCHANGED vars
  BY DEF bvars
<1> QED BY <1>1, <1>2, Inductive

THEOREM RegistryInvariance == BSpec => []RInv
  BY RegisteredAtFirst, RegistryStepKeeps, PTL DEF BSpec

(* Holding readers up with requests, and letting queues look for a client  *)
(* only now and then, takes nothing from what the registry promises: one   *)
(* subscriber per topic, routed to while it works, in no map after Close,  *)
(* and a failure that finds its connection.                                *)
THEOREM RegistryHoldsUnderLoad ==
    BSpec => [](OneSubscriber /\ ErrorHasConn /\ Routed /\ GoneFromMaps)
  BY OneOrNone, ConnIsThere, InMapsOrOut, RegistryInvariance, PTL

-----------------------------------------------------------------------------
(***************************************************************************)
(* That the queues of MqBroker keep requests in order, for every set       *)
(* of clients, topics and queues, every size of a channel and every number *)
(* of requests.                                                            *)
(*                                                                         *)
(* BInv says of each topic what its queue holds: for every client exactly  *)
(* the requests between the last one written and the one its reader has in *)
(* hand, with increasing numbers.  A queue is in the middle of a write     *)
(* only with a message, it has none before it is entered for its topic, it *)
(* is not exchanged for another one after that, and it is the one that any *)
(* reader has in hand for a request to the topic.                          *)
(***************************************************************************)

HIDE DEF maps, locks, ident, hist

\* Where goroutines are that have no request in hand.
Plain == {"idle", "read", "reading", "gone", "panicked", "claim", "load", "enter",
          "topic", "reply", "confirm", "asking", "writing", "unregister", "delTopic",
          "closeConn", "waitReader", "waitWriter"}

Message == Clients \X Nat

\* What the proof needs to know of the goroutines.
PcOK == DOMAIN pc = Procs /\ pc = [p \in DOMAIN pc |-> pc[p]]

MessagesOK ==
    /\ topicTag \in [Topics -> Queues \cup {Nobody}]
    /\ dest \in [Clients -> Topics \cup {Nobody}]
    /\ queue \in [Clients -> Queues \cup {Nobody}]
    /\ cache \in [Queues -> Seq(Message)] /\ cur \in [Queues -> Seq(Message)]
    /\ sent \in [Clients -> [Topics -> Nat]] /\ written \in [Clients -> [Topics -> Nat]]

\* A reader has a message in hand.
InHands(c) == pc[Reader(c)] \in {"create", "push"}

QueueInv ==
    /\ \A t \in Topics : topicTag[t] # Nobody => TopicOf[topicTag[t]] = t
    /\ \A q \in Queues :
          /\ topicTag[TopicOf[q]] # q => cur[q] = <<>> /\ cache[q] = <<>>
          /\ pc[Queue(q)] # "idle" => cur[q] # <<>>
          /\ cur[q] # <<>> => Len(cur[q]) = 1
    /\ \A c \in Clients : InHands(c) =>
          /\ \E q \in Queues : TopicOf[q] = dest[c]
          /\ pc[Reader(c)] = "push" => topicTag[dest[c]] # Nobody /\ queue[c] = topicTag[dest[c]]

\* The number of the last request of c for topic t that has reached its queue.
Queued(c, t) == IF Holds(c, t) THEN sent[c][t] - 1 ELSE sent[c][t]

\* s holds the requests low + 1 .. high of c, in that order.
Ordered(s, c, low, high) ==
    /\ low <= high
    /\ \A i \in 1 .. Len(s) : s[i][1] = c => low < s[i][2] /\ s[i][2] <= high
    /\ \A n \in Nat : low < n /\ n <= high => \E i \in 1 .. Len(s) : s[i][1] = c /\ s[i][2] = n
    /\ \A i, k \in 1 .. Len(s) : i < k /\ s[i][1] = c /\ s[k][1] = c => s[i][2] < s[k][2]

QueuesOrdered ==
    \A c \in Clients, t \in Topics : Ordered(InQueue(t), c, written[c][t], Queued(c, t))

BInv == PcOK /\ MessagesOK /\ QueueInv /\ QueuesOrdered

-----------------------------------------------------------------------------
\* What the end and the beginning of a queue do to the order in it.
LEMMA OrderedAppend ==
  ASSUME NEW s \in Seq(Message), NEW m \in Message, NEW c \in Clients,
         NEW low \in Nat, NEW high \in Nat, Ordered(s, c, low, high)
  PROVE  /\ Append(s, m) \in Seq(Message)
         /\ m = <<c, high + 1>> => Ordered(Append(s, m), c, low, high + 1)
         /\ m[1] # c => Ordered(Append(s, m), c, low, high)
<1> DEFINE r == Append(s, m)
<1>1. /\ r \in Seq(Message) /\ Len(r) = Len(s) + 1 /\ Len(s) \in Nat
      /\ r[Len(s) + 1] = m /\ \A i \in 1 .. Len(s) : r[i] = s[i]
  BY AppendProperties
<1>2. \A i \in 1 .. Len(s) : s[i][1] \in Clients /\ s[i][2] \in Nat
  BY DEF Message
<1>3. m[1] \in Clients /\ m[2] \in Nat
  BY DEF Message
<1> HIDE DEF r
<1>4. ASSUME m = <<c, high + 1>> PROVE Ordered(r, c, low, high + 1)
  <2>1. m[1] = c /\ m[2] = high + 1
    BY <1>4
  <2>2. \A i \in 1 .. Len(r) : r[i][1] = c => low < r[i][2] /\ r[i][2] <= high + 1
    BY <1>1, <1>2, <2>1 DEF Ordered
  <2>3. ASSUME NEW n \in Nat, low < n, n <= high + 1
        PROVE  \E i \in 1 .. Len(r) : r[i][1] = c /\ r[i][2] = n
    <3>1. CASE n = high + 1
      BY <1>1, <2>1, <3>1
    <3>2. CASE n <= high
      <4>1. PICK i \in 1 .. Len(s) : s[i][1] = c /\ s[i][2] = n
        BY <2>3, <3>2 DEF Ordered
      <4> QED BY <1>1, <4>1
    <3> QED BY <2>3, <3>1, <3>2
  <2>4. \A i, k \in 1 .. Len(r) : i < k /\ r[i][1] = c /\ r[k][1] = c => r[i][2] < r[k][2]
    BY <1>1, <1>2, <2>1, SMTT(30) DEF Ordered
  <2> QED BY <2>2, <2>3, <2>4 DEF Ordered
<1>5. ASSUME m[1] # c PROVE Ordered(r, c, low, high)
  <2>1. \A i \in 1 .. Len(r) : r[i][1] = c => i \in 1 .. Len(s)
    BY <1>1, <1>5
  <2> QED BY <1>1, <2>1, SMTT(30) DEF Ordered
<1> QED BY <1>1, <1>4, <1>5 DEF r

LEMMA OrderedTail ==
  ASSUME NEW s \in Seq(Message), s # <<>>, NEW c \in Clients,
         NEW low \in Nat, NEW high \in Nat, Ordered(s, c, low, high)
  PROVE  IF Head(s)[1] = c THEN Ordered(Tail(s), c, low + 1, high)
                           ELSE Ordered(Tail(s), c, low, high)
<1> DEFINE r == Tail(s)
<1>1. /\ r \in Seq(Message) /\ Len(r) = Len(s) - 1 /\ Len(s) \in Nat /\ Len(s) >= 1
      /\ Head(s) = s[1] /\ \A i \in 1 .. Len(r) : r[i] = s[i + 1]
  BY HeadTailProperties, EmptySeq
<1>2. \A i \in 1 .. Len(s) : s[i][1] \in Clients /\ s[i][2] \in Nat
  BY DEF Message
<1> HIDE DEF r
<1>3. \A i \in 1 .. Len(r) : i + 1 \in 1 .. Len(s) /\ i + 1 > 1 /\ i \in Nat
  BY <1>1
<1>4. \A i, k \in 1 .. Len(r) : i < k /\ r[i][1] = c /\ r[k][1] = c => r[i][2] < r[k][2]
  <2>1. ASSUME NEW i \in 1 .. Len(r), NEW k \in 1 .. Len(r), i < k, r[i][1] = c, r[k][1] = c
        PROVE  r[i][2] < r[k][2]
    <3>1. i + 1 < k + 1 /\ i + 1 \in 1 .. Len(s) /\ k + 1 \in 1 .. Len(s)
      BY <1>3, <2>1
    <3> QED BY <1>1, <2>1, <3>1, SMTT(30) DEF Ordered
  <2> QED BY <2>1
<1>5. \A i \in 1 .. Len(s) : i = 1 \/ (i - 1 \in 1 .. Len(r) /\ s[i] = r[i - 1])
  BY <1>1
<1>6. CASE s[1][1] = c
  <2>1. s[1][2] \in Nat /\ low < s[1][2] /\ s[1][2] <= high /\ 1 \in 1 .. Len(s)
    BY <1>1, <1>2, <1>6 DEF Ordered
  <2>2. \A i \in 1 .. Len(r) : r[i][1] = c => low + 1 < r[i][2] /\ r[i][2] <= high
    <3>1. ASSUME NEW i \in 1 .. Len(r), r[i][1] = c PROVE low + 1 < r[i][2] /\ r[i][2] <= high
      <4>1. i + 1 \in 1 .. Len(s) /\ 1 < i + 1 /\ s[i + 1][1] = c /\ r[i] = s[i + 1]
        BY <1>1, <1>3, <3>1
      <4>2. s[1][2] < s[i + 1][2] /\ s[i + 1][2] <= high /\ s[i + 1][2] \in Nat
        BY <1>2, <1>6, <2>1, <4>1 DEF Ordered
      <4> QED BY <2>1, <4>1, <4>2
    <3> QED BY <3>1
  <2>3. ASSUME NEW n \in Nat, low + 1 < n, n <= high
        PROVE  \E i \in 1 .. Len(r) : r[i][1] = c /\ r[i][2] = n
    <3>1. PICK i \in 1 .. Len(s) : s[i][1] = c /\ s[i][2] = n
      BY <2>3 DEF Ordered
    <3>2. PICK k \in 1 .. Len(s) : s[k][1] = c /\ s[k][2] = low + 1
      BY <2>1, SMTT(30) DEF Ordered
    <3>3. i # 1
      BY <1>1, <2>1, <2>3, <3>1, <3>2, SMTT(30) DEF Ordered
    <3> QED BY <1>5, <3>1, <3>3
  <2> QED BY <1>1, <1>4, <1>6, <2>1, <2>2, <2>3 DEF Ordered, r
<1>7. CASE s[1][1] # c
  <2>1. \A i \in 1 .. Len(r) : r[i][1] = c => low < r[i][2] /\ r[i][2] <= high
    BY <1>1, <1>3, SMTT(30) DEF Ordered
  <2>2. ASSUME NEW n \in Nat, low < n, n <= high
        PROVE  \E i \in 1 .. Len(r) : r[i][1] = c /\ r[i][2] = n
    <3>1. PICK i \in 1 .. Len(s) : s[i][1] = c /\ s[i][2] = n
      BY <2>2 DEF Ordered
    <3>2. i # 1
      BY <1>7, <3>1
    <3> QED BY <1>5, <3>1, <3>2
  <2> QED BY <1>1, <1>4, <1>7, <2>1, <2>2 DEF Ordered, r
<1> QED BY <1>6, <1>7, <1>1

-----------------------------------------------------------------------------
\* The steps that move requests, and all others, in which a goroutine moves on.
LEMMA StepKinds ==
  ASSUME BInv, BNext
  PROVE  \/ UNCHANGED messages /\ pc' = pc
         \/ /\ UNCHANGED messages
            /\ \E p \in Procs, l \in Plain :
                  /\ pc' = [pc EXCEPT ![p] = l] /\ pc[p] \in Plain
                  /\ \A q \in Queues : p = Queue(q) => cur[q] # <<>>
         \/ \E c \in Clients, q \in Queues : ReadRequest(c, TopicOf[q])
         \/ \E c \in Clients : GetSQProducer(c) \/ PushRequest(c)
         \/ \E q \in Queues : TakeMessage(q) \/ WriteRequest(q)
<1> USE DEF Goto, Plain
<1>0. /\ \A q \in Queues : pc[Queue(q)] # "idle" => cur[q] # <<>>
      /\ \A q \in Queues : cur = [cur EXCEPT ![q] = cur[q]]
  BY DEF BInv, QueueInv, MessagesOK
<1>1. /\ \A c \in Clients :
            /\ Reader(c) \in Procs /\ Writer(c) \in Procs /\ Closer(c) \in Procs
            /\ \A q \in Queues : Queue(q) # Reader(c) /\ Queue(q) # Writer(c) /\ Queue(q) # Closer(c)
      /\ \A q \in Queues :
            Queue(q) \in Procs /\ \A r \in Queues : Queue(q) = Queue(r) => q = r
  BY Names
<1>2. ASSUME NEW c \in Clients,
             AddClient(c) \/ Break(c) \/ StopSubscribe(c) \/ CloseRequest(c) \/ Refuse(c)
               \/ (\E t \in Topics : Register(c, InstanceOf[c], t)),
             UNCHANGED messages
      PROVE  \/ pc' = pc
             \/ \E p \in Procs, l \in Plain :
                   /\ pc' = [pc EXCEPT ![p] = l] /\ pc[p] \in Plain
                   /\ \A q \in Queues : p = Queue(q) => cur[q] # <<>>
  BY <1>1, <1>2 DEF AddClient, Break, StopSubscribe, CloseRequest, Refuse, Register, Reading
<1>3. ASSUME NEW c \in Clients,
             ReaderGetConn(c) \/ ReaderLeaves(c) \/ OnMqRegister(c) \/ Confirm(c)
      PROVE  \E p \in Procs, l \in Plain :
                /\ pc' = [pc EXCEPT ![p] = l] /\ pc[p] \in Plain
                /\ \A q \in Queues : p = Queue(q) => cur[q] # <<>>
  <2>1. \E l \in Plain : pc' = [pc EXCEPT ![Reader(c)] = l] /\ pc[Reader(c)] \in Plain
    BY <1>3 DEF ReaderGetConn, ReaderLeaves, OnMqRegister, ClaimInstance, LoadTopic, EnterTopic,
       JoinTopic, ReplyAndStart, Confirm
  <2>2. Reader(c) \in Procs /\ \A q \in Queues : Reader(c) # Queue(q)
    BY <1>1
  <2> QED BY <2>1, <2>2
<1>4. ASSUME NEW c \in Clients, Close(c)
      PROVE  \/ pc' = pc
             \/ \E p \in Procs, l \in Plain :
                   /\ pc' = [pc EXCEPT ![p] = l] /\ pc[p] \in Plain
                   /\ \A q \in Queues : p = Queue(q) => cur[q] # <<>>
  <2>1. \/ pc' = pc
        \/ \E l \in Plain : pc' = [pc EXCEPT ![Closer(c)] = l] /\ pc[Closer(c)] \in Plain
    BY <1>4 DEF Close, CloseBegin, CloseConn, CloseStopsWriter, CloseEnd
  <2> QED BY <1>1, <2>1
\* What readers, writers and queues have in common.
<1>5. ASSUME NEW p \in Procs, Write(p) \/ Error(p) \/ CloseSelf(p)
      PROVE  \E l \in Plain :
                pc' = [pc EXCEPT ![p] = l] /\ pc[p] \in Plain /\ pc[p] # "idle"
  BY <1>5 DEF Write, Error, Failing, Resume, CloseSelf, Unregister, DelTopic
<1>6. ASSUME NEW c \in Clients, NEW p \in {Reader(c), Writer(c)},
             Write(p) \/ Error(p) \/ CloseSelf(p)
      PROVE  \E r \in Procs, l \in Plain :
                   /\ pc' = [pc EXCEPT ![r] = l] /\ pc[r] \in Plain
                   /\ \A q \in Queues : r = Queue(q) => cur[q] # <<>>
  BY <1>1, <1>5, <1>6
<1>7. ASSUME NEW c \in Clients, WriterGetConn(c)
      PROVE  \E p \in Procs, l \in Plain :
                /\ pc' = [pc EXCEPT ![p] = l] /\ pc[p] \in Plain
                /\ \A q \in Queues : p = Queue(q) => cur[q] # <<>>
  <2>1. pc' = [pc EXCEPT ![Writer(c)] = "writing"] /\ pc[Writer(c)] \in Plain
    BY <1>7 DEF WriterGetConn
  <2>2. Writer(c) \in Procs /\ \A q \in Queues : Writer(c) # Queue(q)
    BY <1>1
  <2> QED BY <2>1, <2>2
<1>8. ASSUME NEW q \in Queues,
             \/ cur[q] # <<>> /\ QueueStep(q)
             \/ Error(Queue(q)) \/ CloseSelf(Queue(q))
      PROVE  \E p \in Procs, l \in Plain :
                /\ pc' = [pc EXCEPT ![p] = l] /\ pc[p] \in Plain
                /\ \A r \in Queues : p = Queue(r) => cur[r] # <<>>
  <2>1. \E l \in Plain : pc' = [pc EXCEPT ![Queue(q)] = l] /\ pc[Queue(q)] \in Plain
    <3>1. CASE QueueStep(q)
      BY <3>1 DEF QueueStep, LookupTopic, AskClient, QueueGetConn
    <3> QED BY <1>1, <1>5, <1>8, <3>1
  <2>2. cur[q] # <<>>
    BY <1>0, <1>1, <1>5, <1>8
  <2> QED BY <1>1, <2>1, <2>2
<1>9. ASSUME NEW c \in Clients, PeerStep(c) \/ ReaderStep(c) \/ WriterStep(c)
                \/ Fails(Reader(c)) \/ Fails(Writer(c)) \/ (Close(c) /\ UNCHANGED messages)
      PROVE  \/ /\ UNCHANGED messages
                /\ \/ pc' = pc
                   \/ \E p \in Procs, l \in Plain :
                         /\ pc' = [pc EXCEPT ![p] = l] /\ pc[p] \in Plain
                         /\ \A q \in Queues : p = Queue(q) => cur[q] # <<>>
             \/ \E q \in Queues : ReadRequest(c, TopicOf[q])
             \/ GetSQProducer(c) \/ PushRequest(c)
  BY <1>2, <1>3, <1>4, <1>6, <1>7, <1>9 DEF PeerStep, ReaderStep, WriterStep, Fails
<1>10. ASSUME NEW q \in Queues, BQueueStep(q)
       PROVE  \/ /\ UNCHANGED messages
                 /\ \E p \in Procs, l \in Plain :
                       /\ pc' = [pc EXCEPT ![p] = l] /\ pc[p] \in Plain
                       /\ \A r \in Queues : p = Queue(r) => cur[r] # <<>>
              \/ TakeMessage(q) \/ WriteRequest(q)
  <2>1. CASE WriteFails(q)
    <3>1. UNCHANGED messages /\ Error(Queue(q))
      BY <1>0, <2>1 DEF WriteFails, Retry, messages
    <3> QED BY <1>8, <3>1
  <2> QED BY <1>8, <1>10, <2>1 DEF BQueueStep, SeekConn
<1> QED BY <1>9, <1>10 DEF BNext

-----------------------------------------------------------------------------
\* The goroutines of clients and queues that the proof is about.
LEMMA Parties ==
    /\ Nobody \notin Queues /\ TopicOf \in [Queues -> Topics]
    /\ \A c \in Clients : Reader(c) \in Procs /\ \A q \in Queues : Reader(c) # Queue(q)
    /\ \A c, d \in Clients : Reader(c) = Reader(d) => c = d
    /\ \A q \in Queues : Queue(q) \in Procs /\ \A r \in Queues : Queue(q) = Queue(r) => q = r
  BY BrokerAssumption, RegistryAssumption, Names

LEMMA BInitially == BInit => BInv
<1> SUFFICES ASSUME BInit PROVE BInv
  OBVIOUS
<1>1. PcOK
  BY DEF BInit, PcOK
<1>2. MessagesOK
  BY EmptySeq DEF BInit, MessagesOK
<1>3. /\ \A c \in Clients : pc[Reader(c)] = "read"
      /\ \A q \in Queues : pc[Queue(q)] = "idle"
  BY Parties DEF BInit, Reader, Queue
<1>4. QueueInv
  <2>1. /\ \A t \in Topics : topicTag[t] = Nobody
        /\ \A q \in Queues : cur[q] = <<>> /\ cache[q] = <<>>
    BY DEF BInit
  <2> QED BY <1>3, <2>1 DEF QueueInv, InHands
<1>5. ASSUME NEW c \in Clients, NEW t \in Topics
      PROVE  Ordered(InQueue(t), c, written[c][t], Queued(c, t))
  <2>1. InQueue(t) = <<>> /\ written[c][t] = 0 /\ Queued(c, t) = 0 /\ Len(<<>>) = 0
    BY <1>3, <1>5, EmptySeq DEF BInit, InQueue, Queued, Holds
  <2> QED BY <2>1 DEF Ordered
<1> QED BY <1>1, <1>2, <1>4, <1>5 DEF BInv, QueuesOrdered

\* What a queue holds, and between which numbers.
LEMMA Contents ==
  ASSUME MessagesOK, NEW t \in Topics
  PROVE  /\ InQueue(t) \in Seq(Message)
         /\ topicTag[t] # Nobody => /\ cur[topicTag[t]] \in Seq(Message)
                                    /\ cache[topicTag[t]] \in Seq(Message)
         /\ \A c \in Clients : sent[c][t] \in Nat /\ written[c][t] \in Nat
<1>1. topicTag[t] # Nobody => /\ cur[topicTag[t]] \in Seq(Message)
                              /\ cache[topicTag[t]] \in Seq(Message)
  BY DEF MessagesOK
<1>2. InQueue(t) \in Seq(Message)
  BY <1>1, EmptySeq, ConcatProperties DEF InQueue
<1>3. \A c \in Clients : sent[c][t] \in Nat /\ written[c][t] \in Nat
  BY DEF MessagesOK
<1> QED BY <1>1, <1>2, <1>3

\* A goroutine moves on: nothing changes for the requests.
LEMMA PlainKeeps ==
  ASSUME BInv, UNCHANGED messages,
         \/ pc' = pc
         \/ \E p \in Procs, l \in Plain :
               /\ pc' = [pc EXCEPT ![p] = l] /\ pc[p] \in Plain
               /\ \A q \in Queues : p = Queue(q) => cur[q] # <<>>
  PROVE  BInv'
<1>1. PcOK /\ MessagesOK /\ QueueInv /\ QueuesOrdered
  BY DEF BInv
<1>2. CASE pc' = pc
  BY <1>1, <1>2 DEF messages, BInv, PcOK, MessagesOK, QueueInv, QueuesOrdered, InHands, Queued,
     Holds, InQueue
<1>3. ASSUME NEW p \in Procs, NEW l \in Plain, pc' = [pc EXCEPT ![p] = l], pc[p] \in Plain,
             \A q \in Queues : p = Queue(q) => cur[q] # <<>>
      PROVE  BInv'
  <2>1. \A r \in Procs : pc'[r] = IF r = p THEN l ELSE pc[r]
    BY <1>1, <1>3 DEF PcOK
  <2>2. PcOK'
    BY <1>1, <1>3 DEF PcOK
  <2>3. \A c \in Clients : /\ pc'[Reader(c)] = "create" <=> pc[Reader(c)] = "create"
                           /\ pc'[Reader(c)] = "push" <=> pc[Reader(c)] = "push"
    BY <1>3, <2>1, Parties DEF Plain
  <2>4. \A q \in Queues : pc'[Queue(q)] # "idle" => cur[q] # <<>>
    BY <1>1, <1>3, <2>1, Parties DEF QueueInv
  <2>5. MessagesOK'
    BY <1>1 DEF messages, MessagesOK
  <2>6. QueueInv'
    BY <1>1, <2>3, <2>4 DEF messages, QueueInv, InHands
  <2>7. \A c \in Clients, t \in Topics :
           InQueue(t)' = InQueue(t) /\ Queued(c, t)' = Queued(c, t) /\ written' = written
    BY <2>3 DEF messages, InQueue, Queued, Holds
  <2>8. QueuesOrdered'
    BY <1>1, <2>7 DEF QueuesOrdered
  <2> QED BY <2>2, <2>5, <2>6, <2>8 DEF BInv
<1> QED BY <1>2, <1>3

\* A reader goes on with a request in hand, and other goroutines stay.
LEMMA ReaderMoves ==
  ASSUME PcOK, NEW c \in Clients, NEW l, Moves(Reader(c), l)
  PROVE  /\ PcOK' /\ pc'[Reader(c)] = l
         /\ \A d \in Clients : d # c => pc'[Reader(d)] = pc[Reader(d)]
         /\ \A q \in Queues : pc'[Queue(q)] = pc[Queue(q)]
  BY Parties DEF Moves, Goto, PcOK

LEMMA ReadRequestKeeps ==
  ASSUME BInv, NEW c \in Clients, NEW q \in Queues, ReadRequest(c, TopicOf[q])
  PROVE  BInv'
<1> DEFINE t0 == TopicOf[q]
<1>1. PcOK /\ MessagesOK /\ QueueInv /\ QueuesOrdered /\ t0 \in Topics
  BY Parties DEF BInv
<1>2. /\ sent' = [sent EXCEPT ![c][t0] = @ + 1] /\ dest' = [dest EXCEPT ![c] = t0]
      /\ queue' = [queue EXCEPT ![c] = topicTag[t0]]
      /\ UNCHANGED <<topicTag, cache, cur, written>> /\ pc[Reader(c)] = "reading"
  BY DEF ReadRequest, Reading
<1>3. /\ PcOK' /\ pc'[Reader(c)] \in {"create", "push"}
      /\ pc'[Reader(c)] = "push" => topicTag[t0] # Nobody
      /\ \A d \in Clients : d # c => pc'[Reader(d)] = pc[Reader(d)]
      /\ \A r \in Queues : pc'[Queue(r)] = pc[Queue(r)]
  BY <1>1, ReaderMoves DEF ReadRequest
<1> HIDE DEF t0
<1>4. MessagesOK'
  BY <1>1, <1>2 DEF MessagesOK
<1>5. \A d \in Clients : /\ dest'[d] = IF d = c THEN t0 ELSE dest[d]
                         /\ queue'[d] = IF d = c THEN topicTag[t0] ELSE queue[d]
  BY <1>1, <1>2 DEF MessagesOK
<1>6. \A d \in Clients, t \in Topics :
         sent'[d][t] = IF d = c /\ t = t0 THEN sent[d][t] + 1 ELSE sent[d][t]
  BY <1>1, <1>2 DEF MessagesOK
<1>7. QueueInv'
  BY <1>1, <1>2, <1>3, <1>5 DEF QueueInv, InHands, t0
<1>8. ASSUME NEW d \in Clients, NEW t \in Topics PROVE Queued(d, t)' = Queued(d, t)
  BY <1>1, <1>2, <1>3, <1>5, <1>6, Contents DEF Queued, Holds
<1>9. QueuesOrdered'
  BY <1>1, <1>2, <1>8 DEF QueuesOrdered, InQueue
<1> QED BY <1>3, <1>4, <1>7, <1>9 DEF BInv

LEMMA GetSQProducerKeeps ==
  ASSUME BInv, NEW c \in Clients, GetSQProducer(c)
  PROVE  BInv' /\ \A t \in Topics : InQueue(t)' = InQueue(t)
<1> DEFINE t0 == dest[c]
           q0 == LoadOrStoreQueue(t0)
<1>1. PcOK /\ MessagesOK /\ QueueInv /\ QueuesOrdered
  BY DEF BInv
<1>2. /\ topicTag' = [topicTag EXCEPT ![t0] = q0] /\ pc[Reader(c)] = "create"
      /\ queue' = [queue EXCEPT ![c] = q0]
      /\ UNCHANGED <<dest, cache, cur, sent, written>>
  BY DEF GetSQProducer
<1>3. /\ PcOK' /\ pc'[Reader(c)] = "push"
      /\ \A d \in Clients : d # c => pc'[Reader(d)] = pc[Reader(d)]
      /\ \A r \in Queues : pc'[Queue(r)] = pc[Queue(r)]
  BY <1>1, ReaderMoves DEF GetSQProducer
<1>4. \E q \in Queues : TopicOf[q] = t0
  BY <1>1, <1>2 DEF QueueInv, InHands
<1>5. t0 \in Topics
  BY <1>4, Parties
<1>6. q0 \in Queues /\ TopicOf[q0] = t0 /\ (topicTag[t0] # Nobody => q0 = topicTag[t0])
  <2>1. CASE topicTag[t0] # Nobody
    BY <1>1, <1>5, <2>1 DEF LoadOrStoreQueue, QueueInv, MessagesOK
  <2>2. CASE topicTag[t0] = Nobody
    <3>1. \E q \in Queues : TopicOf[q] = t0 /\ q # topicTag[t0]
      BY <1>4, <2>2, Parties
    <3> QED BY <2>2, <3>1 DEF LoadOrStoreQueue, NewSQProducer
  <2> QED BY <2>1, <2>2
<1> HIDE DEF t0, q0
<1>7. /\ \A t \in Topics : topicTag'[t] = IF t = t0 THEN q0 ELSE topicTag[t]
      /\ \A d \in Clients : queue'[d] = IF d = c THEN q0 ELSE queue[d]
  BY <1>1, <1>2 DEF MessagesOK
<1>8. MessagesOK'
  BY <1>1, <1>2, <1>5, <1>6 DEF MessagesOK
<1>9. q0 # Nobody
  BY <1>6, Parties
<1>10. QueueInv'
  <2>1. \A t \in Topics : topicTag'[t] # Nobody => TopicOf[topicTag'[t]] = t
    BY <1>1, <1>6, <1>7 DEF QueueInv
  <2>2. ASSUME NEW q \in Queues, topicTag'[TopicOf[q]] # q PROVE cur[q] = <<>> /\ cache[q] = <<>>
    <3>1. topicTag[TopicOf[q]] # q
      BY <1>6, <1>7, <2>2, Parties
    <3> QED BY <1>1, <3>1 DEF QueueInv
  <2>3. \A d \in Clients : InHands(d)' => InHands(d)
    BY <1>2, <1>3 DEF InHands
  <2>4. ASSUME NEW d \in Clients, pc'[Reader(d)] = "push"
        PROVE  topicTag'[dest[d]] # Nobody /\ queue'[d] = topicTag'[dest[d]]
    <3>1. CASE d = c
      BY <1>5, <1>7, <1>9, <3>1 DEF t0
    <3>2. CASE d # c
      <4>1. /\ topicTag[dest[d]] # Nobody /\ queue[d] = topicTag[dest[d]]
            /\ \E q \in Queues : TopicOf[q] = dest[d]
        BY <1>1, <1>3, <2>4, <3>2 DEF QueueInv, InHands
      <4>2. dest[d] \in Topics
        BY <4>1, Parties
      <4> QED BY <1>6, <1>7, <1>9, <3>2, <4>1, <4>2
    <3> QED BY <3>1, <3>2
  <2> QED BY <1>1, <1>2, <1>3, <2>1, <2>2, <2>3, <2>4 DEF QueueInv
\* A queue that is entered now is empty.
<1>11. ASSUME NEW t \in Topics PROVE InQueue(t)' = InQueue(t)
  <2>1. CASE topicTag'[t] = topicTag[t]
    BY <1>2, <2>1 DEF InQueue
  <2>2. CASE topicTag'[t] # topicTag[t]
    <3>1. t = t0 /\ topicTag[t] = Nobody /\ topicTag'[t] = q0
      BY <1>6, <1>7, <2>2
    <3>2. cur[q0] = <<>> /\ cache[q0] = <<>>
      BY <1>1, <1>6, <1>9, <3>1 DEF QueueInv
    <3>3. InQueue(t) = <<>> /\ InQueue(t)' = <<>> \o <<>>
      BY <1>2, <1>9, <3>1, <3>2 DEF InQueue
    <3>4. <<>> \o <<>> = <<>>
      BY EmptySeq, ConcatEmptySeq
    <3> QED BY <3>3, <3>4
  <2> QED BY <2>1, <2>2
<1>12. \A d \in Clients, t \in Topics : Queued(d, t)' = Queued(d, t)
  BY <1>2, <1>3 DEF Queued, Holds
<1>13. QueuesOrdered'
  BY <1>1, <1>2, <1>11, <1>12 DEF QueuesOrdered
<1> QED BY <1>3, <1>8, <1>10, <1>11, <1>13 DEF BInv

LEMMA AppendAtTheEnd ==
  ASSUME NEW r \in Seq(Message), NEW s \in Seq(Message), NEW m \in Message
  PROVE  r \o Append(s, m) = Append(r \o s, m)
<1>1. /\ Append(s, m) \in Seq(Message) /\ Len(Append(s, m)) = Len(s) + 1
      /\ Append(s, m)[Len(s) + 1] = m /\ Len(s) \in Nat /\ Len(r) \in Nat
      /\ \A i \in 1 .. Len(s) : Append(s, m)[i] = s[i]
  BY AppendProperties
<1>2. /\ r \o s \in Seq(Message) /\ Len(r \o s) = Len(r) + Len(s)
      /\ \A i \in 1 .. Len(r) + Len(s) : (r \o s)[i] = IF i <= Len(r) THEN r[i] ELSE s[i - Len(r)]
  BY ConcatProperties
<1>3. /\ r \o Append(s, m) \in Seq(Message) /\ Len(r \o Append(s, m)) = Len(r) + Len(s) + 1
      /\ \A i \in 1 .. Len(r) + Len(s) + 1 :
            (r \o Append(s, m))[i] = IF i <= Len(r) THEN r[i] ELSE Append(s, m)[i - Len(r)]
  BY <1>1, ConcatProperties
<1>4. /\ Append(r \o s, m) \in Seq(Message) /\ Len(Append(r \o s, m)) = Len(r) + Len(s) + 1
      /\ Append(r \o s, m)[Len(r) + Len(s) + 1] = m
      /\ \A i \in 1 .. Len(r) + Len(s) : Append(r \o s, m)[i] = (r \o s)[i]
  BY <1>2, AppendProperties
<1>5. ASSUME NEW i \in 1 .. Len(r) + Len(s) + 1
      PROVE  (r \o Append(s, m))[i] = Append(r \o s, m)[i]
  <2>1. CASE i = Len(r) + Len(s) + 1
    BY <1>1, <1>3, <1>4, <2>1
  <2>2. CASE i \in 1 .. Len(r)
    BY <1>1, <1>2, <1>3, <1>4, <2>2
  <2>3. CASE i \in Len(r) + 1 .. Len(r) + Len(s)
    BY <1>1, <1>2, <1>3, <1>4, <2>3
  <2> QED BY <1>1, <2>1, <2>2, <2>3
<1> QED BY <1>3, <1>4, <1>5, SeqEqual

LEMMA PushRequestKeeps ==
  ASSUME BInv, NEW c \in Clients, PushRequest(c)
  PROVE  /\ BInv' /\ dest[c] \in Topics /\ Len(InQueue(dest[c])) < CacheMax + 1
         /\ \A t \in Topics :
               InQueue(t)' = IF t = dest[c] THEN Append(InQueue(t), <<c, sent[c][t]>>) ELSE InQueue(t)
<1> DEFINE t0 == dest[c]
           q0 == topicTag[t0]
           m  == <<c, sent[c][t0]>>
<1>1. PcOK /\ MessagesOK /\ QueueInv /\ QueuesOrdered
  BY DEF BInv
<1>0. pc[Reader(c)] = "push" /\ queue[c] = q0
  BY <1>1 DEF PushRequest, QueueInv, InHands
<1>2. /\ cache' = [cache EXCEPT ![q0] = Append(@, m)] /\ pc[Reader(c)] = "push"
      /\ queue' = [queue EXCEPT ![c] = Nobody]
      /\ UNCHANGED <<topicTag, dest, cur, sent, written>>
  BY <1>0 DEF PushRequest
<1>3. /\ PcOK' /\ pc'[Reader(c)] = "read"
      /\ \A d \in Clients : d # c => pc'[Reader(d)] = pc[Reader(d)]
      /\ \A r \in Queues : pc'[Queue(r)] = pc[Queue(r)]
  BY <1>1, ReaderMoves DEF PushRequest
<1>4. q0 # Nobody /\ \E q \in Queues : TopicOf[q] = t0
  BY <1>1, <1>2 DEF QueueInv, InHands
<1>5. t0 \in Topics
  BY <1>4, Parties
<1>6. q0 \in Queues /\ TopicOf[q0] = t0
  BY <1>1, <1>4, <1>5 DEF QueueInv, MessagesOK
<1>7. m \in Message /\ m[1] = c /\ m[2] = sent[c][t0] /\ sent[c][t0] \in Nat
  BY <1>1, <1>5 DEF Message, MessagesOK
<1>8. Queued(c, t0) = sent[c][t0] - 1 /\ Queued(c, t0)' = sent[c][t0]
  BY <1>2, <1>3 DEF Queued, Holds
<1>9. \A d \in Clients, t \in Topics : d # c \/ t # t0 => Queued(d, t)' = Queued(d, t)
  BY <1>2, <1>3 DEF Queued, Holds
<1> HIDE DEF q0, m
<1>10. /\ cur[q0] \in Seq(Message) /\ cache[q0] \in Seq(Message) /\ cache'[q0] = Append(cache[q0], m)
       /\ \A q \in Queues : q # q0 => cache'[q] = cache[q]
  BY <1>1, <1>2, <1>6 DEF MessagesOK
<1>11. MessagesOK'
  <2>1. Append(cache[q0], m) \in Seq(Message)
    BY <1>7, <1>10, AppendProperties
  <2>2. /\ cache' \in [Queues -> Seq(Message)]
        /\ queue' \in [Clients -> Queues \cup {Nobody}]
    BY <1>1, <1>2, <2>1 DEF MessagesOK
  <2> QED BY <1>1, <1>2, <2>2 DEF MessagesOK
<1>12. QueueInv'
  <2>1. \A d \in Clients :
           /\ InHands(d)' => InHands(d)
           /\ pc'[Reader(d)] = "push" => pc[Reader(d)] = "push" /\ queue'[d] = queue[d]
    BY <1>1, <1>2, <1>3 DEF InHands, MessagesOK
  <2>2. \A q \in Queues : topicTag[TopicOf[q]] # q => q # q0
    BY <1>6 DEF q0
  <2> QED BY <1>1, <1>2, <1>3, <1>10, <2>1, <2>2 DEF QueueInv
<1>13. InQueue(t0) = cur[q0] \o cache[q0] /\ InQueue(t0)' = Append(InQueue(t0), m)
  <2>1. InQueue(t0) = cur[q0] \o cache[q0] /\ InQueue(t0)' = cur[q0] \o Append(cache[q0], m)
    BY <1>2, <1>4, <1>10 DEF InQueue, q0
  <2>2. cur[q0] \o Append(cache[q0], m) = Append(cur[q0] \o cache[q0], m)
    BY <1>7, <1>10, AppendAtTheEnd
  <2> QED BY <2>1, <2>2
<1>14. \A t \in Topics : t # t0 => InQueue(t)' = InQueue(t)
  <2>1. \A t \in Topics : t # t0 /\ topicTag[t] # Nobody => topicTag[t] \in Queues \ {q0}
    BY <1>1, <1>6 DEF QueueInv, MessagesOK
  <2> QED BY <1>2, <1>10, <2>1 DEF InQueue
<1>15. ASSUME NEW d \in Clients PROVE Ordered(InQueue(t0), d, written[d][t0], Queued(d, t0))'
  <2>1. /\ Ordered(InQueue(t0), d, written[d][t0], Queued(d, t0)) /\ InQueue(t0) \in Seq(Message)
        /\ written[d][t0] \in Nat /\ Queued(d, t0) \in Int /\ sent[d][t0] \in Nat
    BY <1>1, <1>5, Contents DEF QueuesOrdered, Queued
  <2>2. Queued(d, t0) \in Nat
    BY <2>1 DEF Ordered
  <2>3. CASE d = c
    <3>1. m = <<c, Queued(c, t0) + 1>> /\ Queued(c, t0)' = Queued(c, t0) + 1
      BY <1>7, <1>8 DEF m
    <3>2. Ordered(Append(InQueue(t0), m), c, written[c][t0], Queued(c, t0) + 1)
      BY <1>7, <2>1, <2>2, <2>3, <3>1, OrderedAppend
    <3>3. written' = written /\ t0' = t0
      BY <1>2
    <3> QED BY <1>13, <2>3, <3>1, <3>2, <3>3
  <2>4. CASE d # c
    <3>1. Ordered(Append(InQueue(t0), m), d, written[d][t0], Queued(d, t0))
      <4>1. m[1] # d
        BY <1>7, <2>4
      <4> QED BY <1>7, <2>1, <2>2, <4>1, OrderedAppend
    <3>2. written' = written /\ t0' = t0
      BY <1>2
    <3>3. Queued(d, t0)' = Queued(d, t0)
      BY <1>5, <1>9, <2>4, <3>2
    <3> HIDE DEF t0
    <3> QED BY <1>13, <3>1, <3>2, <3>3
  <2> QED BY <2>3, <2>4
<1>16. QueuesOrdered'
  <2>1. t0' = t0
    BY <1>2
  <2> HIDE DEF t0
  <2> QED BY <1>1, <1>2, <1>9, <1>14, <1>15, <2>1 DEF QueuesOrdered
<1>17. Len(InQueue(t0)) < CacheMax + 1
  <2>1. Len(cache[q0]) < CacheMax
    BY <1>0 DEF PushRequest
  <2>2. Len(cur[q0]) <= 1
    <3>1. CASE cur[q0] = <<>>
      BY <3>1, EmptySeq
    <3>2. CASE cur[q0] # <<>>
      <4>1. Len(cur[q0]) = 1
        BY <1>1, <1>6, <3>2 DEF QueueInv
      <4> QED BY <4>1
    <3> QED BY <3>1, <3>2
  <2>3. /\ Len(cur[q0]) \in Nat /\ Len(cache[q0]) \in Nat
        /\ Len(cur[q0] \o cache[q0]) = Len(cur[q0]) + Len(cache[q0])
    BY <1>10, LenProperties, ConcatProperties
  <2>4. PICK i \in Nat, j \in Nat : i = Len(cur[q0]) /\ j = Len(cache[q0])
    BY <2>3
  <2>5. Len(InQueue(t0)) = i + j /\ i <= 1 /\ j < CacheMax /\ CacheMax \in Nat
    BY <1>13, <2>1, <2>2, <2>3, <2>4, BrokerAssumption
  <2> QED BY <2>5
<1>18. \A t \in Topics :
          InQueue(t)' = IF t = t0 THEN Append(InQueue(t), <<c, sent[c][t]>>) ELSE InQueue(t)
  <2>1. InQueue(t0)' = Append(InQueue(t0), m) /\ t0' = t0
    BY <1>2, <1>13
  <2>2. ASSUME NEW t \in Topics, t = t0 PROVE m = <<c, sent[c][t]>> /\ InQueue(t)' = Append(InQueue(t), m)
    <3> HIDE DEF t0
    <3> QED BY <2>1, <2>2 DEF m
  <2> QED BY <1>14, <2>2
<1> QED BY <1>3, <1>5, <1>11, <1>12, <1>16, <1>17, <1>18 DEF BInv

\* The first message of a sequence and the rest of it.
LEMMA HeadAndTail ==
  ASSUME NEW s \in Seq(Message), s # <<>>
  PROVE  /\ Head(s) \in Message /\ Tail(s) \in Seq(Message) /\ <<Head(s)>> \in Seq(Message)
         /\ <<Head(s)>> \o Tail(s) = s
<1>1. /\ Head(s) \in Message /\ Tail(s) \in Seq(Message) /\ Len(Tail(s)) = Len(s) - 1
      /\ Head(s) = s[1] /\ Len(s) \in Nat /\ Len(s) >= 1
      /\ \A i \in 1 .. Len(Tail(s)) : Tail(s)[i] = s[i + 1]
  BY HeadTailProperties, EmptySeq
<1> DEFINE h == <<Head(s)>>
<1>2. h \in Seq(Message) /\ Len(h) = 1 /\ h[1] = s[1]
  BY <1>1
<1> HIDE DEF h
<1>3. /\ h \o Tail(s) \in Seq(Message) /\ Len(h \o Tail(s)) = Len(s)
      /\ \A i \in 1 .. Len(s) : (h \o Tail(s))[i] = IF i <= 1 THEN h[i] ELSE Tail(s)[i - 1]
  <2>1. PICK t \in Seq(Message) : t = Tail(s)
    BY <1>1
  <2>2. /\ h \o t \in Seq(Message) /\ Len(h \o t) = Len(h) + Len(t)
        /\ \A i \in 1 .. Len(h) + Len(t) : (h \o t)[i] = IF i <= Len(h) THEN h[i] ELSE t[i - Len(h)]
    <3>1. h \in Seq(Message)
      BY <1>2
    <3> QED BY <3>1, ConcatProperties
  <2>3. Len(h) = 1 /\ Len(h) + Len(t) = Len(s)
    BY <1>1, <1>2, <2>1
  <2>4. \A i \in 1 .. Len(s) : (h \o t)[i] = IF i <= 1 THEN h[i] ELSE t[i - 1]
    BY <2>2, <2>3
  <2> QED BY <2>1, <2>2, <2>3, <2>4
<1>4. ASSUME NEW i \in 1 .. Len(s) PROVE (h \o Tail(s))[i] = s[i]
  <2>1. CASE i = 1
    BY <1>1, <1>2, <1>3, <2>1
  <2>2. CASE i # 1
    BY <1>1, <1>3, <2>2
  <2> QED BY <2>1, <2>2
<1>5. h \o Tail(s) = s
  BY <1>3, <1>4, SeqEqual
<1> QED BY <1>1, <1>2, <1>5 DEF h

LEMMA OneAndRest ==
  ASSUME NEW r \in Seq(Message), r # <<>>, Len(r) = 1, NEW s \in Seq(Message)
  PROVE  /\ r[1] \in Message /\ r \o s \in Seq(Message) /\ r \o s # <<>>
         /\ Head(r \o s) = r[1] /\ Tail(r \o s) = s
<1>1. r[1] \in Message /\ Len(s) \in Nat
  BY LenProperties, ElementOfSeq
<1>2. /\ r \o s \in Seq(Message) /\ Len(r \o s) = 1 + Len(s)
      /\ \A i \in 1 .. 1 + Len(s) : (r \o s)[i] = IF i <= 1 THEN r[i] ELSE s[i - 1]
  <2>1. /\ r \o s \in Seq(Message) /\ Len(r \o s) = Len(r) + Len(s)
        /\ \A i \in 1 .. Len(r) + Len(s) :
              (r \o s)[i] = IF i <= Len(r) THEN r[i] ELSE s[i - Len(r)]
    BY ConcatProperties
  <2> QED BY <1>1, <2>1
<1>3. r \o s # <<>> /\ Head(r \o s) = r[1]
  BY <1>1, <1>2, EmptySeq
<1>4. /\ Tail(r \o s) \in Seq(Message) /\ Len(Tail(r \o s)) = Len(s)
      /\ \A i \in 1 .. Len(s) : Tail(r \o s)[i] = (r \o s)[i + 1]
  BY <1>1, <1>2, <1>3, HeadTailProperties
<1>5. \A i \in 1 .. Len(s) : Tail(r \o s)[i] = s[i]
  BY <1>1, <1>2, <1>4
<1>6. Tail(r \o s) = s
  BY <1>4, <1>5, SeqEqual
<1> QED BY <1>1, <1>2, <1>3, <1>6

LEMMA TakeMessageKeeps ==
  ASSUME BInv, NEW q \in Queues, TakeMessage(q)
  PROVE  BInv' /\ \A t \in Topics : InQueue(t)' = InQueue(t)
<1>1. PcOK /\ MessagesOK /\ QueueInv /\ QueuesOrdered
  BY DEF BInv
<1>2. /\ cur[q] = <<>> /\ cache[q] # <<>>
      /\ cur' = [cur EXCEPT ![q] = <<Head(cache[q])>>]
      /\ cache' = [cache EXCEPT ![q] = Tail(@)]
      /\ UNCHANGED <<pc, topicTag, dest, queue, sent, written>>
  BY DEF TakeMessage, vars
<1>3. /\ cache[q] \in Seq(Message) /\ Tail(cache[q]) \in Seq(Message)
      /\ <<Head(cache[q])>> \in Seq(Message) /\ <<Head(cache[q])>> \o Tail(cache[q]) = cache[q]
  BY <1>1, <1>2, HeadAndTail DEF MessagesOK
<1>4. /\ \A r \in Queues : cur'[r] = IF r = q THEN <<Head(cache[q])>> ELSE cur[r]
      /\ \A r \in Queues : cache'[r] = IF r = q THEN Tail(cache[q]) ELSE cache[r]
  BY <1>1, <1>2 DEF MessagesOK
<1>5. MessagesOK'
  BY <1>1, <1>2, <1>3 DEF MessagesOK
<1>6. QueueInv'
  <2>1. topicTag[TopicOf[q]] = q
    BY <1>1, <1>2 DEF QueueInv
  <2>2. Len(<<Head(cache[q])>>) = 1
    BY <1>3
  <2> QED BY <1>1, <1>2, <1>4, <2>1, <2>2 DEF QueueInv, InHands
<1>7. ASSUME NEW t \in Topics PROVE InQueue(t)' = InQueue(t)
  <2>1. CASE topicTag[t] = q /\ q # Nobody
    <3>1. InQueue(t) = <<>> \o cache[q] /\ InQueue(t)' = <<Head(cache[q])>> \o Tail(cache[q])
      BY <1>2, <1>4, <2>1 DEF InQueue
    <3>2. <<>> \o cache[q] = cache[q]
      BY <1>3, ConcatEmptySeq
    <3> QED BY <1>3, <3>1, <3>2
  <2>2. CASE topicTag[t] # q
    <3>1. topicTag[t] # Nobody => topicTag[t] \in Queues
      BY <1>1 DEF MessagesOK
    <3> QED BY <1>2, <1>4, <2>2, <3>1 DEF InQueue
  <2> QED BY <2>1, <2>2, Parties
<1>8. QueuesOrdered'
  <2>1. \A c \in Clients, t \in Topics : Queued(c, t)' = Queued(c, t)
    BY <1>2 DEF Queued, Holds
  <2> QED BY <1>1, <1>2, <1>7, <2>1 DEF QueuesOrdered
<1>9. PcOK'
  BY <1>1, <1>2 DEF PcOK
<1> QED BY <1>5, <1>6, <1>7, <1>8, <1>9 DEF BInv

LEMMA WriteRequestKeeps ==
  ASSUME BInv, NEW q \in Queues, WriteRequest(q)
  PROVE  /\ BInv' /\ InQueue(TopicOf[q]) # <<>> /\ Head(InQueue(TopicOf[q])) = cur[q][1]
         /\ \A t \in Topics :
               InQueue(t)' = IF t = TopicOf[q] THEN Tail(InQueue(t)) ELSE InQueue(t)
<1> DEFINE m  == cur[q][1]
           t0 == TopicOf[q]
<1>1. PcOK /\ MessagesOK /\ QueueInv /\ QueuesOrdered /\ t0 \in Topics
  BY Parties DEF BInv
<1>2. /\ cur' = [cur EXCEPT ![q] = <<>>]
      /\ written' = [written EXCEPT ![m[1]][t0] = @ + 1]
      /\ UNCHANGED <<topicTag, dest, queue, cache, sent>>
      /\ pc[Queue(q)] = "writing" /\ pc' = [pc EXCEPT ![Queue(q)] = "idle"]
  BY DEF WriteRequest, Write, Goto, AfterWrite
<1>3. /\ cur[q] # <<>> /\ Len(cur[q]) = 1 /\ topicTag[t0] = q
      /\ cur[q] \in Seq(Message) /\ cache[q] \in Seq(Message)
  BY <1>1, <1>2 DEF QueueInv, MessagesOK
<1>4. InQueue(t0) = cur[q] \o cache[q] /\ InQueue(t0)' = cache[q]
  <2>1. InQueue(t0) = cur[q] \o cache[q] /\ InQueue(t0)' = <<>> \o cache[q]
    BY <1>1, <1>2, <1>3, Parties DEF InQueue, MessagesOK
  <2> QED BY <1>3, <2>1, ConcatEmptySeq
<1>5. /\ m \in Message /\ m[1] \in Clients
      /\ InQueue(t0) \in Seq(Message) /\ InQueue(t0) # <<>>
      /\ Head(InQueue(t0)) = m /\ Tail(InQueue(t0)) = cache[q]
  <2>1. /\ m \in Message /\ cur[q] \o cache[q] \in Seq(Message) /\ cur[q] \o cache[q] # <<>>
        /\ Head(cur[q] \o cache[q]) = m /\ Tail(cur[q] \o cache[q]) = cache[q]
    BY <1>3, OneAndRest
  <2> QED BY <1>4, <2>1 DEF Message
<1> HIDE DEF m, t0
<1>6. /\ PcOK' /\ \A c \in Clients : pc'[Reader(c)] = pc[Reader(c)]
      /\ \A r \in Queues : pc'[Queue(r)] = IF r = q THEN "idle" ELSE pc[Queue(r)]
  BY <1>1, <1>2, Parties DEF PcOK
<1>7. \A r \in Queues : cur'[r] = IF r = q THEN <<>> ELSE cur[r]
  BY <1>1, <1>2 DEF MessagesOK
<1>8. \A c \in Clients, t \in Topics :
         written'[c][t] = IF c = m[1] /\ t = t0 THEN written[c][t] + 1 ELSE written[c][t]
  BY <1>1, <1>2, <1>5 DEF MessagesOK
<1>9. MessagesOK'
  <2>1. written' \in [Clients -> [Topics -> Nat]]
    BY <1>1, <1>2, <1>5 DEF MessagesOK
  <2>2. cur' \in [Queues -> Seq(Message)]
    BY <1>1, <1>2, EmptySeq DEF MessagesOK
  <2> QED BY <1>1, <1>2, <2>1, <2>2 DEF MessagesOK
<1>10. QueueInv'
  <2>1. topicTag[TopicOf[q]] = q
    BY <1>3 DEF t0
  <2> QED BY <1>1, <1>2, <1>6, <1>7, <2>1 DEF QueueInv, InHands
<1>11. \A t \in Topics : t # t0 => InQueue(t)' = InQueue(t)
  <2>1. \A t \in Topics : t # t0 /\ topicTag[t] # Nobody => topicTag[t] \in Queues \ {q}
    BY <1>1 DEF QueueInv, MessagesOK, t0
  <2> QED BY <1>2, <1>7, <2>1 DEF InQueue
<1>12. \A c \in Clients, t \in Topics : Queued(c, t)' = Queued(c, t)
  BY <1>2, <1>6 DEF Queued, Holds
<1>13. ASSUME NEW c \in Clients, NEW t \in Topics
       PROVE  Ordered(InQueue(t)', c, written'[c][t], Queued(c, t))
  <2>1. Ordered(InQueue(t), c, written[c][t], Queued(c, t))
    BY <1>1 DEF QueuesOrdered
  <2>2. CASE t # t0
    BY <1>8, <1>11, <2>1, <2>2
  <2>3. CASE t = t0
    <3>1. written[c][t] \in Nat /\ Queued(c, t) \in Int
      BY <1>1, Contents DEF Queued
    <3>2. Queued(c, t) \in Nat
      BY <2>1, <3>1 DEF Ordered
    <3>3. IF m[1] = c THEN Ordered(cache[q], c, written[c][t] + 1, Queued(c, t))
                      ELSE Ordered(cache[q], c, written[c][t], Queued(c, t))
      BY <1>5, <2>1, <2>3, <3>1, <3>2, OrderedTail
    <3> QED BY <1>4, <1>8, <2>3, <3>3
  <2> QED BY <2>2, <2>3
<1>14. QueuesOrdered'
  BY <1>12, <1>13 DEF QueuesOrdered
<1>15. \A t \in Topics : InQueue(t)' = IF t = t0 THEN Tail(InQueue(t)) ELSE InQueue(t)
  BY <1>4, <1>5, <1>11
<1> QED BY <1>5, <1>6, <1>9, <1>10, <1>14, <1>15 DEF BInv, m, t0

-----------------------------------------------------------------------------
LEMMA BInductive == BInv /\ [BNext]_bvars => BInv'
<1>1. ASSUME BInv, BNext PROVE BInv'
  BY <1>1, StepKinds, PlainKeeps, ReadRequestKeeps, GetSQProducerKeeps, PushRequestKeeps,
     TakeMessageKeeps, WriteRequestKeeps
<1>2. ASSUME BInv, UNCHANGED bvars PROVE BInv'
  BY <1>2, PlainKeeps DEF bvars, vars
<1> QED BY <1>1, <1>2

(* Whatever readers, queues, subscribers and closing goroutines do, each   *)
(* queue holds what was sent and not written, in order.                    *)
THEOREM QueueInvariance == BSpec => []BInv
<1> QED BY BInitially, BInductive, PTL DEF BSpec

(* No request is lost, doubled or overtaken by a later one of its sender   *)
(* between the reader that took it and the write that succeeded: for every *)
(* number of clients, topics, queues and requests and every CacheMax.      *)
THEOREM RequestsInOrder == BSpec => []InOrder
<1>1. ASSUME BInv, NEW c \in Clients, NEW t \in Topics
      PROVE  LET s == InQueue(t) \o InHand(c, t)
                 Own == {i \in 1 .. Len(s) : s[i][1] = c}
             IN /\ written[c][t] <= sent[c][t]
                /\ {s[i][2] : i \in Own} = written[c][t] + 1 .. sent[c][t]
                /\ \A i, k \in Own : i < k => s[i][2] < s[k][2]
  <2> DEFINE s == InQueue(t) \o InHand(c, t)
             Own == {i \in 1 .. Len(s) : s[i][1] = c}
  <2>1. /\ InQueue(t) \in Seq(Message) /\ sent[c][t] \in Nat /\ written[c][t] \in Nat
        /\ Ordered(InQueue(t), c, written[c][t], Queued(c, t))
    BY <1>1, Contents DEF BInv, QueuesOrdered
  <2>2. /\ s \in Seq(Message) /\ Ordered(s, c, written[c][t], sent[c][t])
    <3>1. CASE Holds(c, t)
      <4> DEFINE m == <<c, sent[c][t]>>
      <4>1. InHand(c, t) = <<m>> /\ m \in Message
        BY <2>1, <3>1 DEF InHand, Message
      <4>2. Queued(c, t) = sent[c][t] - 1 /\ Queued(c, t) \in Nat
        BY <2>1, <3>1 DEF Queued, Ordered
      <4>3. m = <<c, Queued(c, t) + 1>> /\ Queued(c, t) + 1 = sent[c][t]
        BY <2>1, <4>2
      <4> HIDE DEF m
      <4>4. InQueue(t) \o <<m>> = Append(InQueue(t), m)
        <5>1. <<m>> = Append(<<>>, m) /\ <<>> \in Seq(Message)
          BY <4>1, EmptySeq
        <5>2. InQueue(t) \o Append(<<>>, m) = Append(InQueue(t) \o <<>>, m)
          BY <2>1, <4>1, <5>1, AppendAtTheEnd
        <5> QED BY <2>1, <5>1, <5>2, ConcatEmptySeq
      <4>5. /\ Append(InQueue(t), m) \in Seq(Message)
            /\ Ordered(Append(InQueue(t), m), c, written[c][t], Queued(c, t) + 1)
        BY <2>1, <4>1, <4>2, <4>3, OrderedAppend
      <4> QED BY <4>1, <4>3, <4>4, <4>5
    <3>2. CASE ~Holds(c, t)
      BY <2>1, <3>2, ConcatEmptySeq DEF InHand, Queued
    <3> QED BY <3>1, <3>2
  <2> HIDE DEF s
  <2>3. \A i \in 1 .. Len(s) : s[i][1] \in Clients /\ s[i][2] \in Nat
    BY <2>2 DEF Message
  <2>4. written[c][t] <= sent[c][t] /\ \A i, k \in Own : i < k => s[i][2] < s[k][2]
    BY <2>2 DEF Ordered
  <2>5. ASSUME NEW i \in Own PROVE s[i][2] \in written[c][t] + 1 .. sent[c][t]
    BY <2>1, <2>2, <2>3 DEF Ordered
  <2>6. ASSUME NEW n \in written[c][t] + 1 .. sent[c][t] PROVE n \in {s[i][2] : i \in Own}
    <3>1. n \in Nat /\ written[c][t] < n /\ n <= sent[c][t]
      BY <2>1
    <3>2. PICK i \in 1 .. Len(s) : s[i][1] = c /\ s[i][2] = n
      BY <2>2, <3>1 DEF Ordered
    <3> QED BY <3>2
  <2>7. {s[i][2] : i \in Own} = written[c][t] + 1 .. sent[c][t]
    BY <2>5, <2>6
  <2> QED BY <2>4, <2>7 DEF s
<1>2. BInv => InOrder
  BY <1>1 DEF InOrder
<1> QED BY <1>2, QueueInvariance, PTL
-----------------------------------------------------------------------------
(***************************************************************************)
(* MqBroker implements MqDelivery.                                         *)
(***************************************************************************)
Hand == [c \in Clients |-> IF pc[Reader(c)] \in {"create", "push"} THEN dest[c] ELSE Nobody]
Line == [t \in Topics |-> InQueue(t)]

\* The oldest request of a queue is the one that its sender waits for.
LEMMA OldestIsNext ==
  ASSUME NEW s \in Seq(Message), s # <<>>, NEW low \in Nat, NEW high \in Nat,
         Ordered(s, Head(s)[1], low, high)
  PROVE  Head(s)[2] = low + 1
<1>1. /\ Head(s) = s[1] /\ 1 \in 1 .. Len(s) /\ Len(s) \in Nat
      /\ \A i \in 1 .. Len(s) : s[i][2] \in Nat
  BY LenProperties, EmptySeq DEF Message
<1>2. low < s[1][2] /\ s[1][2] <= high
  BY <1>1 DEF Ordered
<1>3. PICK i \in 1 .. Len(s) : s[i][1] = Head(s)[1] /\ s[i][2] = low + 1
  BY <1>1, <1>2, SMTT(30) DEF Ordered
<1>4. i = 1 \/ s[1][2] < s[i][2]
  BY <1>1, <1>3 DEF Ordered
<1> QED BY <1>1, <1>2, <1>3, <1>4

\* A client joins a topic when it registers, and at no other time.
LEMMA TopicSteps ==
  ASSUME BNext
  PROVE  topic' = topic \/ \E c \in Clients, t \in Topics :
                              Register(c, InstanceOf[c], t) /\ UNCHANGED messages
<1>1. ASSUME NEW c \in Clients,
             PeerStep(c) \/ ReaderStep(c) \/ WriterStep(c)
               \/ Fails(Reader(c)) \/ Fails(Writer(c)) \/ Close(c)
      PROVE  topic' = topic \/ \E t \in Topics : Register(c, InstanceOf[c], t) /\ UNCHANGED messages
  <2>1. CASE PeerStep(c)
    BY <2>1 DEF PeerStep, AddClient, Break, StopSubscribe, CloseRequest, Refuse,
       ReadRequest, Moves, ident
  <2>2. CASE ReaderStep(c)
    BY <2>2 DEF ReaderStep, ReaderGetConn, ReaderLeaves, OnMqRegister, ClaimInstance,
       LoadTopic, EnterTopic, JoinTopic, ReplyAndStart, Confirm, GetSQProducer, PushRequest, Moves, ident
  <2>3. CASE WriterStep(c) \/ Fails(Reader(c)) \/ Fails(Writer(c)) \/ Close(c)
    BY <2>3 DEF WriterStep, WriterGetConn, Write, Fails, Error, CloseSelf, Unregister, DelTopic,
       Close, CloseBegin, CloseConn, CloseStopsWriter, CloseEnd, ident
  <2> QED BY <1>1, <2>1, <2>2, <2>3
<1>2. ASSUME NEW q \in Queues, BQueueStep(q) PROVE topic' = topic
  BY <1>2 DEF BQueueStep, TakeMessage, SeekConn, QueueStep, LookupTopic, AskClient, QueueGetConn,
     WriteRequest, Write, WriteFails, Error, CloseSelf, Unregister, DelTopic, vars, ident
<1> QED BY <1>1, <1>2 DEF BNext

LEMMA DeliveryBegins == BInit => Delivery!Init
<1> SUFFICES ASSUME BInit PROVE Delivery!Init
  OBVIOUS
<1>1. topic \in [Clients -> Topics \cup {Nobody}]
  BY BrokerAssumption DEF BInit, IsEarly
<1>2. Hand = [c \in Clients |-> Nobody]
  BY Names DEF BInit, Hand, Reader
<1>3. Line = [t \in Topics |-> <<>>]
  BY DEF BInit, Line, InQueue
<1> QED BY <1>1, <1>2, <1>3 DEF BInit, Delivery!Init, Hand, Line

\* What changes in the hands of the readers and in the lines.
LEMMA SameDelivery ==
  ASSUME \A c \in Clients : /\ pc'[Reader(c)] \in {"create", "push"} <=>
                                  pc[Reader(c)] \in {"create", "push"}
                            /\ dest'[c] = dest[c],
         \A t \in Topics : InQueue(t)' = InQueue(t)
  PROVE  Hand' = Hand /\ Line' = Line
  BY DEF Hand, Line

LEMMA PlainDelivery ==
  ASSUME RInv, BInv, BNext, UNCHANGED messages,
         \/ pc' = pc
         \/ \E p \in Procs, l \in Plain : pc' = [pc EXCEPT ![p] = l] /\ pc[p] \in Plain
  PROVE  [Delivery!Next]_(Delivery!vars)
<1>1. /\ Hand' = Hand /\ Line' = Line
  <2>1. \A t \in Topics : InQueue(t)' = InQueue(t)
    BY DEF messages, InQueue
  <2>2. \A c \in Clients : /\ pc'[Reader(c)] \in {"create", "push"} <=>
                                pc[Reader(c)] \in {"create", "push"}
                           /\ dest'[c] = dest[c]
    BY Parties DEF BInv, PcOK, messages, Plain
  <2> QED BY <2>1, <2>2, SameDelivery
<1>2. sent' = sent /\ written' = written
  BY DEF messages
<1>3. CASE topic' = topic
  BY <1>1, <1>2, <1>3 DEF Delivery!vars, Hand, Line
<1>4. ASSUME NEW c \in Clients, NEW t \in Topics, Register(c, InstanceOf[c], t)
      PROVE  Delivery!Join(c, t)
  <2>1. topic[c] = Nobody
    BY <1>4 DEF RInv, ClientInv, Ident, Register
  <2>2. topic' = [topic EXCEPT ![c] = t]
    BY <1>4 DEF Register
  <2> QED BY <1>1, <1>2, <2>1, <2>2 DEF Delivery!Join, Hand, Line
<1> QED BY <1>3, <1>4, TopicSteps DEF Delivery!Next

LEMMA ReadIsTake ==
  ASSUME BInv, NEW c \in Clients, NEW q \in Queues, ReadRequest(c, TopicOf[q])
  PROVE  Delivery!Take(c, TopicOf[q])
<1>1. PcOK /\ MessagesOK /\ Nobody # TopicOf[q]
  BY Parties, RegistryAssumption DEF BInv
<1>2. /\ sent' = [sent EXCEPT ![c][TopicOf[q]] = @ + 1]
      /\ dest' = [dest EXCEPT ![c] = TopicOf[q]]
      /\ UNCHANGED <<topic, topicTag, cache, cur, written>> /\ pc[Reader(c)] = "reading"
  BY DEF ReadRequest, Reading, Moves, ident
<1>3. /\ pc'[Reader(c)] \in {"create", "push"}
      /\ \A d \in Clients : d # c => pc'[Reader(d)] = pc[Reader(d)]
  BY <1>1, ReaderMoves DEF ReadRequest
<1>4. \A d \in Clients : dest'[d] = IF d = c THEN TopicOf[q] ELSE dest[d]
  BY <1>1, <1>2 DEF MessagesOK
<1>5. Hand[c] = Nobody /\ Hand' = [Hand EXCEPT ![c] = TopicOf[q]]
  BY <1>2, <1>3, <1>4 DEF Hand
<1>6. Line' = Line
  BY <1>2 DEF Line, InQueue
<1> QED BY <1>2, <1>5, <1>6 DEF Delivery!Take, Hand, Line

LEMMA PushIsAccept ==
  ASSUME BInv, NEW c \in Clients, PushRequest(c)
  PROVE  \E t \in Topics : Delivery!Accept(c, t)
<1>1. PcOK /\ MessagesOK
  BY DEF BInv
<1>2. /\ dest' = dest /\ UNCHANGED <<topic, sent, written>> /\ pc[Reader(c)] = "push"
  BY DEF PushRequest, Moves, ident
<1>3. /\ pc'[Reader(c)] = "read"
      /\ \A d \in Clients : d # c => pc'[Reader(d)] = pc[Reader(d)]
  BY <1>1, ReaderMoves DEF PushRequest
<1>4. /\ dest[c] \in Topics /\ Len(InQueue(dest[c])) < CacheMax + 1
      /\ \A t \in Topics :
            InQueue(t)' = IF t = dest[c] THEN Append(InQueue(t), <<c, sent[c][t]>>) ELSE InQueue(t)
  BY PushRequestKeeps
<1>5. Hand[c] = dest[c] /\ Hand' = [Hand EXCEPT ![c] = Nobody]
  BY <1>2, <1>3 DEF Hand
<1> PICK t0 \in Topics : t0 = dest[c]
  BY <1>4
<1>6. /\ Len(Line[t0]) < CacheMax + 1
      /\ Line' = [Line EXCEPT ![t0] = Append(@, <<c, sent[c][t0]>>)]
  BY <1>4 DEF Line
<1>7. Delivery!Accept(c, t0)
  BY <1>2, <1>5, <1>6 DEF Delivery!Accept, Hand, Line
<1> QED BY <1>7

LEMMA WriteIsGive ==
  ASSUME RInv, BInv, NEW q \in Queues, WriteRequest(q)
  PROVE  client[q] \in Clients /\ Delivery!Give(TopicOf[q], client[q])
<1> DEFINE t0 == TopicOf[q]
           m  == cur[q][1]
           s  == InQueue(t0)
<1>1. PcOK /\ MessagesOK /\ QueuesOrdered /\ t0 \in Topics
  BY Parties DEF BInv
<1>2. /\ pc' = [pc EXCEPT ![Queue(q)] = "idle"] /\ pc[Queue(q)] = "writing"
      /\ dest' = dest /\ UNCHANGED <<topic, sent>>
      /\ written' = [written EXCEPT ![m[1]][t0] = @ + 1]
  BY DEF WriteRequest, Write, Goto, ident
<1>3. client[q] \in Clients /\ topic[client[q]] = t0
  <2>1. client[q] \in Clients
    BY <1>2 DEF RInv, TypeOK, PlaceInv
  <2> QED BY <2>1 DEF RInv, ClientInv, Ident
<1>4. /\ s # <<>> /\ Head(s) = m
      /\ \A t \in Topics : InQueue(t)' = IF t = t0 THEN Tail(InQueue(t)) ELSE InQueue(t)
  BY WriteRequestKeeps
<1>5. Hand' = Hand
  <2>1. \A c \in Clients : pc'[Reader(c)] = pc[Reader(c)]
    BY <1>1, <1>2, Parties DEF PcOK
  <2> QED BY <1>2, <2>1 DEF Hand
<1>6. Line[t0] = s /\ Line' = [Line EXCEPT ![t0] = Tail(@)]
  BY <1>1, <1>4 DEF Line
<1>7. s \in Seq(Message)
  BY <1>1, Contents
<1>8. m[1] \in Clients /\ written[m[1]][t0] \in Nat /\ m[2] = written[m[1]][t0] + 1
  <2>1. m \in Message
    BY <1>4, <1>7, HeadAndTail
  <2> HIDE DEF m, s, t0
  <2>2. m[1] \in Clients
    BY <2>1 DEF Message
  <2>3. /\ Ordered(s, m[1], written[m[1]][t0], Queued(m[1], t0))
        /\ written[m[1]][t0] \in Nat /\ Queued(m[1], t0) \in Int
    BY <1>1, <2>2, Contents DEF QueuesOrdered, Queued, s
  <2>4. Queued(m[1], t0) \in Nat
    BY <2>3 DEF Ordered
  <2> QED BY <1>4, <1>7, <2>2, <2>3, <2>4, OldestIsNext
<1>9. written' = [written EXCEPT ![m[1]][t0] = m[2]]
  <2> HIDE DEF m, t0
  <2>1. \A c \in Clients : written[c] = [t \in Topics |-> written[c][t]]
    BY <1>1 DEF MessagesOK
  <2> QED BY <1>1, <1>2, <1>8, <2>1 DEF MessagesOK
<1>10. Line[t0] # <<>> /\ Head(Line[t0]) = m
  BY <1>4, <1>6
<1> HIDE DEF m, s
<1> QED BY <1>2, <1>3, <1>5, <1>6, <1>9, <1>10 DEF Delivery!Give, Hand, Line

LEMMA DeliveryStep == RInv /\ BInv /\ [BNext]_bvars => [Delivery!Next]_(Delivery!vars)
<1> SUFFICES ASSUME RInv, BInv, [BNext]_bvars PROVE [Delivery!Next]_(Delivery!vars)
  OBVIOUS
<1>1. CASE UNCHANGED bvars
  <2>1. Hand' = Hand /\ Line' = Line /\ UNCHANGED <<topic, sent, written>>
    BY <1>1 DEF bvars, vars, messages, ident, Hand, Line, InQueue
  <2> QED BY <2>1 DEF Delivery!vars, Hand, Line
<1>2. CASE BNext
  <2>1. ASSUME NEW c \in Clients, NEW q \in Queues, ReadRequest(c, TopicOf[q])
        PROVE  Delivery!Next
    BY <2>1, ReadIsTake, Parties DEF Delivery!Next
  <2>2. ASSUME NEW c \in Clients, PushRequest(c) PROVE Delivery!Next
    BY <2>2, PushIsAccept DEF Delivery!Next
  <2>3. ASSUME NEW q \in Queues, WriteRequest(q) PROVE Delivery!Next
    BY <2>3, WriteIsGive, Parties DEF Delivery!Next
  <2>4. ASSUME NEW c \in Clients, GetSQProducer(c) PROVE UNCHANGED Delivery!vars
    <3>1. /\ pc[Reader(c)] = "create" /\ dest' = dest /\ UNCHANGED <<topic, sent, written>>
          /\ pc'[Reader(c)] = "push"
          /\ \A d \in Clients : d # c => pc'[Reader(d)] = pc[Reader(d)]
      BY <2>4, ReaderMoves DEF BInv, GetSQProducer, Moves, ident
    <3>2. Hand' = Hand /\ Line' = Line
      BY <2>4, <3>1, GetSQProducerKeeps, SameDelivery
    <3> QED BY <3>1, <3>2 DEF Delivery!vars, Hand, Line
  <2>5. ASSUME NEW q \in Queues, TakeMessage(q) PROVE UNCHANGED Delivery!vars
    <3>1. pc' = pc /\ dest' = dest /\ UNCHANGED <<topic, sent, written>>
      BY <2>5 DEF TakeMessage, vars, ident
    <3>2. Hand' = Hand /\ Line' = Line
      BY <2>5, <3>1, TakeMessageKeeps, SameDelivery
    <3> QED BY <3>1, <3>2 DEF Delivery!vars, Hand, Line
  <2> QED BY <1>2, <2>1, <2>2, <2>3, <2>4, <2>5, PlainDelivery, StepKinds
<1> QED BY <1>1, <1>2

(* The server does what MqDelivery says: whatever becomes of subscribers,  *)
(* connections and locks, a request that was taken is given out once, in   *)
(* the order of acceptance, to a client that asked for its topic.          *)
THEOREM DeliveryImplemented == BSpec => ImplementsDelivery
  BY DeliveryBegins, DeliveryStep, RegistryInvariance, QueueInvariance, PTL
     DEF BSpec, ImplementsDelivery, Delivery!Spec
================================================================================
